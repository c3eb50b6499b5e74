-------------------------------- MODULE MCCli --------------------------------
(* TLC instance of Cli: a connection added by any URL for the parts below,  *)
(* beside one whose name is a number; options twice, blank, out of range.   *)
EXTENDS Cli, TLC

CONSTANTS MaxOptions

Chars   == <<" ", "%3A", "%40", "/", "10", "2", "5432", "65536", ":", "@", "[", "]",
             "d", "disable", "g", "h", "p", "postgres://", "require", "u", "verify-full", "w">>
Numbers == ("10" :> 10) @@ ("2" :> 2) @@ ("5432" :> 5432) @@ ("65536" :> 65536)
Codes   == ("%3A" :> ":") @@ ("%40" :> "@")

UrlParts ==
  {[host |-> <<"h">>, port |-> <<>>, username |-> <<"u">>, password |-> <<"w", "@">>, database |-> <<"d">>],
   [host |-> <<"h">>, port |-> <<2>>, username |-> <<"u", ":", "@">>, password |-> <<"@", ":">>, database |-> <<"d">>],
   [host |-> <<"2", ":", ":", "2">>, port |-> <<2>>, username |-> <<"u", "@">>, password |-> <<"w">>, database |-> <<"@">>]}

Plain == <<Option("--username", <<"u">>), Option("--password", <<"w">>),
           Option("--database", <<"d">>), Option("--host", <<"h">>)>>
Extra == {Option("--host", <<"g">>), Option("--host", <<" ">>), Option("--port", <<"10">>),
          Option("--port", <<"65536">>), Option("--tls", <<"verify-full">>), Option("--env", <<>>)}
Lists(n) == UNION {[1 .. k -> Extra] : k \in 0 .. n}

Url(p)  == CHOOSE url \in UrlsFor(p) : TRUE
First   == CHOOSE p \in UrlParts : p.port = <<>>

\* Every URL, and options twice; every change, also on connections of which one is
\* named by the id of the other; TLS modes given, changed and kept by other changes.
Names   == {Word(<<"p">>), Word(<<"2">>), Word(<<" ", "2">>)}
Changed == {<<o>> : o \in Extra \union {Option("--tls", <<"require">>), Option("--tls", <<"u">>), Option("--env", <<"g">>)}}
             \union {<<Option("--tls", <<"disable">>), Option("--tls", <<"require">>)>>}
Lines ==
  [add |-> {<<Word(<<"p">>), Option("--url", url)>> : url \in UNION {UrlsFor(p) : p \in UrlParts}}
             \union {<<Word(<<"p">>), Option("--url", Url(First))>> \o more : more \in Lists(MaxOptions)}
             \union {<<n>> \o Plain : n \in Names}
             \union {<<Word(<<"p">>)>> \o Plain \o more : more \in Changed}
             \union {<<>>, Plain, <<Word(<<" ">>)>> \o Plain},
   edit |-> {<<Word(<<"p">>)>> \o more : more \in Changed}
              \union {<<n, o>> : n \in Names, o \in {Option("--tls", <<"require">>), Option("--env", <<"g">>)}}
              \union {<<Word(<<"p">>)>>},
   rename |-> {<<m, n>> : m, n \in Names} \union {<<Word(<<"p">>), Word(<<" ">>)>>},
   delete |-> {<<n>> : n \in Names} \union {<<Word(<<"p">>), Switch("--yes")>>},
   open |-> {<<n>> : n \in Names}]

\* Connections are added in every way, but changed, renamed, deleted and opened only
\* while they differ from plain ones in one thing, or one of them in that and its
\* TLS mode; and not changed any more once a session has been opened.
PlainFields == OfEach(LAMBDA f : OptionalOption(Plain, Flag[f])[1])
Differs(c) ==
  {part \in {"fields", "port", "tls", "environment"} :
     \/ part = "fields" /\ c.fields # PlainFields
     \/ part = "port" /\ c.port # DefaultPort
     \/ part = "tls" /\ c.tls # <<"disable">>
     \/ part = "environment" /\ c.environment # <<>>}
AllDiffer == UNION {{i} \X Differs(conns'[i]) : i \in DOMAIN conns'}
Narrow ==
  /\ \/ lastId' # lastId
     \/ Cardinality(AllDiffer) <= 1
     \/ \E i \in DOMAIN conns', part \in {"fields", "port", "environment"} : AllDiffer = {<<i, "tls">>, <<i, part>>}
  /\ reached' = <<>> \/ conns' = conns
=============================================================================
