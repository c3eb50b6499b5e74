------------------------------ MODULE TxSession ------------------------------
(***************************************************************************)
(* One `pgrs shell`: the REPL loop with its client-side transaction        *)
(* tracker, and the PostgreSQL session it talks to over one connection.    *)
(* The REPL sends a text (simple_query), the server runs its statements in *)
(* order, the adapter may probe the text with PREPARE, the REPL takes the  *)
(* reply, refreshes its schema after DDL and advances the tracker.  The    *)
(* server half is external: modelled from how the code relies on it.       *)
(***************************************************************************)
EXTENDS TxTracker, FiniteSets

CONSTANTS
  Rows,       \* rows that DML may write
  Texts,      \* texts a user types, saves or finds in the history
  Explains,   \* those of them given to \explain or \explain+
  Exports,    \* those of them that are exported with \export
  Faults,     \* what may go wrong on the server, a subset of FaultKinds
  MaxSaves    \* bound: no SAVEPOINT is sent with this many of them open

\* "commit": COMMIT may be refused (deferred constraint, serialization).
\* "meta":   a server call made by a backslash command or by the schema
\*           refresh may fail (\d of an unknown table, bad \explain, timeout).
\* "loss":   the connection may be lost.
FaultKinds == {"commit", "meta", "loss"}

ASSUME TextsAssumption   == Texts \subseteq {t \in Text : Len(t.stmts) > 0}
ASSUME MetaAssumption    == Explains \union Exports \subseteq Texts
ASSUME FaultsAssumption  == Faults \subseteq FaultKinds
ASSUME MaxSavesAssumption == MaxSaves \in Nat

VARIABLES
  tx,       \* the tracked state: Arc<Mutex<TxState>>, shown by the prompt
  phase,    \* where the REPL loop is
  via,      \* which handler sent the text being run
  text,     \* the text being run
  pos,      \* how many of its statements the server has completed
  ok,       \* the outcome reported to the handler
  srv,      \* the server session's transaction status
  work,     \* rows written and not yet committed
  saves,    \* the rows pending at each open savepoint, oldest first
  durable,  \* rows committed
  bare,     \* rows committed without ever having been in an explicit block
  hit       \* what has set the two halves apart since the tracker was last Idle

client == <<tx, phase, via, text, pos, ok>>
server == <<srv, work, saves, durable, bare>>
vars   == <<client, server, hit>>

Phases  == {"prompt", "running", "probe", "replied", "confirm", "exited", "aborted"}
Vias    == {"sql", "meta", "analyze", "export", "refresh"}
SrvStates == {"idle", "implicit", "block", "failed", "down"}

Query  == [stmts |-> <<"query">>, parsed |-> TRUE]
AtEnd  == pos = Len(text.stmts)
Next1  == text.stmts[pos + 1]

-----------------------------------------------------------------------------
(* The REPL's commands. Each one that reaches the server leaves the prompt  *)
(* with the text to run; the others (\x, \timing, \help, \dt, ...) touch    *)
(* neither the tracker nor the connection.                                  *)

Send(handler, t) ==
  /\ phase = "prompt"
  /\ Len(saves) = MaxSaves => \A i \in DOMAIN t.stmts : t.stmts[i] # "savepoint"
  /\ phase' = "running"
  /\ via' = handler
  /\ text' = t
  /\ pos' = 0
  /\ UNCHANGED <<tx, ok, server, hit>>

\* Faulty: DML goes to the server whatever the tracker says.
RunUnguarded(t) == Send("sql", t)

\* run_statement up to the server call: typed SQL, \begin and its like,
\* \run <name> and \edit all come here.  A refused DML changes nothing.
RunStatement(t) == ~DmlRequiresTx(tx, t) /\ Send("sql", t)

\* \explain and \explain+ prefix the text with EXPLAIN (...): its first
\* statement is planned (run, with ANALYZE), the others run as they are, and
\* only queries and DML can be explained.  The guard is for ANALYZE alone.
Explained(t, analyze) ==
  LET first == t.stmts[1]
      head  == IF first \notin {"query", "dml"} THEN "bad"
               ELSE IF analyze THEN first ELSE "query"
  IN [t EXCEPT !.stmts[1] = head]

Explain(t) == Send("meta", Explained(t, FALSE))
\* Faulty: EXPLAIN ANALYZE, which runs the statement, goes unguarded.
AnalyzeUnguarded(t) == Send("analyze", Explained(t, TRUE))
ExplainAnalyze(t) ==
  ~DmlRequiresTx(tx, t) /\ Send("analyze", Explained(t, TRUE))

\* \d <table>, \l and \refresh: a catalog query of the program's own.
Catalog == Send("meta", Query)

\* \export <id> <path>: a history entry runs again unless it is DML or DDL.
Export(t) == ~IsDml(t) /\ ~IsDdl(t) /\ Send("export", t)

-----------------------------------------------------------------------------
(* The server runs the text one statement at a time.                        *)

Discard ==
  /\ work' = {}
  /\ saves' = <<>>
  /\ UNCHANGED <<durable, bare>>

Keep ==
  /\ work' = {}
  /\ saves' = <<>>
  /\ durable' = durable \union work
  /\ bare' = IF srv = "implicit" THEN bare \union work ELSE bare

\* The part of a statement's effect that is on the transaction block.
Begin  == srv # "failed" /\ srv' = "block" /\ UNCHANGED <<work, saves, durable, bare>>
Commit == srv' = "idle" /\ IF srv = "failed" THEN Discard ELSE Keep
Rollback == srv' = "idle" /\ Discard
CommitAndChain ==
  /\ srv \in {"block", "failed"}
  /\ srv' = "block"
  /\ IF srv = "failed" THEN Discard ELSE Keep
RollbackAndChain == srv \in {"block", "failed"} /\ srv' = "block" /\ Discard

Savepoint ==
  /\ srv = "block"
  /\ saves' = Append(saves, work)
  /\ UNCHANGED <<srv, work, durable, bare>>
RollbackTo ==
  /\ srv \in {"block", "failed"} /\ saves # <<>>
  /\ srv' = "block"
  /\ work' = saves[Len(saves)]
  /\ UNCHANGED <<saves, durable, bare>>
Release ==
  /\ srv = "block" /\ saves # <<>>
  /\ saves' = SubSeq(saves, 1, Len(saves) - 1)
  /\ UNCHANGED <<srv, work, durable, bare>>

\* A statement that is not transaction control, outside a block, opens the
\* implicit block that the end of the text commits; DML writes at most one row.
Plain(rows) ==
  /\ srv \in {"idle", "implicit", "block"}
  /\ srv' = IF srv = "idle" THEN "implicit" ELSE srv
  /\ work' = work \union rows
  /\ UNCHANGED <<saves, durable, bare>>

Effect(k) ==
  \/ k = "begin" /\ Begin
  \/ k = "commit" /\ Commit
  \/ k = "commitchain" /\ CommitAndChain
  \/ k = "rollback" /\ Rollback
  \/ k = "rollbackchain" /\ RollbackAndChain
  \/ k = "savepoint" /\ Savepoint
  \/ k = "rollbackto" /\ RollbackTo
  \/ k = "release" /\ Release
  \/ k \in {"ddl", "query"} /\ Plain({})
  \/ k = "dml" /\ \E rows \in {{}} \union {{r} : r \in Rows \ (work \union durable)} :
                      Plain(rows)

\* A text with a syntax error runs nothing at all.
Parses == \A i \in DOMAIN text.stmts : text.stmts[i] # "bad"

Exec ==
  /\ phase = "running" /\ ~AtEnd /\ srv # "down" /\ Parses
  /\ Effect(Next1)
  /\ pos' = pos + 1
  /\ UNCHANGED <<tx, phase, via, text, ok, hit>>

\* The server reports an error: it must in some states, it may in others.
Refused(k) ==
  \/ ~Parses \/ srv = "down"
  \/ srv = "failed" /\ k \in {"begin", "savepoint", "release", "dml", "ddl", "query"}
  \/ srv \in {"idle", "implicit"} /\ k \in {"commitchain", "rollbackchain",
                                            "savepoint", "rollbackto", "release"}
  \/ saves = <<>> /\ k \in {"rollbackto", "release"}

CommitRefused(k) ==
  /\ "commit" \in Faults /\ Parses
  /\ srv \in {"block", "implicit"} /\ k \in {"commit", "commitchain"}

MayFail(k) ==
  \/ Refused(k)
  \/ CommitRefused(k)
  \/ k \in {"dml", "ddl", "query"} /\ (via = "sql" \/ "meta" \in Faults)

\* An error ends an implicit block and a block whose COMMIT is refused; any
\* other block it leaves open and failed.  The rest of the text is dropped.
Fail ==
  /\ phase = "running" /\ ~AtEnd /\ MayFail(Next1)
  /\ LET over == srv = "implicit" \/ CommitRefused(Next1)
     IN /\ srv' = IF over THEN "idle" ELSE IF srv = "block" THEN "failed" ELSE srv
        /\ IF over THEN Discard ELSE UNCHANGED <<work, saves, durable, bare>>
  /\ hit' = hit \union (IF CommitRefused(Next1) THEN {"commit"} ELSE {})
               \union (IF via # "sql" THEN {"meta"} ELSE {})
  /\ phase' = "replied"
  /\ ok' = FALSE
  /\ UNCHANGED <<tx, via, text, pos>>

\* The end of the text commits the implicit block, if one is open.
Settle ==
  /\ phase = "running" /\ AtEnd
  /\ IF srv = "implicit" THEN srv' = "idle" /\ Keep ELSE UNCHANGED server
  /\ phase' = "probe"
  /\ UNCHANGED <<tx, via, text, pos, ok, hit>>

SettleRefused ==
  /\ phase = "running" /\ AtEnd /\ srv = "implicit" /\ "commit" \in Faults
  /\ srv' = "idle" /\ Discard
  /\ phase' = "replied"
  /\ ok' = FALSE
  /\ UNCHANGED <<tx, via, text, pos, hit>>

\* PostgresDb::execute prepares a text that returned no row, to learn its
\* columns, and ignores the error; a text of several statements cannot be
\* prepared, and inside a block that error aborts the block.  If the
\* connection is gone the reply may have arrived before it went.
Probe ==
  /\ phase = "probe"
  /\ LET fails  == via \in {"sql", "export"} /\ Len(text.stmts) > 1 /\ srv = "block"
         noRows == \A i \in DOMAIN text.stmts : text.stmts[i] \notin {"query", "dml"}
     IN srv' \in IF ~fails THEN {srv} ELSE IF noRows THEN {"failed"} ELSE {"block", "failed"}
  /\ hit' = IF srv' # srv THEN hit \union {"probe"} ELSE hit
  /\ ok' \in IF srv = "down" THEN BOOLEAN ELSE {TRUE}
  /\ phase' = "replied"
  /\ UNCHANGED <<tx, via, text, pos, work, saves, durable, bare>>

-----------------------------------------------------------------------------
(* The reply reaches the REPL.                                              *)

\* Faulty: the position in the text is not reset.
ToPromptMidway ==
  /\ phase' = "prompt"
  /\ via' = "meta" /\ text' = Query /\ ok' = TRUE
  /\ hit' = IF tx' = "Idle" THEN {} ELSE hit
  /\ UNCHANGED <<pos, server>>
ToPrompt ==
  /\ phase' = "prompt"
  /\ via' = "meta" /\ text' = Query /\ pos' = 0 /\ ok' = TRUE
  /\ hit' = IF tx' = "Idle" THEN {} ELSE hit
  /\ UNCHANGED server

\* handle_sql refreshes the schema after successful DDL, with a query on the
\* same connection, before the tracker advances ...
RefreshAfterDdl ==
  /\ phase = "replied" /\ via = "sql" /\ ok /\ IsDdl(text)
  /\ phase' = "running" /\ via' = "refresh" /\ text' = Query /\ pos' = 0
  /\ UNCHANGED <<tx, ok, server, hit>>

\* Faulty: a failing refresh leaves the loop waiting.
AdvanceIfRefreshed ==
  /\ phase = "replied"
  /\ \/ /\ via = "sql" /\ ~(ok /\ IsDdl(text))
        /\ tx' = NextTxState(tx, TxEffect(text), ok)
     \/ /\ via = "refresh" /\ ok
        /\ tx' = NextTxState(tx, "None", TRUE)
  /\ ToPrompt

\* ... and the tracker takes DDL for a success whatever became of the refresh.
Advance ==
  /\ phase = "replied"
  /\ \/ /\ via = "sql" /\ ~(ok /\ IsDdl(text))
        /\ tx' = NextTxState(tx, TxEffect(text), ok)
     \/ /\ via = "refresh"
        /\ tx' = NextTxState(tx, "None", TRUE)
  /\ ToPrompt

\* The other handlers print the outcome and leave the tracker alone.
Ignore ==
  /\ phase = "replied" /\ via \in {"meta", "analyze", "export"}
  /\ UNCHANGED tx
  /\ ToPrompt

-----------------------------------------------------------------------------
(* Leaving. The connection closes with the program: an open block is lost.  *)

Close == srv' = "down" /\ Discard

Quit ==
  /\ phase = "prompt"
  /\ IF tx = "Idle" THEN phase' = "exited" /\ Close ELSE phase' = "confirm" /\ UNCHANGED server
  /\ UNCHANGED <<tx, via, text, pos, ok, hit>>

\* "yes", Ctrl-C, Ctrl-D or a read error: ROLLBACK, its failure only printed.
ConfirmQuit ==
  /\ phase = "confirm"
  /\ phase' = "exited" /\ tx' = "Idle" /\ Close
  /\ UNCHANGED <<via, text, pos, ok, hit>>

CancelQuit ==
  /\ phase = "confirm"
  /\ phase' = "prompt"
  /\ UNCHANGED <<tx, via, text, pos, ok, server, hit>>

\* read_line fails: the loop returns the error without asking.
ReadError ==
  /\ phase = "prompt"
  /\ phase' = "aborted" /\ Close
  /\ UNCHANGED <<tx, via, text, pos, ok, hit>>

Lose ==
  /\ "loss" \in Faults /\ srv # "down"
  /\ Close
  /\ UNCHANGED <<client, hit>>

Finished == phase \in {"exited", "aborted"} /\ UNCHANGED vars

-----------------------------------------------------------------------------
Init ==
  /\ tx = "Idle" /\ phase = "prompt"
  /\ via = "meta" /\ text = Query /\ pos = 0 /\ ok = TRUE
  /\ srv = "idle" /\ work = {} /\ saves = <<>> /\ durable = {} /\ bare = {}
  /\ hit = {}

Command ==
  \/ \E t \in Texts : RunStatement(t)
  \/ \E t \in Explains : Explain(t) \/ ExplainAnalyze(t)
  \/ \E t \in Exports : Export(t)
  \/ Catalog

Progress == \/ Exec \/ Fail \/ Settle \/ SettleRefused \/ Probe
            \/ RefreshAfterDdl \/ Advance \/ Ignore

Leave == Quit \/ ConfirmQuit \/ CancelQuit \/ ReadError

Next == Command \/ Progress \/ Leave \/ Lose \/ Finished

Spec     == Init /\ [][Next]_vars
FairSpec == Spec /\ WF_vars(Progress)

-----------------------------------------------------------------------------
(* The input the tracker is made for: a text that controls the transaction  *)
(* is one statement that sqlparser reads, without AND CHAIN; any other text *)
(* that changes rows starts with DML that sqlparser reads.  \explain takes  *)
(* one statement and \export never a text that controls the transaction.   *)

DataText(t)    == \A i \in 1..Len(t.stmts) : t.stmts[i] \in {"dml", "ddl", "query", "bad"}
HasDml(t)      == \E i \in 1..Len(t.stmts) : t.stmts[i] = "dml"
ControlText(t) == /\ t.parsed /\ Len(t.stmts) = 1
                  /\ t.stmts[1] \in ControlKinds \ {"commitchain", "rollbackchain"}

ReadableInput ==
  /\ \A t \in Texts    : ControlText(t) \/ (DataText(t) /\ (HasDml(t) => IsDml(t)))
  /\ \A t \in Explains : Len(t.stmts) = 1
  /\ \A t \in Exports  : DataText(t)

-----------------------------------------------------------------------------
TypeOK ==
  /\ tx \in TxStates /\ phase \in Phases /\ via \in Vias
  /\ text \in Text /\ pos \in Nat /\ pos <= Len(text.stmts) /\ ok \in BOOLEAN
  /\ srv \in SrvStates
  /\ work \subseteq Rows /\ durable \subseteq Rows /\ bare \subseteq Rows
  /\ saves \in Seq(SUBSET Rows)
  /\ hit \subseteq {"commit", "meta", "probe"}

AtPrompt == phase \in {"prompt", "confirm"}

\* Whenever the prompt says Idle the server has no block open: no rows wait
\* for a COMMIT the user does not know is needed (handle_quit_request would
\* then leave without asking, dml_requires_tx refuse statements in a block).
IdleMeansNoBlock == AtPrompt /\ tx = "Idle" => srv \in {"idle", "down"}

\* Unless its COMMIT was refused, the prompt of a failed transaction (!>) is
\* never shown over a live block, whose rows a COMMIT would keep.
FailedMeansNoLiveBlock ==
  AtPrompt /\ tx = "Failed" /\ "commit" \notin hit => srv # "block"

\* When the server has aborted the block the prompt says so, unless it was
\* aborted by a server call that does not pass through the tracker.
PromptShowsFailure ==
  AtPrompt /\ srv = "failed" /\ hit \intersect {"meta", "probe"} = {} => tx = "Failed"

\* No row is committed that was not written in an explicit block, where it
\* could still be rolled back (dml_requires_tx), unless a COMMIT was refused.
WritesOnlyInBlock == [][bare' # bare => "commit" \in hit]_vars

\* Rows become durable only while the prompt says a transaction is open, and
\* through a text sent by run_statement (never by \d, \explain or \export)
\* unless a COMMIT was refused.
DurableOnlyInTransaction ==
  [][durable' # durable => tx # "Idle" /\ (via = "sql" \/ "commit" \in hit)]_vars

\* A COMMIT accepted at a prompt that says the transaction is in progress
\* makes every pending row durable, unless a server call that does not pass
\* through the tracker has aborted the block.
CommitAccepted == pos' = pos + 1 /\ TxEffect(text) = "Commit" /\ tx = "InTransaction"
CommitKeepsWork ==
  [][CommitAccepted /\ hit \intersect {"meta", "probe"} = {}
       => work \subseteq durable']_vars

\* Every submission comes back to a prompt, whatever the server answers.
SubmissionReturns == phase \in {"running", "probe", "replied"} ~> phase = "prompt"

\* The session keeps the promise: with the tracker's state for whether a
\* transaction is open, it implements TxPromise, whatever fails.
Promise == INSTANCE TxPromise WITH open <- (tx # "Idle"), pending <- work
KeepsPromise == Promise!Spec

-----------------------------------------------------------------------------
(* What the design documents say without the exceptions above.              *)

\* "passed through to the server as today (the server rejects it with 25P02)":
\* DML sent while the tracker says Failed is an error.
FailedDmlRejected ==
  phase = "replied" /\ via = "sql" /\ tx = "Failed" /\ IsDml(text) => ~ok

\* "if tx.get() != Idle, print a warning and read a [y/N] confirmation": no
\* open block is left without being asked about.
QuitAsks == [][phase = "prompt" /\ phase' = "exited" => srv \in {"idle", "down"}]_vars
=============================================================================
