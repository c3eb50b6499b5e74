-------------------------- MODULE TxSession_proofs --------------------------
(***************************************************************************)
(* The invariants of TxSession hold for any set of rows, any readable set  *)
(* of texts, any faults and any bound on savepoints, and so does that it   *)
(* implements TxPromise, with the prompt as what the user is told.         *)
(***************************************************************************)
EXTENDS TxSession, SequenceTheorems, TLAPS

USE DEF TxStates, Phases, Vias, SrvStates

-----------------------------------------------------------------------------
(* Typing                                                                   *)

\* The probe is a text.
LEMMA QueryType == Query \in Text /\ 0 <= Len(Query.stmts)
<1>1. <<"query">> \in Seq(Kinds) /\ Len(<<"query">>) = 1
  BY DEF Kinds, ControlKinds
<1>2. QED
  BY <1>1 DEF Query, Text

\* EXPLAIN replaces the first statement of the text and keeps the others.
LEMMA ExplainedText ==
  ASSUME NEW t \in Text, Len(t.stmts) > 0, NEW a \in BOOLEAN
  PROVE  /\ Explained(t, a) \in Text
         /\ Len(Explained(t, a).stmts) = Len(t.stmts)
         /\ Explained(t, a).parsed = t.parsed
         /\ Explained(t, a).stmts[1] = IF t.stmts[1] \notin {"query", "dml"} THEN "bad"
                                       ELSE IF a THEN t.stmts[1] ELSE "query"
<1> DEFINE head == IF t.stmts[1] \notin {"query", "dml"} THEN "bad"
                   ELSE IF a THEN t.stmts[1] ELSE "query"
           es   == [t.stmts EXCEPT ![1] = head]
<1>1. t.stmts \in Seq(Kinds) /\ 1 \in 1..Len(t.stmts)
  BY DEF Text
<1>2. head \in Kinds
  BY <1>1, ElementOfSeq DEF Kinds, ControlKinds
<1>3. es \in Seq(Kinds) /\ Len(es) = Len(t.stmts) /\ es[1] = head
  BY <1>1, <1>2, ExceptSeq
<1>4. Explained(t, a) = [t EXCEPT !.stmts = es]
  BY DEF Explained
<1>5. QED
  BY <1>3, <1>4 DEF Text

\* The tracker stays in its states, and tells its four effects.
LEMMA NextTxStateType ==
  ASSUME NEW s \in TxStates, NEW e \in TxEffects, NEW b \in BOOLEAN
  PROVE  NextTxState(s, e, b) \in TxStates
BY DEF NextTxState, FromIdle, FromInTransaction, FromFailed, TxEffects

\* Every text has an effect that the tracker knows.
LEMMA TxEffectType == ASSUME NEW t PROVE TxEffect(t) \in TxEffects
BY DEF TxEffect, TxEffects

\* What a command sends is a text that has a statement to run.
LEMMA SendType ==
  ASSUME TypeOK, NEW h \in Vias, NEW t \in Text, Send(h, t)
  PROVE  TypeOK'
BY DEF TypeOK, Send, server

\* Every effect of a statement on the server keeps the server well typed.
ServerType ==
  /\ srv \in SrvStates /\ saves \in Seq(SUBSET Rows)
  /\ work \subseteq Rows /\ durable \subseteq Rows /\ bare \subseteq Rows

\* The server stays in its states.
LEMMA DiscardKeepType ==
  ASSUME ServerType, Discard \/ Keep, srv' \in SrvStates
  PROVE  ServerType'
BY EmptySeq DEF ServerType, Discard, Keep

\* Whatever a statement does, the server keeps its type.
LEMMA EffectType ==
  ASSUME ServerType, NEW k \in Kinds, Effect(k)
  PROVE  ServerType'
<1>1. CASE Begin
  BY <1>1 DEF Begin, ServerType
<1>2. CASE Commit \/ Rollback \/ CommitAndChain \/ RollbackAndChain
  BY <1>2, DiscardKeepType DEF Commit, Rollback, CommitAndChain, RollbackAndChain
<1>3. CASE Savepoint
  <2>1. saves' \in Seq(SUBSET Rows)
    BY <1>3, AppendProperties DEF Savepoint, ServerType
  <2>2. QED
    BY <1>3, <2>1 DEF Savepoint, ServerType
<1>4. CASE RollbackTo
  <2>1. saves[Len(saves)] \in SUBSET Rows
    BY <1>4, ElementOfSeq, EmptySeq, LenProperties DEF RollbackTo, ServerType
  <2>2. QED
    BY <1>4, <2>1 DEF RollbackTo, ServerType
<1>5. CASE Release
  <2>1. Len(saves) \in Nat /\ Len(saves) # 0
    BY <1>5, EmptySeq, LenProperties DEF Release, ServerType
  <2>2. saves' \in Seq(SUBSET Rows)
    BY <1>5, <2>1, SubSeqProperties, ElementOfSeq DEF Release, ServerType
  <2>3. QED
    BY <1>5, <2>2 DEF Release, ServerType
<1>6. ASSUME NEW rows \in SUBSET Rows, Plain(rows)
      PROVE  ServerType'
  BY <1>6 DEF Plain, ServerType
<1>7. QED
  BY <1>1, <1>2, <1>3, <1>4, <1>5, <1>6 DEF Effect

\* Every step leaves variables of their types.
LEMMA TypeStep == TypeOK /\ [Next]_vars => TypeOK'
<1> SUFFICES ASSUME TypeOK, [Next]_vars
             PROVE  TypeOK'
  OBVIOUS
<1> USE TextsAssumption, MetaAssumption
<1>1. CASE Command
  <2>1. ASSUME NEW t \in Texts, RunStatement(t)
        PROVE  TypeOK'
    BY <2>1, SendType DEF RunStatement
  <2>2. ASSUME NEW t \in Explains, Explain(t) \/ ExplainAnalyze(t)
        PROVE  TypeOK'
    BY <2>2, SendType, ExplainedText DEF Explain, ExplainAnalyze
  <2>3. ASSUME NEW t \in Exports, Export(t)
        PROVE  TypeOK'
    BY <2>3, SendType DEF Export
  <2>4. CASE Catalog
    BY <2>4, SendType, QueryType DEF Catalog
  <2>5. QED
    BY <1>1, <2>1, <2>2, <2>3, <2>4 DEF Command
<1>2. CASE Progress
  <2>1. CASE Exec
    <3>1. pos < Len(text.stmts) => Next1 \in Kinds
      BY ElementOfSeq DEF Next1, TypeOK, Text
    <3>2. ServerType'
      <4>1. Next1 \in {"begin", "commit", "commitchain", "rollback", "rollbackchain",
                       "savepoint", "rollbackto", "release", "ddl", "query", "dml"}
        BY <2>1 DEF Exec, Effect
      <4>2. QED
        BY <2>1, <4>1, EffectType DEF Exec, TypeOK, ServerType, Kinds, ControlKinds
    <3>3. pos + 1 \in Nat /\ pos + 1 <= Len(text.stmts)
      BY <2>1, LenProperties DEF Exec, AtEnd, TypeOK, Text
    <3>4. QED
      BY <2>1, <3>2, <3>3 DEF Exec, TypeOK, ServerType
  <2>2. CASE Fail
    <3>1. srv' \in SrvStates
      BY <2>2 DEF Fail, TypeOK
    <3>2. ServerType'
      BY <2>2, <3>1, DiscardKeepType DEF Fail, TypeOK, ServerType
    <3>3. QED
      BY <2>2, <3>2 DEF Fail, TypeOK, ServerType
  <2>3. CASE Settle
    <3>1. ServerType'
      BY <2>3, DiscardKeepType DEF Settle, TypeOK, ServerType, server
    <3>2. QED
      BY <2>3, <3>1 DEF Settle, TypeOK, ServerType
  <2>4. CASE SettleRefused
    <3>1. ServerType'
      BY <2>4, DiscardKeepType DEF SettleRefused, TypeOK, ServerType
    <3>2. QED
      BY <2>4, <3>1 DEF SettleRefused, TypeOK, ServerType
  <2>5. CASE Probe
    BY <2>5 DEF Probe, TypeOK
  <2>6. CASE RefreshAfterDdl
    BY <2>6, QueryType DEF RefreshAfterDdl, TypeOK, server
  <2>7. CASE Advance
    <3>1. TxEffect(text) \in TxEffects /\ "None" \in TxEffects
      BY TxEffectType DEF TxEffects
    <3>2. /\ NextTxState(tx, TxEffect(text), ok) \in TxStates
          /\ NextTxState(tx, "None", TRUE) \in TxStates
      BY <3>1, NextTxStateType DEF TypeOK
    <3>3. tx' \in TxStates
      BY <2>7, <3>2 DEF Advance
    <3>4. QED
      BY <2>7, <3>3, QueryType DEF Advance, ToPrompt, TypeOK, server
  <2>8. CASE Ignore
    BY <2>8, QueryType DEF Ignore, ToPrompt, TypeOK, server
  <2>9. QED
    BY <1>2, <2>1, <2>2, <2>3, <2>4, <2>5, <2>6, <2>7, <2>8 DEF Progress
<1>3. CASE Leave \/ Lose
  <2>1. Close => ServerType'
    BY DiscardKeepType DEF Close, TypeOK, ServerType
  <2>2. QED
    BY <1>3, <2>1 DEF Leave, Lose, Quit, ConfirmQuit, CancelQuit, ReadError, TypeOK,
                      ServerType, client, server
<1>4. CASE Finished \/ UNCHANGED vars
  BY <1>4 DEF Finished, vars, client, server, TypeOK
<1>5. QED
  BY <1>1, <1>2, <1>3, <1>4 DEF Next

\* Every reachable state of the shell is well typed, whatever the texts, the
\* rows and the faults.
THEOREM TypeCorrect == Spec => []TypeOK
<1>1. Init => TypeOK
  BY QueryType, EmptySeq DEF Init, TypeOK
<1>2. QED
  BY <1>1, TypeStep, PTL DEF Spec

-----------------------------------------------------------------------------
(* The tracker and the server agree                                         *)
(*                                                                          *)
(* IdleMeansNoBlock speaks of the prompt alone and is not inductive: the    *)
(* invariant also says what holds while a text runs.  Agrees relates the    *)
(* tracker to the server; an implicit block is as good as none.             *)

Agrees(t, s, h) ==
  \/ s = "down"
  \/ t = "Idle" /\ s \in {"idle", "implicit"}
  \/ t = "InTransaction" /\ (s = "block" \/ (s = "failed" /\ h \intersect {"meta", "probe"} # {}))
  \/ t = "Failed" /\ (s = "failed" \/ "commit" \in h)

\* What the tracker will become if the text succeeds.
IfDone == NextTxState(tx, TxEffect(text), TRUE)

\* A text that controls the transaction comes from run_statement only, and DML
\* was let through by the guard.
SentWell ==
  /\ ControlText(text) \/ DataText(text)
  /\ via # "sql" => DataText(text)
  /\ HasDml(text) => tx # "Idle"
  /\ Len(text.stmts) > 0 /\ pos <= Len(text.stmts)

AgreesRunning ==
  phase = "running" =>
    /\ SentWell
    /\ Agrees(IF AtEnd THEN IfDone ELSE tx, srv, hit)
    /\ srv = "implicit" => DataText(text)

AgreesReplied ==
  /\ phase = "probe" => SentWell /\ Agrees(IfDone, srv, hit)
  /\ phase = "replied" /\ ok => SentWell /\ Agrees(IfDone, srv, hit)
  /\ phase = "replied" /\ ~ok /\ via = "sql" =>
        Agrees(NextTxState(tx, TxEffect(text), FALSE), srv, hit)
  /\ phase = "replied" /\ ~ok /\ via # "sql" => Agrees(tx, srv, hit)

\* Rows pending in an implicit block were written after a refused COMMIT.
ImplicitWork ==
  /\ srv = "idle" => work = {}
  /\ srv = "implicit" => phase = "running" /\ (work = {} \/ "commit" \in hit)

IInv ==
  /\ TypeOK
  /\ AtPrompt => Agrees(tx, srv, hit)
  /\ AgreesRunning
  /\ AgreesReplied
  /\ ImplicitWork

\* A text without transaction statements does not move the tracker.
LEMMA DataHasNoEffect ==
  ASSUME NEW t \in Text, DataText(t), Len(t.stmts) > 0
  PROVE  TxEffect(t) = "None"
<1>1. 1 \in 1..Len(t.stmts)
  BY LenProperties DEF Text
<1>2. t.stmts[1] \in {"dml", "ddl", "query", "bad"}
  BY <1>1 DEF DataText
<1>3. QED
  BY <1>2 DEF TxEffect, FirstIs

\* And neither does a success without effect.
LEMMA NoEffectNoMove ==
  ASSUME NEW s \in TxStates
  PROVE  NextTxState(s, "None", TRUE) = s
BY DEF NextTxState, FromIdle, FromInTransaction, FromFailed

\* Text of data alone leaves the tracker where it is.
LEMMA DataDone == ASSUME TypeOK, SentWell, DataText(text) PROVE IfDone = tx
<1>1. TxEffect(text) = "None"
  BY DataHasNoEffect DEF SentWell, TypeOK
<1>2. QED
  BY <1>1, NoEffectNoMove DEF IfDone, TypeOK

\* The probe is such a text.
LEMMA QueryIsData ==
  DataText(Query) /\ ~HasDml(Query) /\ Len(Query.stmts) = 1 /\ Query \in Text
BY QueryType DEF DataText, HasDml, Query

\* What Explained makes of one statement writes nothing, or is guarded DML.
LEMMA ExplainedIsData ==
  ASSUME NEW t \in Text, Len(t.stmts) = 1, NEW a \in BOOLEAN, ReadableInput, t \in Texts
  PROVE  /\ DataText(Explained(t, a))
         /\ HasDml(Explained(t, a)) => a /\ IsDml(t)
         /\ Len(Explained(t, a).stmts) = 1
         /\ Explained(t, a) \in Text
<1> DEFINE e == Explained(t, a)
<1>1. /\ e \in Text /\ Len(e.stmts) = 1
      /\ e.stmts[1] = IF t.stmts[1] \notin {"query", "dml"} THEN "bad"
                      ELSE IF a THEN t.stmts[1] ELSE "query"
  BY ExplainedText
<1>2. DataText(e)
  BY <1>1 DEF DataText
<1>3. HasDml(e) => a /\ t.stmts[1] = "dml"
  BY <1>1 DEF HasDml
<1>4. t.stmts[1] = "dml" => IsDml(t)
  BY DEF ReadableInput, ControlText, ControlKinds, HasDml, IsDml, FirstIs
<1>5. QED
  BY <1>1, <1>2, <1>3, <1>4

\* A command starts from a prompt where the two halves agree.
LEMMA SendAgrees ==
  ASSUME IInv, NEW h \in Vias, NEW t \in Text, Send(h, t), Len(t.stmts) > 0,
         ControlText(t) \/ DataText(t), h # "sql" => DataText(t), HasDml(t) => tx # "Idle"
  PROVE  AgreesRunning' /\ AgreesReplied' /\ ImplicitWork' /\ (AtPrompt => Agrees(tx, srv, hit))'
<1>1. /\ phase = "prompt" /\ phase' = "running" /\ via' = h /\ text' = t /\ pos' = 0
      /\ UNCHANGED <<tx, ok, srv, work, saves, durable, bare, hit>>
  BY DEF Send, server
<1>2. Agrees(tx, srv, hit) /\ srv # "implicit"
  BY <1>1 DEF IInv, AtPrompt, ImplicitWork
<1>3. ~AtEnd'
  BY <1>1 DEF AtEnd
<1>4. Len(t.stmts) \in Nat
  BY LenProperties DEF Text
<1>5. SentWell'
  BY <1>1, <1>4 DEF SentWell
<1>6. AgreesRunning'
  BY <1>1, <1>2, <1>3, <1>5 DEF AgreesRunning
<1>7. QED
  BY <1>1, <1>2, <1>6 DEF AgreesReplied, AtPrompt, ImplicitWork, IInv

\* Transaction control outside an implicit block moves both halves alike.
LEMMA ControlAgrees ==
  ASSUME TypeOK, ControlText(text), Effect(text.stmts[1]), srv \in {"idle", "block", "failed"},
         Agrees(tx, srv, hit), srv = "idle" => work = {}
  PROVE  /\ Agrees(IfDone, srv', hit)
         /\ srv' # "implicit"
         /\ srv' = "idle" => work' = {}
<1> DEFINE k == text.stmts[1]
<1>1. k \in {"begin", "commit", "rollback", "savepoint", "rollbackto", "release"} /\ text.parsed
  BY DEF ControlText, ControlKinds
<1> USE DEF Agrees, IfDone, TxEffect, FirstIs, NextTxState, FromIdle, FromInTransaction,
            FromFailed, Effect, TypeOK
<1>2. CASE k = "begin"
  BY <1>2, <1>1 DEF Begin
<1>3. CASE k = "commit"
  BY <1>3, <1>1 DEF Commit, Discard, Keep
<1>4. CASE k = "rollback"
  BY <1>4, <1>1 DEF Rollback, Discard
<1>5. CASE k = "savepoint"
  BY <1>5, <1>1 DEF Savepoint
<1>6. CASE k = "rollbackto"
  BY <1>6, <1>1 DEF RollbackTo
<1>7. CASE k = "release"
  BY <1>7, <1>1 DEF Release
<1>8. QED
  BY <1>1, <1>2, <1>3, <1>4, <1>5, <1>6, <1>7

\* Rows, DDL and queries move neither half, except that outside a block they
\* open the implicit one; DML was let through, so there a COMMIT was refused.
LEMMA DataAgrees ==
  ASSUME TypeOK, NEW k \in {"dml", "ddl", "query"}, Effect(k), Agrees(tx, srv, hit),
         k = "dml" => tx # "Idle", ImplicitWork, phase = "running", phase' = "running"
  PROVE  Agrees(tx, srv', hit) /\ (ImplicitWork /\ hit' = hit => ImplicitWork')
<1>1. ASSUME NEW rows, Plain(rows), rows # {} => k = "dml"
      PROVE  Agrees(tx, srv', hit) /\ (ImplicitWork /\ hit' = hit => ImplicitWork')
  BY <1>1 DEF Plain, Agrees, ImplicitWork, TypeOK
<1>2. QED
  BY <1>1 DEF Effect

\* What IInv says besides the types.
Agreement == (AtPrompt => Agrees(tx, srv, hit)) /\ AgreesRunning /\ AgreesReplied /\ ImplicitWork

\* Text of data alone never controls the transaction.
LEMMA NotBoth == ASSUME NEW t \in Text, Len(t.stmts) > 0, ControlText(t) PROVE ~DataText(t)
BY LenProperties DEF Text, DataText, ControlText, ControlKinds

\* The tracker and the server agree after each step of a statement.
LEMMA ExecStep == ASSUME IInv, Exec PROVE Agreement'
<1>1. /\ phase = "running" /\ phase' = "running" /\ ~AtEnd /\ pos' = pos + 1 /\ Effect(Next1)
      /\ UNCHANGED <<tx, via, text, ok, hit>>
  BY DEF Exec
<1>2. /\ SentWell /\ Agrees(tx, srv, hit) /\ (srv = "implicit" => DataText(text))
      /\ ImplicitWork /\ TypeOK
  BY <1>1 DEF IInv, AgreesRunning
<1>3. Len(text.stmts) \in Nat /\ pos + 1 \in 1..Len(text.stmts) /\ text \in Text
  BY <1>1, <1>2, LenProperties DEF AtEnd, SentWell, TypeOK, Text
<1>4. SentWell'
  BY <1>1, <1>2, <1>3 DEF SentWell
<1>5. CASE DataText(text)
  <2>1. Next1 \in {"dml", "ddl", "query"}
    BY <1>1, <1>3, <1>5 DEF DataText, Next1, Effect
  <2>2. Next1 = "dml" => tx # "Idle"
    BY <1>2, <1>3 DEF SentWell, HasDml, Next1
  <2>3. Agrees(tx, srv', hit) /\ ImplicitWork'
    BY <1>1, <1>2, <2>1, <2>2, DataAgrees
  <2>4. IfDone = tx
    BY <1>2, <1>5, DataDone
  <2>5. IfDone' = IfDone
    BY <1>1 DEF IfDone
  <2>6. AgreesRunning'
    BY <1>1, <1>4, <1>5, <2>3, <2>4, <2>5 DEF AgreesRunning
  <2>7. QED
    BY <1>1, <2>3, <2>6 DEF Agreement, AtPrompt, AgreesReplied
<1>6. CASE ControlText(text)
  <2>1. ~DataText(text)
    BY <1>2, <1>3, <1>6, NotBoth DEF SentWell
  <2>2. pos + 1 = 1 /\ AtEnd'
    BY <1>1, <1>3, <1>6 DEF ControlText, AtEnd, TypeOK
  <2>3. srv \in {"idle", "block", "failed"}
    BY <1>2, <2>1 DEF TypeOK, Exec
  <2>4. Agrees(IfDone, srv', hit) /\ srv' # "implicit" /\ (srv' = "idle" => work' = {})
    BY <1>1, <1>2, <1>6, <2>2, <2>3, ControlAgrees DEF Next1, ImplicitWork
  <2>5. IfDone' = IfDone
    BY <1>1 DEF IfDone
  <2>6. AgreesRunning' /\ ImplicitWork'
    BY <1>1, <1>4, <2>2, <2>4, <2>5 DEF AgreesRunning, ImplicitWork
  <2>7. QED
    BY <1>1, <2>6 DEF Agreement, AtPrompt, AgreesReplied
<1>7. QED
  BY <1>2, <1>5, <1>6 DEF SentWell

\* They agree when a statement fails, which aborts an open block,
LEMMA FailStep == ASSUME IInv, Fail PROVE Agreement'
<1>1. /\ phase = "running" /\ phase' = "replied" /\ ~AtEnd /\ ok' = FALSE
      /\ UNCHANGED <<tx, via, text, pos>> /\ MayFail(Next1) /\ hit \subseteq hit'
      /\ CommitRefused(Next1) => "commit" \in hit'
      /\ via # "sql" => "meta" \in hit'
  BY DEF Fail
<1>2. LET over == srv = "implicit" \/ CommitRefused(Next1)
      IN /\ srv' = IF over THEN "idle" ELSE IF srv = "block" THEN "failed" ELSE srv
         /\ IF over THEN work' = {} ELSE work' = work
  BY DEF Fail, Discard
<1>3. /\ SentWell /\ Agrees(tx, srv, hit) /\ (srv = "implicit" => DataText(text))
      /\ ImplicitWork /\ TypeOK
  BY <1>1 DEF IInv, AgreesRunning
<1>4. Len(text.stmts) \in Nat /\ pos + 1 \in 1..Len(text.stmts) /\ text \in Text
  BY <1>1, <1>3, LenProperties DEF AtEnd, SentWell, TypeOK, Text
<1>5. ImplicitWork'
  BY <1>1, <1>2, <1>3 DEF ImplicitWork
<1>6. CASE DataText(text)
  <2>1. ~CommitRefused(Next1)
    BY <1>4, <1>6 DEF CommitRefused, DataText, Next1
  <2>2. TxEffect(text) = "None"
    BY <1>3, <1>4, <1>6, DataHasNoEffect DEF SentWell
  <2>3. via # "sql" => Agrees(tx, srv', hit')
    BY <1>1, <1>2, <1>3, <2>1 DEF Agrees
  <2>4. Agrees(NextTxState(tx, "None", FALSE), srv', hit')
    BY <1>1, <1>2, <1>3, <2>1 DEF Agrees, NextTxState, FromIdle, FromInTransaction, FromFailed
  <2>5. QED
    BY <1>1, <1>5, <2>2, <2>3, <2>4 DEF Agreement, AtPrompt, AgreesRunning, AgreesReplied
<1>7. CASE ControlText(text)
  <2>1. via = "sql" /\ srv # "implicit"
    BY <1>3, <1>4, <1>7, NotBoth DEF SentWell
  <2>2. pos + 1 = 1 /\ Next1 = text.stmts[1]
    BY <1>4, <1>7 DEF ControlText, Next1, TypeOK
  <2>3. Parses
    <3>1. \A i \in DOMAIN text.stmts : i = 1
      BY <1>4, <1>7, LenProperties DEF ControlText, Text
    <3>2. QED
      BY <3>1, <1>7 DEF Parses, ControlText, ControlKinds
  <2>4. TxEffect(text) = "Commit" =>
           Next1 = "commit" /\ (srv = "down" \/ (srv = "block" /\ CommitRefused(Next1)))
    <3>1. Next1 \in {"begin", "commit", "rollback", "savepoint", "rollbackto", "release"}
      BY <1>7, <2>2 DEF ControlText, ControlKinds
    <3>2. TxEffect(text) = "Commit" => Next1 = "commit"
      BY <1>7, <2>2, <3>1 DEF TxEffect, FirstIs, ControlText
    <3>3. Next1 = "commit" /\ srv # "down" => CommitRefused(Next1)
      BY <1>1, <2>3 DEF MayFail, Refused
    <3>4. CommitRefused(Next1) => srv = "block"
      BY <2>1 DEF CommitRefused
    <3>5. QED
      BY <3>2, <3>3, <3>4
  <2>5. Agrees(NextTxState(tx, TxEffect(text), FALSE), srv', hit')
    <3>1. TxEffect(text) # "Commit" =>
            NextTxState(tx, TxEffect(text), FALSE) = IF tx = "Idle" THEN "Idle" ELSE "Failed"
      BY <1>3 DEF NextTxState, FromIdle, FromInTransaction, FromFailed, TypeOK
    <3>2. CommitRefused(Next1) => srv = "block"
      BY <2>1 DEF CommitRefused
    <3>3. CASE TxEffect(text) # "Commit"
      BY <1>1, <1>2, <1>3, <2>1, <3>1, <3>2, <3>3 DEF Agrees, TypeOK
    <3>4. CASE TxEffect(text) = "Commit"
      <4>1. NextTxState(tx, "Commit", FALSE) =
              IF tx = "InTransaction" THEN "Failed" ELSE "Idle"
        BY <1>3 DEF NextTxState, FromIdle, FromInTransaction, FromFailed, TypeOK
      <4>2. QED
        BY <1>1, <1>2, <1>3, <2>1, <2>4, <3>4, <4>1 DEF Agrees
    <3>5. QED
      BY <3>3, <3>4
  <2>6. QED
    BY <1>1, <1>5, <2>1, <2>5 DEF Agreement, AtPrompt, AgreesRunning, AgreesReplied
<1>8. QED
  BY <1>3, <1>6, <1>7 DEF SentWell

\* when a text has run to its end,
LEMMA SettleStep == ASSUME IInv, Settle \/ SettleRefused PROVE Agreement'
<1>1. /\ phase = "running" /\ AtEnd
      /\ SentWell /\ Agrees(IfDone, srv, hit) /\ (srv = "implicit" => DataText(text))
      /\ ImplicitWork /\ TypeOK
  BY DEF IInv, AgreesRunning, Settle, SettleRefused
<1>2. CASE Settle
  <2>1. /\ phase' = "probe" /\ UNCHANGED <<tx, via, text, pos, ok, hit>>
        /\ IF srv = "implicit" THEN srv' = "idle" /\ work' = {} ELSE srv' = srv /\ work' = work
    BY <1>2 DEF Settle, Keep, server
  <2>2. SentWell' /\ IfDone' = IfDone
    BY <1>1, <2>1 DEF SentWell, IfDone
  <2>3. Agrees(IfDone, srv', hit)
    BY <1>1, <2>1 DEF Agrees
  <2>4. QED
    BY <1>1, <2>1, <2>2, <2>3 DEF Agreement, AtPrompt, AgreesRunning, AgreesReplied, ImplicitWork
<1>3. CASE SettleRefused
  <2>1. /\ phase' = "replied" /\ ok' = FALSE /\ UNCHANGED <<tx, via, text, pos, hit>>
        /\ srv = "implicit" /\ srv' = "idle" /\ work' = {}
    BY <1>3 DEF SettleRefused, Discard
  <2>2. TxEffect(text) = "None" /\ IfDone = tx
    BY <1>1, <2>1, DataHasNoEffect, DataDone DEF SentWell, TypeOK
  <2>3. Agrees(tx, "implicit", hit)
    BY <1>1, <2>1, <2>2
  <2>4. Agrees(tx, "idle", hit) /\ Agrees(NextTxState(tx, "None", FALSE), "idle", hit)
    BY <1>1, <2>3 DEF Agrees, NextTxState, FromIdle, FromInTransaction, FromFailed
  <2>5. QED
    BY <2>1, <2>2, <2>4 DEF Agreement, AtPrompt, AgreesRunning, AgreesReplied, ImplicitWork
<1>4. QED
  BY <1>2, <1>3

\* when a query outside the tracker has run,
LEMMA ProbeStep == ASSUME IInv, Probe PROVE Agreement'
<1>1. /\ phase = "probe" /\ SentWell /\ Agrees(IfDone, srv, hit) /\ TypeOK /\ ImplicitWork
  BY DEF IInv, AgreesReplied, Probe
<1>2. /\ phase' = "replied" /\ UNCHANGED <<tx, via, text, pos, work>>
      /\ ok' = FALSE => srv = "down"
  BY DEF Probe
<1>3. \/ srv' = srv /\ hit' = hit
      \/ srv = "block" /\ srv' = "failed" /\ Len(text.stmts) > 1 /\ hit' = hit \union {"probe"}
  BY DEF Probe
<1>4. SentWell' /\ IfDone' = IfDone
  BY <1>1, <1>2 DEF SentWell, IfDone
<1>5. Agrees(IfDone, srv', hit')
  <2>1. CASE srv' = srv /\ hit' = hit
    BY <1>1, <2>1
  <2>2. CASE /\ srv = "block" /\ srv' = "failed" /\ Len(text.stmts) > 1
             /\ hit' = hit \union {"probe"}
    BY <1>1, <2>2 DEF Agrees
  <2>3. QED
    BY <1>3, <2>1, <2>2
<1>6. ok' = FALSE => srv' = "down"
  BY <1>2, <1>3
<1>7. ok' = FALSE => Agrees(tx, srv', hit') /\ Agrees(NextTxState(tx, TxEffect(text), FALSE), srv', hit')
  BY <1>6 DEF Agrees
<1>9. ok' \in BOOLEAN
  BY DEF Probe
<1>10. AgreesReplied'
  BY <1>2, <1>4, <1>5, <1>7, <1>9 DEF AgreesReplied
<1>11. QED
  BY <1>1, <1>2, <1>3, <1>10 DEF Agreement, AtPrompt, AgreesRunning, ImplicitWork

\* The reply leaves no implicit block, so the tracker may take it into account.
LEMMA RefreshStep == ASSUME IInv, RefreshAfterDdl PROVE Agreement'
<1>1. /\ phase = "replied" /\ via = "sql" /\ ok /\ IsDdl(text) /\ SentWell /\ TypeOK
      /\ Agrees(IfDone, srv, hit) /\ ImplicitWork
  BY DEF IInv, AgreesReplied, RefreshAfterDdl
<1>2. /\ phase' = "running" /\ via' = "refresh" /\ text' = Query /\ pos' = 0
      /\ UNCHANGED <<tx, ok, srv, work, hit>>
  BY DEF RefreshAfterDdl, server
<1>3. ~ControlText(text)
  BY <1>1 DEF IsDdl, FirstIs, ControlText, ControlKinds
<1>4. IfDone = tx
  BY <1>1, <1>3, DataDone DEF SentWell
<1>5. SentWell' /\ ~AtEnd'
  BY <1>2, QueryIsData DEF SentWell, AtEnd
<1>6. AgreesRunning'
  BY <1>1, <1>2, <1>4, <1>5 DEF AgreesRunning, ImplicitWork
<1>7. QED
  BY <1>1, <1>2, <1>6 DEF Agreement, AtPrompt, AgreesReplied, ImplicitWork

\* and once the tracker has taken the answer into account.
LEMMA ReplyStep == ASSUME IInv, Advance \/ Ignore PROVE Agreement'
<1>1. /\ phase = "replied" /\ phase' = "prompt" /\ UNCHANGED <<srv, work>>
      /\ hit' = IF tx' = "Idle" THEN {} ELSE hit
      /\ ImplicitWork /\ TypeOK /\ AgreesReplied
  BY DEF Advance, Ignore, ToPrompt, server, IInv
<1>2. Agrees(tx', srv, hit)
  <2>1. CASE via = "sql"
    <3>1. tx' = NextTxState(tx, TxEffect(text), ok)
      BY <2>1 DEF Advance, Ignore
    <3>2. CASE ok = TRUE
      BY <1>1, <2>1, <3>1, <3>2 DEF AgreesReplied, IfDone
    <3>3. CASE ok = FALSE
      BY <1>1, <2>1, <3>1, <3>3 DEF AgreesReplied
    <3>4. QED
      BY <1>1, <3>2, <3>3 DEF TypeOK
  <2>2. CASE via # "sql"
    <3>1. tx' = tx
      BY <1>1, <2>2, NoEffectNoMove DEF Advance, Ignore, TypeOK
    <3>2. CASE ok = TRUE
      <4>1. SentWell /\ Agrees(IfDone, srv, hit)
        BY <1>1, <3>2 DEF AgreesReplied
      <4>2. IfDone = tx
        BY <1>1, <2>2, <4>1, DataDone DEF SentWell
      <4>3. QED
        BY <3>1, <4>1, <4>2
    <3>3. CASE ok = FALSE
      BY <1>1, <2>2, <3>1, <3>3 DEF AgreesReplied
    <3>4. QED
      BY <1>1, <3>2, <3>3 DEF TypeOK
  <2>3. QED
    BY <2>1, <2>2
<1>3. Agrees(tx', srv', hit')
  BY <1>1, <1>2 DEF Agrees
<1>4. QED
  BY <1>1, <1>3 DEF Agreement, AtPrompt, AgreesRunning, AgreesReplied, ImplicitWork

\* A lost connection agrees with everything.
LEMMA LeaveStep == ASSUME IInv, Leave \/ Lose PROVE Agreement'
<1>1. \A t, h : srv' = "down" => Agrees(t, srv', h)
  BY DEF Agrees
<1>2. CASE Close
  <2>1. CASE Lose
    BY <1>1, <1>2, <2>1 DEF Lose, Close, client, IInv, Agreement, AtPrompt, AgreesRunning,
       AgreesReplied, ImplicitWork, SentWell, IfDone, AtEnd
  <2>2. CASE Leave
    BY <1>1, <1>2, <2>2 DEF Leave, Quit, ConfirmQuit, CancelQuit, ReadError, Close, IInv,
       Agreement, AtPrompt, AgreesRunning, AgreesReplied, ImplicitWork, server
  <2>3. QED
    BY <2>1, <2>2
<1>3. CASE ~Close
  <2>1. /\ phase \in {"prompt", "confirm"} /\ phase' \in {"prompt", "confirm"}
        /\ UNCHANGED <<tx, srv, work, hit>>
    BY <1>3 DEF Leave, Lose, Quit, ConfirmQuit, CancelQuit, ReadError, server
  <2>2. QED
    BY <2>1 DEF IInv, Agreement, AtPrompt, AgreesRunning, AgreesReplied, ImplicitWork
<1>4. QED
  BY <1>2, <1>3

\* A command sends a text that controls the transaction or one that is data.
LEMMA CommandStep == ASSUME ReadableInput, IInv, Command PROVE Agreement'
<1> USE TextsAssumption, MetaAssumption
<1>0. ASSUME NEW h \in Vias, NEW t \in Text, Send(h, t), Len(t.stmts) > 0,
             ControlText(t) \/ DataText(t), h # "sql" => DataText(t), HasDml(t) => tx # "Idle"
      PROVE  Agreement'
  BY <1>0, SendAgrees DEF Agreement
<1>1. ASSUME NEW t \in Texts, RunStatement(t) PROVE Agreement'
  <2>1. ControlText(t) \/ (DataText(t) /\ (HasDml(t) => IsDml(t)))
    BY DEF ReadableInput
  <2>2. ControlText(t) => ~HasDml(t)
    BY LenProperties DEF ControlText, HasDml, ControlKinds, Text
  <2>3. HasDml(t) => tx # "Idle"
    BY <1>1, <2>1, <2>2 DEF RunStatement, DmlRequiresTx
  <2>4. QED
    BY <1>0, <1>1, <2>1, <2>3 DEF RunStatement
<1>2. ASSUME NEW t \in Explains, Explain(t) PROVE Agreement'
  <2>1. Len(t.stmts) = 1
    BY DEF ReadableInput
  <2>2. PICK e \in Text : /\ e = Explained(t, FALSE)
                          /\ DataText(e) /\ ~HasDml(e) /\ Len(e.stmts) > 0
    BY <2>1, ExplainedIsData
  <2>3. Send("meta", e) /\ "meta" \in Vias
    BY <1>2, <2>2 DEF Explain
  <2>4. QED
    BY <1>0, <2>2, <2>3
<1>3. ASSUME NEW t \in Explains, ExplainAnalyze(t) PROVE Agreement'
  <2>1. Len(t.stmts) = 1
    BY DEF ReadableInput
  <2>2. PICK e \in Text : /\ e = Explained(t, TRUE)
                          /\ DataText(e) /\ (HasDml(e) => IsDml(t)) /\ Len(e.stmts) > 0
    BY <2>1, ExplainedIsData
  <2>3. "analyze" \in Vias /\ Send("analyze", e) /\ (HasDml(e) => tx # "Idle")
    BY <1>3, <2>2 DEF ExplainAnalyze, DmlRequiresTx
  <2>4. QED
    BY <1>0, <2>2, <2>3
<1>4. ASSUME NEW t \in Exports, Export(t) PROVE Agreement'
  <2>1. DataText(t) /\ ~HasDml(t)
    BY <1>4, LenProperties DEF ReadableInput, Export, ControlText, DataText, HasDml, Text, ControlKinds
  <2>2. t \in Text /\ Len(t.stmts) > 0 /\ Send("export", t) /\ "export" \in Vias
    BY <1>4 DEF Export
  <2>3. QED
    BY <1>0, <2>1, <2>2
<1>5. CASE Catalog
  BY <1>0, <1>5, QueryIsData DEF Catalog
<1>6. QED
  BY <1>1, <1>2, <1>3, <1>4, <1>5 DEF Command

\* Every step preserves the invariant.
LEMMA IInvStep == ASSUME ReadableInput PROVE IInv /\ [Next]_vars => IInv'
<1> SUFFICES ASSUME IInv, [Next]_vars PROVE IInv'
  OBVIOUS
<1>1. TypeOK'
  BY TypeStep DEF IInv
<1>2. Agreement'
  <2>1. CASE Progress
    BY <2>1, ExecStep, FailStep, SettleStep, ProbeStep, RefreshStep, ReplyStep DEF Progress
  <2>2. CASE Finished \/ UNCHANGED vars
    <3>1. UNCHANGED <<tx, phase, via, text, pos, ok, srv, work, hit>>
      BY <2>2 DEF Finished, vars, client, server
    <3>2. SentWell' = SentWell
      BY <3>1 DEF SentWell
    <3>3. AtEnd' = AtEnd /\ IfDone' = IfDone /\ AtPrompt' = AtPrompt
      BY <3>1 DEF IfDone, AtEnd, AtPrompt
    <3>4. AgreesRunning'
      BY <3>1, <3>2, <3>3 DEF IInv, AgreesRunning
    <3>5. AgreesReplied'
      BY <3>1, <3>2, <3>3 DEF IInv, AgreesReplied
    <3>6. QED
      BY <3>1, <3>3, <3>4, <3>5 DEF IInv, Agreement, ImplicitWork
  <2>3. QED
    BY <2>1, <2>2, CommandStep, LeaveStep DEF Next
<1>3. QED
  BY <1>1, <1>2 DEF IInv, Agreement

\* So it holds in every state.
LEMMA IInvAlways == ASSUME ReadableInput PROVE Spec => []IInv
<1>1. Init => IInv
  <2>1. Init => TypeOK
    BY QueryType, EmptySeq DEF Init, TypeOK
  <2>2. QED
    BY <2>1 DEF Init, IInv, AtPrompt, Agrees, AgreesRunning, AgreesReplied, ImplicitWork
<1>2. QED
  BY <1>1, IInvStep, PTL DEF Spec

\* With readable input an Idle prompt never hides an open block.
THEOREM IdleIsSafe == ASSUME ReadableInput PROVE Spec => []IdleMeansNoBlock
<1>1. IInv => IdleMeansNoBlock
  BY DEF IInv, IdleMeansNoBlock, AtPrompt, Agrees, ImplicitWork
<1>2. QED
  BY <1>1, IInvAlways, PTL

\* With readable input a failed prompt is over a live block only after a
\* refused COMMIT.
THEOREM FailedIsSafe == ASSUME ReadableInput PROVE Spec => []FailedMeansNoLiveBlock
<1>1. IInv => FailedMeansNoLiveBlock
  BY DEF IInv, FailedMeansNoLiveBlock, AtPrompt, Agrees
<1>2. QED
  BY <1>1, IInvAlways, PTL

\* With readable input the prompt shows an aborted block, unless a server call
\* that does not pass through the tracker aborted it.
THEOREM FailureIsShown == ASSUME ReadableInput PROVE Spec => []PromptShowsFailure
<1>1. IInv => PromptShowsFailure
  BY DEF IInv, PromptShowsFailure, AtPrompt, Agrees
<1>2. QED
  BY <1>1, IInvAlways, PTL

\* With readable input every committed row was written in an explicit block,
\* unless a COMMIT was refused.
THEOREM NoBareWrites == ASSUME ReadableInput PROVE Spec => WritesOnlyInBlock
<1>1. IInv /\ [Next]_vars => (bare' # bare => "commit" \in hit)
  <2> SUFFICES ASSUME IInv, [Next]_vars, bare' # bare PROVE "commit" \in hit
    OBVIOUS
  <2>1. Discard => bare' = bare
    BY DEF Discard
  <2>2. CASE Settle \/ Exec
    <3>1. Keep /\ srv = "implicit"
      BY <2>1, <2>2 DEF Settle, Exec, Effect, Begin, Commit, Rollback, CommitAndChain,
         RollbackAndChain, Savepoint, RollbackTo, Release, Plain, Keep, server
    <3>2. work # {}
      BY <3>1 DEF Keep
    <3>3. QED
      BY <3>1, <3>2 DEF IInv, ImplicitWork
  <2>3. CASE ~(Settle \/ Exec)
    BY <2>1, <2>3 DEF Next, Command, RunStatement, Explain, ExplainAnalyze, Export, Catalog, Send,
       Progress, Fail, SettleRefused, Probe, RefreshAfterDdl, Advance, Ignore, ToPrompt, Leave,
       Quit, ConfirmQuit, CancelQuit, ReadError, Close, Lose, Finished, server, client, vars
  <2>4. QED
    BY <2>2, <2>3
<1>2. QED
  BY <1>1, IInvAlways, PTL DEF Spec, WritesOnlyInBlock

\* With readable input the shell is never left, unasked, over an open block.
THEOREM QuitIsSafe == ASSUME ReadableInput PROVE Spec => QuitAsks
<1>1. IInv /\ [Next]_vars => (phase = "prompt" /\ phase' = "exited" => srv \in {"idle", "down"})
  <2> SUFFICES ASSUME IInv, [Next]_vars, phase = "prompt", phase' = "exited"
               PROVE  srv \in {"idle", "down"}
    OBVIOUS
  <2>1. Quit /\ tx = "Idle"
    BY DEF Next, Command, RunStatement, Explain, ExplainAnalyze, Export, Catalog, Send, Progress,
       Exec, Fail, Settle, SettleRefused, Probe, RefreshAfterDdl, Advance, Ignore, ToPrompt,
       Leave, Quit, ConfirmQuit, CancelQuit, ReadError, Lose, Finished, client, vars
  <2>2. QED
    BY <2>1 DEF IInv, AtPrompt, Agrees, ImplicitWork
<1>2. QED
  BY <1>1, IInvAlways, PTL DEF Spec, QuitAsks

-----------------------------------------------------------------------------
(* Where rows become durable                                                *)

\* A refused COMMIT is forgotten once the tracker is Idle again.
RefusalForgotten ==
  /\ tx = "Idle" /\ phase \in {"prompt", "confirm", "running", "probe"} => "commit" \notin hit
  /\ tx = "Idle" /\ phase = "replied" /\ ok => "commit" \notin hit

\* A refusal is forgotten with the transaction.
LEMMA RefusalForgottenStep == RefusalForgotten /\ [Next]_vars => RefusalForgotten'
<1> SUFFICES ASSUME RefusalForgotten, [Next]_vars PROVE RefusalForgotten'
  OBVIOUS
<1>1. CASE Command
  BY <1>1 DEF RefusalForgotten, Command, RunStatement, Explain, ExplainAnalyze, Export, Catalog, Send
<1>2. CASE Exec \/ Fail \/ Settle \/ SettleRefused \/ Probe \/ RefreshAfterDdl
  BY <1>2 DEF RefusalForgotten, Exec, Fail, Settle, SettleRefused, Probe, RefreshAfterDdl
<1>3. CASE Advance \/ Ignore
  BY <1>3 DEF RefusalForgotten, Advance, Ignore, ToPrompt
<1>4. CASE Leave \/ Lose \/ Finished \/ UNCHANGED vars
  BY <1>4 DEF RefusalForgotten, Leave, Quit, ConfirmQuit, CancelQuit, ReadError, Lose, Finished,
     client, vars
<1>5. QED
  BY <1>1, <1>2, <1>3, <1>4 DEF Next, Progress

\* Work is made durable in a transaction, by SQL or by \commit.
LEMMA KeepsInTransaction ==
  ASSUME ReadableInput, IInv, RefusalForgotten, [Next]_vars, durable' # durable
  PROVE  tx # "Idle" /\ (via = "sql" \/ "commit" \in hit)
<1>1. Discard => durable' = durable
  BY DEF Discard
<1>2. CASE Settle
  <2>1. Keep /\ srv = "implicit" /\ work # {} /\ phase = "running"
    BY <1>2 DEF Settle, Keep, server
  <2>2. "commit" \in hit
    BY <2>1 DEF IInv, ImplicitWork
  <2>3. QED
    BY <2>1, <2>2 DEF RefusalForgotten
<1>3. CASE Exec
  <2>1. Keep /\ work # {} /\ srv # "failed" /\ Next1 \in {"commit", "commitchain"}
    BY <1>1, <1>3 DEF Exec, Effect, Begin, Commit, Rollback, CommitAndChain, RollbackAndChain,
       Savepoint, RollbackTo, Release, Plain, Keep
  <2>2. SentWell /\ Agrees(tx, srv, hit) /\ (srv = "implicit" => DataText(text)) /\ srv # "down"
    BY <1>3 DEF Exec, IInv, AgreesRunning
  <2>3. pos + 1 \in 1..Len(text.stmts)
    BY <1>3, LenProperties DEF Exec, AtEnd, IInv, TypeOK, Text
  <2>4. ~DataText(text)
    BY <2>1, <2>3 DEF DataText, Next1
  <2>5. srv # "idle" /\ srv # "implicit" /\ via = "sql"
    BY <2>1, <2>2, <2>4 DEF SentWell, IInv, ImplicitWork
  <2>6. QED
    BY <2>2, <2>5 DEF Agrees
<1>4. CASE ~(Settle \/ Exec)
  BY <1>1, <1>4 DEF Next, Command, RunStatement, Explain, ExplainAnalyze, Export, Catalog, Send,
     Progress, Fail, SettleRefused, Probe, RefreshAfterDdl, Advance, Ignore, ToPrompt, Leave,
     Quit, ConfirmQuit, CancelQuit, ReadError, Close, Lose, Finished, server, client, vars
<1>5. QED
  BY <1>2, <1>3, <1>4

\* With readable input rows become durable only while the prompt says that a
\* transaction is open, by a text that run_statement sent.
THEOREM CommitsAreAskedFor == ASSUME ReadableInput PROVE Spec => DurableOnlyInTransaction
<1>1. Init => RefusalForgotten
  BY DEF Init, RefusalForgotten
<1>2. Spec => []RefusalForgotten
  BY <1>1, RefusalForgottenStep, PTL DEF Spec
<1>3. IInv /\ RefusalForgotten /\ [Next]_vars
        => (durable' # durable => tx # "Idle" /\ (via = "sql" \/ "commit" \in hit))
  BY KeepsInTransaction
<1>4. QED
  BY <1>2, <1>3, IInvAlways, PTL DEF Spec, DurableOnlyInTransaction

\* A commit that the server accepts keeps all the work.
LEMMA AcceptedCommitKeeps ==
  ASSUME ReadableInput, IInv, [Next]_vars, CommitAccepted, hit \intersect {"meta", "probe"} = {}
  PROVE  work \subseteq durable'
<1>1. Exec
  <2>1. pos' # pos /\ pos' # 0
    BY DEF CommitAccepted, IInv, TypeOK
  <2>2. QED
    BY <2>1 DEF Next, Command, RunStatement, Explain, ExplainAnalyze, Export, Catalog, Send,
       Progress, Fail, Settle, SettleRefused, Probe, RefreshAfterDdl, Advance, Ignore, ToPrompt,
       Leave, Quit, ConfirmQuit, CancelQuit, ReadError, Lose, Finished, client, vars
<1>2. SentWell /\ text \in Text /\ pos < Len(text.stmts)
  BY <1>1, LenProperties DEF Exec, AtEnd, IInv, AgreesRunning, SentWell, TypeOK, Text
<1>3. ControlText(text) /\ text.stmts[1] \in {"commit", "commitchain"}
  <2>1. TxEffect(text) # "None"
    BY DEF CommitAccepted
  <2>2. ~DataText(text)
    BY <1>2, <2>1, DataHasNoEffect DEF SentWell
  <2>3. QED
    BY <1>2, <2>2 DEF SentWell, CommitAccepted, TxEffect, FirstIs
<1>4. Next1 = "commit"
  BY <1>2, <1>3 DEF ControlText, Next1, IInv, TypeOK
<1>5. srv = "block"
  BY <1>1, <1>2 DEF Exec, AtEnd, IInv, AgreesRunning, Agrees, CommitAccepted, TypeOK, Text
<1>6. Keep
  BY <1>1, <1>4, <1>5 DEF Exec, Effect, Commit
<1>7. QED
  BY <1>6 DEF Keep

\* With readable input an accepted COMMIT keeps every row the user sees pending.
THEOREM CommitIsKept == ASSUME ReadableInput PROVE Spec => CommitKeepsWork
<1>1. IInv /\ [Next]_vars
        => (CommitAccepted /\ hit \intersect {"meta", "probe"} = {} => work \subseteq durable')
  BY AcceptedCommitKeeps
<1>2. QED
  BY <1>1, IInvAlways, PTL DEF Spec, CommitKeepsWork

-----------------------------------------------------------------------------
(* TxSession implements TxPromise                                            *)

\* What a savepoint or a closed connection leaves to ROLLBACK TO: the rows of an
\* older savepoint are among those of a younger one, and those among the pending.
Chain ==
  /\ \A i \in DOMAIN saves : saves[i] \subseteq work
  /\ \A i, j \in DOMAIN saves : i <= j => saves[i] \subseteq saves[j]
  /\ srv = "down" => work = {}

\* Work that is discarded, or added to, and what a statement does to it, keep that.
LEMMA ChainDiscard == ASSUME work' = {}, saves' = <<>> PROVE Chain'
BY EmptySeq DEF Chain

\* Rows that are only added leave what the savepoints hold.
LEMMA ChainSame ==
  ASSUME Chain, saves' = saves, work \subseteq work', srv' = "down" => srv = "down" /\ work' = work
  PROVE  Chain'
BY DEF Chain

\* Whatever a statement does, a savepoint holds no row that is not pending.
LEMMA ChainEffect ==
  ASSUME TypeOK, Chain, NEW k, Effect(k), srv # "down" PROVE Chain'
<1>1. CASE Begin \/ \E rows \in SUBSET Rows : Plain(rows)
  BY <1>1, ChainSame DEF Begin, Plain
<1>2. CASE Commit \/ Rollback \/ CommitAndChain \/ RollbackAndChain
  BY <1>2, ChainDiscard DEF Commit, Rollback, CommitAndChain, RollbackAndChain, Discard, Keep
<1>3. CASE Savepoint
  <2>1. saves' = Append(saves, work) /\ work' = work /\ srv' # "down"
    BY <1>3 DEF Savepoint
  <2>2. /\ Len(saves') = Len(saves) + 1
        /\ saves' \in Seq(SUBSET Rows)
        /\ saves'[Len(saves) + 1] = work
        /\ \A i \in 1 .. Len(saves) : saves'[i] = saves[i]
    BY <2>1, AppendProperties DEF TypeOK
  <2>3. DOMAIN saves = 1 .. Len(saves) /\ DOMAIN saves' = 1 .. Len(saves) + 1 /\ Len(saves) \in Nat
    BY <2>2, LenProperties DEF TypeOK
  <2>4. QED
    BY <2>1, <2>2, <2>3 DEF Chain
<1>4. CASE RollbackTo
  <2>1. saves' = saves /\ work' = saves[Len(saves)] /\ srv' # "down" /\ saves # <<>>
    BY <1>4 DEF RollbackTo
  <2>2. DOMAIN saves = 1 .. Len(saves) /\ Len(saves) \in Nat /\ Len(saves) # 0
    BY <2>1, LenProperties, EmptySeq DEF TypeOK
  <2>3. QED
    BY <2>1, <2>2 DEF Chain
<1>5. CASE Release
  <2>1. saves' = SubSeq(saves, 1, Len(saves) - 1) /\ work' = work /\ srv' # "down" /\ saves # <<>>
    BY <1>5 DEF Release
  <2>2. DOMAIN saves = 1 .. Len(saves) /\ Len(saves) \in Nat /\ Len(saves) # 0
    BY <2>1, LenProperties, EmptySeq DEF TypeOK
  <2>3. DOMAIN saves' = 1 .. Len(saves) - 1 /\ \A i \in 1 .. Len(saves) - 1 : saves'[i] = saves[i]
    BY <2>1, <2>2, SubSeqProperties DEF TypeOK
  <2>4. QED
    BY <2>1, <2>2, <2>3 DEF Chain
<1>6. QED
  BY <1>1, <1>2, <1>3, <1>4, <1>5 DEF Effect, TypeOK

\* So does every step.
LEMMA ChainStep == TypeOK /\ Chain /\ [Next]_vars => Chain'
<1> SUFFICES ASSUME TypeOK, Chain, [Next]_vars PROVE Chain'
  OBVIOUS
<1>1. CASE Exec
  BY <1>1, ChainEffect DEF Exec
<1>2. CASE UNCHANGED <<srv, work, saves>>
  BY <1>2, ChainSame
<1>3. CASE work' = {} /\ saves' = <<>>
  BY <1>3, ChainDiscard
<1>4. CASE Fail
  BY <1>4, <1>3, ChainSame DEF Fail, Discard, TypeOK
<1>5. CASE Probe
  BY <1>5, ChainSame DEF Probe
<1>6. CASE Settle \/ SettleRefused
  BY <1>6, <1>2, <1>3 DEF Settle, SettleRefused, Discard, Keep, server
<1>7. CASE Leave \/ Lose \/ Finished \/ UNCHANGED vars
  BY <1>7, <1>2, <1>3 DEF Leave, Quit, ConfirmQuit, CancelQuit, ReadError, Close, Discard, Lose,
     Finished, server, client, vars
<1>8. CASE Command \/ RefreshAfterDdl \/ Advance \/ Ignore
  BY <1>8, <1>2 DEF Command, RunStatement, Explain, ExplainAnalyze, Export, Catalog, Send,
     RefreshAfterDdl, Advance, Ignore, ToPrompt, server
<1>9. QED
  BY <1>1, <1>4, <1>5, <1>6, <1>7, <1>8 DEF Next, Progress

-----------------------------------------------------------------------------
(* Every step is one of the promise's, or none                              *)

Opened == tx # "Idle"
Same   == tx' = tx /\ work' = work /\ durable' = durable

\* An Idle tracker has no rows pending where the server can still commit them.
LEMMA IdleHasNothing ==
  ASSUME IInv, RefusalForgotten, phase = "running", tx = "Idle", srv \in {"idle", "implicit"}
  PROVE  work = {}
BY DEF IInv, ImplicitWork, RefusalForgotten

\* What each step of a statement is to the promise.
LEMMA ExecPromise ==
  ASSUME ReadableInput, IInv, RefusalForgotten, Chain, Exec
  PROVE  Same \/ Promise!Write \/ Promise!Commit \/ Promise!Undo
<1>1. tx' = tx /\ Effect(Next1) /\ phase = "running" /\ ~AtEnd
  BY DEF Exec
<1>2. SentWell /\ Agrees(tx, srv, hit) /\ srv # "down" /\ (srv = "implicit" => DataText(text))
  BY DEF Exec, IInv, AgreesRunning
<1>3. pos + 1 \in 1 .. Len(text.stmts)
  BY <1>1, LenProperties DEF AtEnd, IInv, TypeOK, Text
<1>4. CASE Begin \/ Savepoint \/ Release \/ Plain({})
  BY <1>1, <1>4 DEF Begin, Savepoint, Release, Plain, Same
<1>5. ASSUME Discard PROVE Promise!Undo
  BY <1>1, <1>5 DEF Discard, Promise!Undo
<1>6. ASSUME Keep PROVE Same \/ Promise!Commit
  <2>1. CASE tx = "Idle"
    <3>1. work = {}
      BY <1>1, <1>2, <2>1, IdleHasNothing DEF Agrees
    <3>2. QED
      BY <1>1, <1>6, <3>1 DEF Keep, Same
  <2>2. CASE tx # "Idle"
    BY <1>1, <1>6, <2>2 DEF Keep, Promise!Commit
  <2>3. QED
    BY <2>1, <2>2
<1>7. CASE RollbackTo
  <2>1. work' = saves[Len(saves)] /\ durable' = durable /\ saves # <<>>
    BY <1>7 DEF RollbackTo
  <2>2. Len(saves) \in DOMAIN saves
    BY <2>1, LenProperties, EmptySeq DEF IInv, TypeOK
  <2>3. work' \subseteq work
    BY <2>1, <2>2 DEF Chain
  <2>4. QED
    BY <1>1, <2>1, <2>3 DEF Promise!Undo
<1>8. CASE Next1 = "dml"
  <2>1. HasDml(text)
    BY <1>3, <1>8 DEF HasDml, Next1
  <2>2. tx # "Idle"
    BY <1>2, <2>1 DEF SentWell
  <2>3. PICK rows \in {{}} \union {{r} : r \in Rows \ (work \union durable)} : Plain(rows)
    BY <1>1, <1>8 DEF Effect
  <2>4. work' = work \union rows /\ durable' = durable
    BY <2>3 DEF Plain
  <2>5. CASE rows = {}
    BY <1>1, <2>4, <2>5 DEF Same
  <2>6. CASE rows # {}
    <3>1. PICK r \in Rows : r \notin work \union durable /\ rows = {r}
      BY <2>3, <2>6
    <3>2. QED
      BY <1>1, <2>2, <2>4, <3>1 DEF Promise!Write
  <2>7. QED
    BY <2>5, <2>6
<1>9. CASE Commit \/ Rollback \/ CommitAndChain \/ RollbackAndChain
  BY <1>5, <1>6, <1>9 DEF Commit, Rollback, CommitAndChain, RollbackAndChain
<1>10. QED
  BY <1>1, <1>4, <1>7, <1>8, <1>9 DEF Effect

\* A text that has run commits its pending rows as promised, or changes nothing.
LEMMA SettlePromise ==
  ASSUME IInv, RefusalForgotten, Settle
  PROVE  Same \/ Promise!Commit
<1>1. tx' = tx /\ phase = "running"
  BY DEF Settle
<1>2. CASE srv # "implicit"
  BY <1>1, <1>2 DEF Settle, Same, server
<1>3. CASE srv = "implicit" /\ tx = "Idle"
  <2>1. work = {}
    BY <1>1, <1>3, IdleHasNothing
  <2>2. QED
    BY <1>1, <1>3, <2>1 DEF Settle, Keep, Same
<1>4. CASE srv = "implicit" /\ tx # "Idle"
  BY <1>1, <1>4 DEF Settle, Keep, Promise!Commit
<1>5. QED
  BY <1>2, <1>3, <1>4

\* An answer changes only what the user is told.
LEMMA ReplyPromise ==
  ASSUME IInv, IInv', Chain, Advance \/ Ignore
  PROVE  Same \/ Promise!Begin \/ Promise!Close \/ (Opened' = Opened /\ work' = work /\ durable' = durable)
<1>1. work' = work /\ durable' = durable /\ srv' = srv /\ phase' = "prompt"
  BY DEF Advance, Ignore, ToPrompt, server
<1>2. CASE tx' = "Idle"
  <2>1. Agrees(tx, srv, hit)' /\ ImplicitWork'
    BY <1>1 DEF IInv, AtPrompt
  <2>2. work' = {}
    BY <1>1, <1>2, <2>1 DEF Agrees, ImplicitWork, Chain
  <2>3. QED
    BY <1>1, <1>2, <2>2 DEF Promise!Close
<1>3. CASE tx' # "Idle" /\ tx = "Idle"
  BY <1>1, <1>3 DEF Promise!Begin
<1>4. CASE tx' # "Idle" /\ tx # "Idle"
  BY <1>1, <1>4 DEF Opened
<1>5. QED
  BY <1>2, <1>3, <1>4

\* Every step of the session is a step of the promise or none.
LEMMA PromiseStep ==
  ASSUME ReadableInput, IInv, IInv', RefusalForgotten, Chain, [Next]_vars
  PROVE  [Promise!Next]_(Promise!vars)
<1>1. ASSUME Same PROVE UNCHANGED Promise!vars
  BY <1>1 DEF Same, Promise!vars
<1>2. CASE Command
  BY <1>1, <1>2 DEF Command, RunStatement, Explain, ExplainAnalyze, Export, Catalog, Send, Same, server
<1>3. CASE Exec
  BY <1>1, <1>3, ExecPromise DEF Promise!Next
<1>4. CASE Settle
  BY <1>1, <1>4, SettlePromise DEF Promise!Next
<1>5. CASE Advance \/ Ignore
  BY <1>1, <1>5, ReplyPromise DEF Promise!Next, Promise!vars, Opened
<1>6. CASE Fail \/ SettleRefused \/ Quit \/ ReadError \/ Lose
  <2>1. tx' = tx /\ durable' = durable /\ work' \in SUBSET work
    BY <1>6 DEF Fail, SettleRefused, Quit, ReadError, Lose, Close, Discard, server, client
  <2>2. QED
    BY <2>1 DEF Promise!Next, Promise!Undo
<1>7. CASE ConfirmQuit
  BY <1>7 DEF ConfirmQuit, Close, Discard, Promise!Next, Promise!Close
<1>8. CASE Probe \/ RefreshAfterDdl \/ CancelQuit \/ Finished \/ UNCHANGED vars
  BY <1>1, <1>8 DEF Probe, RefreshAfterDdl, CancelQuit, Finished, Same, vars, server, client
<1>9. QED
  BY <1>2, <1>3, <1>4, <1>5, <1>6, <1>7, <1>8 DEF Next, Progress, Leave

\* With readable input a session keeps the promise: rows are written and become
\* durable only while its tracker says that a transaction is open, all at once,
\* and none is pending when it says that none is.
THEOREM PromiseIsKept == ASSUME ReadableInput PROVE Spec => KeepsPromise
<1>1. Init => Promise!Init
  BY DEF Init, Promise!Init
<1>2. Init => Chain
  BY EmptySeq DEF Init, Chain
<1>3. Spec => []Chain
  BY <1>2, ChainStep, TypeCorrect, PTL DEF Spec
<1>4. Init => RefusalForgotten
  BY DEF Init, RefusalForgotten
<1>5. Spec => []RefusalForgotten
  BY <1>4, RefusalForgottenStep, PTL DEF Spec
<1>6. IInv /\ IInv' /\ RefusalForgotten /\ Chain /\ [Next]_vars => [Promise!Next]_(Promise!vars)
  BY PromiseStep
<1>7. QED
  BY <1>1, <1>3, <1>5, <1>6, IInvAlways, PTL DEF Spec, KeepsPromise, Promise!Spec
=============================================================================
