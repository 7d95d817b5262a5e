------------------------- MODULE LedgerEffectProofs -------------------------
(***************************************************************************)
(* What the ledger shows of a journal, proved for any number of journals,  *)
(* requests and postings: a reversal of a journal whose reversers lock it  *)
(* takes the last posting back, so that one posting counts under a key.    *)
(***************************************************************************)
EXTENDS LedgerProofs

USE LedgerConstants

Reverses(s, j) == session[s].pc # "idle" /\ session[s].op = "reverse" /\ session[s].j = j

PostsNew(s) ==
  /\ session[s].pc # "idle"
  /\ session[s].op = "post"
  /\ session[s].seen.status = "NONE"

BatchesKeepKeys == \A b \in DOMAIN batches :
  batches[b].journal \in Originals => batches[b].key \in KeysOf[batches[b].journal]

MirrorsAreOfOriginals == \A r \in Reversals : journal[r].of \in Originals \cup {None}

\* Nobody else has the journal a request creates.
NewIsAlone(s) == PostsNew(s) =>
  /\ journal[session[s].j].status = "NONE"
  /\ \A t \in Sessions \ {s} : session[t].j # session[s].j

NewAreAlone == \A s \in Sessions : NewIsAlone(s)

\* The row a reverser locked is as it was when it was checked, and its own.
ReverserHolds(s, j) == Reverses(s, j) =>
  /\ journal[j].status = "POSTED"
  /\ journal[j].link = None
  /\ \A t \in Sessions : Reverses(t, j) => s = t

ReversersHold == \A j \in Guarded, s \in Sessions : ReverserHolds(s, j)

\* A journal knows its last batch.  It is mirrored by the reversal it is linked
\* to, and by no other; when it is POSTED for all that, it was posted again.
Settled(j) ==
  /\ \A b \in BatchesOf(j) : b <= journal[j].batch
  /\ journal[j].link = None => PostedReversalsOf(j) = {}
  /\ journal[j].link # None => /\ PostedReversalsOf(j) = {journal[j].link}
                               /\ \E b \in BatchesOf(j) : Undone(b)
  /\ journal[j].status = "POSTED" =>
       \E b \in BatchesOf(j) : journal[j].batch = b /\ ~Undone(b)
  /\ journal[j].status = "REVERSED" =>
       /\ journal[j].link # None
       /\ \E b \in BatchesOf(j) : journal[j].batch = b /\ Undone(b)

AllSettled == \A j \in Guarded : Settled(j)

GivenUp(b) == batches[b].retired \/ \E s \in Sessions : session[s].found = b

\* A posting gives up its key when a reversal took it back.
GivenUpAreUndone == \A b \in DOMAIN batches :
  batches[b].journal \in Guarded /\ GivenUp(b) => Undone(b)

EffectInv ==
  /\ OnceInv
  /\ BatchesKeepKeys
  /\ MirrorsAreOfOriginals
  /\ NewAreAlone
  /\ ReversersHold
  /\ AllSettled
  /\ GivenUpAreUndone

-----------------------------------------------------------------------------
(* Who takes a journal up, and who writes it.                              *)

\* A request that had nothing in hand takes up a journal.
Begins(t, op, j, key) ==
  /\ session[t].pc = "idle"
  /\ Others(t)
  /\ session'[t] = Begun(op, j, journal[j], key)
  /\ UNCHANGED <<journal, batches>>
  /\ journal[j].status = "NONE" => \A u \in Sessions : session[u].j # j
  /\ op = "reverse" => /\ journal[j].status = "POSTED"
                       /\ journal[j].link = None
                       /\ j \in Locked => RowFree(t, j)

\* A request goes on, with a batch that a reversal left to be retired.
GoesOn(t) ==
  /\ session[t].pc = "loaded"
  /\ Others(t)
  /\ session'[t].pc = "ready"
  /\ session'[t].op = session[t].op
  /\ session'[t].j = session[t].j
  /\ session[t].op = "post" => session'[t].seen = session[t].seen
  /\ session'[t].found # 0 => /\ session'[t].found \in DOMAIN batches
                              /\ BatchPostingReversed(session'[t].found)
  /\ UNCHANGED <<journal, batches>>

LEMMA WhatRequestsDo ==
  ASSUME TypeInv, [Next]_vars, NEW t \in Sessions
  PROVE  \/ session'[t] = session[t]
         \/ session'[t] = IdleSession
         \/ \E op \in Requests, j \in Journals, key \in Keys \cup {None} : Begins(t, op, j, key)
         \/ GoesOn(t)
<1> DEFINE Goal(u) == \/ session'[u] = session[u]
                      \/ session'[u] = IdleSession
                      \/ \E op \in Requests, j \in Journals, key \in Keys \cup {None} :
                           Begins(u, op, j, key)
                      \/ GoesOn(u)
<1>1. ASSUME NEW s \in Sessions, Others(s), Goal(s) PROVE Goal(t)
  BY <1>1 DEF Others
<1>2. ASSUME NEW s \in Sessions, NEW j \in Journals, NEW op \in DOMAIN Steps, BeginStep(s, op, j)
      PROVE  Goal(t)
  <2>1. /\ op \in Requests
        /\ op # "reverse"
        /\ journal[j].status # "NONE"
    BY <1>2, StepTargets DEF BeginStep, Requests
  <2>2. session'[s] = Begun(op, j, journal[j], None) /\ Others(s)
    BY <1>2, <2>1, Loading DEF TypeInv, BeginStep
  <2>3. Begins(s, op, j, None)
    BY <1>2, <2>1, <2>2 DEF BeginStep, Begins
  <2> QED BY <1>1, <2>1, <2>2, <2>3
<1>3. ASSUME NEW s \in Sessions, NEW j \in Journals, NEW k \in KeysOf[j], BeginPost(s, j, k)
      PROVE  Goal(t)
  <2>1. k \in Keys \cup {None} /\ "post" \in Requests
    BY KeysInRange DEF Requests
  <2>2. session'[s] = Begun("post", j, journal[j], k) /\ Others(s)
    BY <1>3, <2>1, Loading DEF TypeInv, BeginPost
  <2>3. Begins(s, "post", j, k)
    BY <1>3, <2>2 DEF BeginPost, Begins
  <2> QED BY <1>1, <2>1, <2>2, <2>3
<1>4. ASSUME NEW s \in Sessions, NEW j \in Journals, BeginReverse(s, j)
      PROVE  Goal(t)
  <2>1. "reverse" \in Requests
    BY DEF Requests
  <2>2. session'[s] = Begun("reverse", j, journal[j], None) /\ Others(s)
    BY <1>4, <2>1, Loading DEF TypeInv, BeginReverse
  <2>3. Begins(s, "reverse", j, None)
    BY <1>4, <2>2 DEF BeginReverse, Begins
  <2> QED BY <1>1, <2>1, <2>2, <2>3
<1>5. ASSUME NEW s \in Sessions, FindBatch(s) PROVE Goal(t)
  <2>1. GoesOn(s) /\ Others(s)
    BY <1>5, BatchFound DEF GoesOn, FindBatch
  <2> QED BY <1>1, <2>1
<1>6. ASSUME NEW s \in Sessions, NEW r \in Reversals, LinkReversal(s, r) PROVE Goal(t)
  <2>1. GoesOn(s) /\ Others(s)
    BY <1>6, ReversalLinked DEF GoesOn
  <2> QED BY <1>1, <2>1
<1>7. ASSUME NEW s \in Sessions, End(s) PROVE Goal(t)
  <2>1. session'[s] = IdleSession /\ Others(s)
    BY <1>7, Ending DEF TypeInv
  <2> QED BY <1>1, <2>1
<1>8. ASSUME NEW s \in Sessions,
             \/ WriteStep(s) \/ ReplayPost(s) \/ CommitPost(s) \/ RevertUnpostedJournal(s)
             \/ CommitReverse(s) \/ ReplayReverse(s) \/ RollBack(s)
      PROVE  Goal(t)
  <2>1. End(s)
    BY <1>8 DEF WriteStep, ReplayPost, CommitPost, RevertUnpostedJournal, CommitReverse,
                ReplayReverse, RollBack
  <2> QED BY <1>7, <2>1
<1>9. ASSUME NEW j \in Originals, CreateJournal(j) PROVE Goal(t)
  BY <1>9 DEF CreateJournal
<1>10. CASE UNCHANGED vars
  BY <1>10 DEF vars
<1>11. ASSUME NEW s \in Sessions, NEW j \in Journals,
              \/ \E op \in DOMAIN Steps : BeginStep(s, op, j)
              \/ \E k \in KeysOf[j] : BeginPost(s, j, k)
              \/ BeginReverse(s, j)
       PROVE  Goal(t)
  BY <1>2, <1>3, <1>4, <1>11
<1>12. Goal(t)
  BY <1>5, <1>6, <1>8, <1>9, <1>10, <1>11 DEF Next
<1> QED BY <1>12 DEF Goal

\* An original is written when it is created, by its reverser, by the request
\* that creates it in order to post it, or by one that no reverser keeps waiting.
LEMMA WhoWrites ==
  ASSUME TypeInv, [Next]_vars, NEW j \in Originals
  PROVE  \/ journal'[j] = journal[j]
         \/ journal[j].status = "NONE" /\ \A s \in Sessions : session[s].j # j
         \/ \E s \in Sessions :
              /\ session[s].pc # "idle" /\ session[s].j = j
              /\ End(s)
              /\ Writable(s, j) \/ Reverses(s, j) \/ PostsNew(s)
<1> DEFINE Goal == \/ journal'[j] = journal[j]
                   \/ journal[j].status = "NONE" /\ \A s \in Sessions : session[s].j # j
                   \/ \E s \in Sessions :
                        /\ session[s].pc # "idle" /\ session[s].j = j
                        /\ End(s)
                        /\ Writable(s, j) \/ Reverses(s, j) \/ PostsNew(s)
<1>1. j \in Journals /\ j \notin Reversals /\ journal \in [Journals -> Rows]
  BY DEF Journals, TypeInv, Types
<1>2. ASSUME NEW i \in Originals, CreateJournal(i) PROVE Goal
  <2>1. journal' = [journal EXCEPT ![i].status = "DRAFT"]
    BY <1>2 DEF CreateJournal
  <2> QED BY <1>1, <1>2, <2>1 DEF CreateJournal
<1>3. ASSUME NEW s \in Sessions,
             WriteStep(s) \/ ReplayPost(s) \/ CommitPost(s) \/ RevertUnpostedJournal(s)
      PROVE  Goal
  <2>1. session[s].pc # "idle" /\ End(s)
    BY <1>3 DEF WriteStep, ReplayPost, CommitPost, RevertUnpostedJournal
  <2>2. session[s].j # j => journal'[j] = journal[j]
    BY <1>1, <1>3 DEF WriteStep, ReplayPost, CommitPost, RevertUnpostedJournal
  <2>3. ~Writable(s, session[s].j) => PostsNew(s) \/ journal' = journal
    BY <1>3 DEF WriteStep, ReplayPost, CommitPost, RevertUnpostedJournal, PostsNew
  <2> QED BY <2>1, <2>2, <2>3
<1>4. ASSUME NEW s \in Sessions, CommitReverse(s) \/ ReplayReverse(s) PROVE Goal
  <2>1. /\ session[s].pc = "ready" /\ session[s].op = "reverse" /\ End(s)
        /\ session[s].rev \in Reversals
    BY <1>4, ReversalInHand DEF CommitReverse, ReplayReverse
  <2>2. \E status, batch : Reversing(s, status, batch)
    BY <1>4 DEF CommitReverse, ReplayReverse
  <2>3. session[s].j # j => journal'[j] = journal[j]
    BY <1>1, <2>1, <2>2 DEF Reversing
  <2> QED BY <2>1, <2>3 DEF Reverses
<1>5. ASSUME NEW s \in Sessions,
             \/ \E i \in Journals : \/ \E op \in DOMAIN Steps : BeginStep(s, op, i)
                                    \/ \E k \in KeysOf[i] : BeginPost(s, i, k)
                                    \/ BeginReverse(s, i)
             \/ FindBatch(s)
             \/ \E r \in Reversals : LinkReversal(s, r)
             \/ RollBack(s)
      PROVE  Goal
  BY <1>5 DEF BeginStep, BeginPost, BeginReverse, FindBatch, LinkReversal, RollBack
<1>6. CASE UNCHANGED vars
  BY <1>6 DEF vars
<1>7. ASSUME NEW s \in Sessions, NEW i \in Journals,
             \/ \E op \in DOMAIN Steps : BeginStep(s, op, i)
             \/ \E k \in KeysOf[i] : BeginPost(s, i, k)
             \/ BeginReverse(s, i)
      PROVE  Goal
  BY <1>5, <1>7
<1>8. Goal
  BY <1>2, <1>3, <1>4, <1>5, <1>6, <1>7 DEF Next
<1> QED BY <1>8 DEF Goal

-----------------------------------------------------------------------------
(* The requests.                                                           *)

LEMMA BatchesKeepKeysStep ==
  ASSUME EffectInv, Kept, [Next]_vars
  PROVE  BatchesKeepKeys'
<1>1. ASSUME NEW b \in DOMAIN batches, batches'[b].journal \in Originals
      PROVE  batches'[b].key \in KeysOf[batches'[b].journal]
  BY <1>1 DEF EffectInv, BatchesKeepKeys, Kept
<1>2. CASE UNCHANGED batches
  BY <1>1, <1>2 DEF BatchesKeepKeys
<1>3. ASSUME NEW s \in Sessions, CommitPost(s) \/ CommitReverse(s) PROVE BatchesKeepKeys'
  <2> DEFINE n == Len(batches) + 1
  <2>1. CommitReverse(s) => session[s].rev \in Reversals
    BY ReversalInHand DEF EffectInv, OnceInv, MirrorInv
  <2>2. batches'[n].journal \in Originals => batches'[n].key \in KeysOf[batches'[n].journal]
    BY <1>3, <2>1, BatchAppended DEF EffectInv, OnceInv
  <2>3. \A b \in DOMAIN batches' : b \in DOMAIN batches \/ b = n
    BY <1>3, BatchAppended DEF EffectInv, OnceInv
  <2> HIDE DEF n
  <2> QED BY <1>1, <2>2, <2>3 DEF BatchesKeepKeys
<1> QED BY <1>2, <1>3, BatchesMove DEF EffectInv, OnceInv, MirrorInv

LEMMA MirrorsAreOfOriginalsStep ==
  ASSUME EffectInv, [Next]_vars
  PROVE  MirrorsAreOfOriginals'
<1>1. ASSUME \A i \in Journals : journal'[i].of = journal[i].of PROVE MirrorsAreOfOriginals'
  BY <1>1 DEF EffectInv, MirrorsAreOfOriginals, Journals
<1>2. CASE UNCHANGED journal
  BY <1>1, <1>2
<1>3. ASSUME NEW j \in Journals, NEW status \in Statuses, Restated(j, status)
      PROVE  MirrorsAreOfOriginals'
  BY <1>1, <1>3, Restatus DEF EffectInv, OnceInv, MirrorInv, TypeInv, Restated
<1>4. ASSUME NEW s \in Sessions, CommitPost(s) PROVE MirrorsAreOfOriginals'
  <2>1. \A i \in Journals : journal'[i].of = journal[i].of
    BY <1>4, PostedRow DEF EffectInv, OnceInv, MirrorInv
  <2> QED BY <1>1, <2>1
<1>5. ASSUME NEW s \in Sessions, CommitReverse(s) \/ ReplayReverse(s)
      PROVE  MirrorsAreOfOriginals'
  <2>1. /\ session[s].op = "reverse" /\ session[s].pc = "ready"
        /\ session[s].rev \in Reversals
        /\ journal'[session[s].rev].of = session[s].j
        /\ journal'[session[s].j].of = journal[session[s].j].of
        /\ \A i \in Journals \ {session[s].j, session[s].rev} : journal'[i] = journal[i]
    BY <1>5, ReversalWrites DEF EffectInv, OnceInv, MirrorInv
  <2>2. session[s].j \in Originals
    BY <2>1 DEF EffectInv, OnceInv, OriginalsAreReversed
  <2> QED BY <2>1, <2>2 DEF EffectInv, MirrorsAreOfOriginals, Journals
<1> QED BY <1>2, <1>3, <1>4, <1>5, LedgerMoves DEF EffectInv, OnceInv, MirrorInv, Posts

LEMMA NewAreAloneStep ==
  ASSUME EffectInv, [Next]_vars
  PROVE  NewAreAlone'
<1> SUFFICES ASSUME NEW s \in Sessions, PostsNew(s)' PROVE
      /\ journal'[session'[s].j].status = "NONE"
      /\ \A t \in Sessions \ {s} : session'[t].j # session'[s].j
  BY DEF NewAreAlone, NewIsAlone
<1> DEFINE j == session'[s].j
<1>1. TypeInv
  BY DEF EffectInv, OnceInv, MirrorInv
<1>2. session'[s] # IdleSession
  BY DEF PostsNew, IdleSession
<1>3. CASE session'[s] = session[s] \/ GoesOn(s)
  <2>1. PostsNew(s) /\ session[s].j = j /\ session'[s].pc # "idle"
    BY <1>3 DEF PostsNew, GoesOn
  <2>2. /\ journal[j].status = "NONE"
        /\ \A t \in Sessions \ {s} : session[t].j # j
    BY <2>1 DEF EffectInv, NewAreAlone, NewIsAlone
  <2>3. j \in Originals
    <3>1. j \in Journals /\ session[s].pc # "idle"
      BY <1>1, <2>1 DEF PostsNew, TypeInv, WorkInHand, InHand
    <3>2. j \notin Reversals
      BY <2>1, <2>2, <3>1
         DEF EffectInv, OnceInv, MirrorInv, RequestsInOrder, RequestInOrder
    <3> QED BY <3>1, <3>2 DEF Journals
  <2>4. ASSUME NEW t \in Sessions \ {s} PROVE session'[t].j # j
    <3>1. CASE session'[t] = session[t]
      BY <2>2, <3>1
    <3>2. CASE session'[t] = IdleSession
      BY <2>3, <3>2 DEF IdleSession, Journals
    <3>3. ASSUME NEW op \in Requests, NEW i \in Journals, NEW key \in Keys \cup {None},
                 Begins(t, op, i, key)
          PROVE  session'[t].j # j
      <4>1. session'[t].j = i /\ session'[s] = session[s]
        BY <3>3 DEF Begins, Begun, Others
      <4>2. i = j => journal[i].status = "NONE" /\ session[s].j = i
        BY <2>1, <2>2
      <4>3. i # j
        BY <3>3, <4>2 DEF Begins
      <4> QED BY <4>1, <4>3
    <3>4. CASE GoesOn(t)
      BY <2>2, <3>4 DEF GoesOn
    <3> QED BY <1>1, <3>1, <3>2, <3>3, <3>4, WhatRequestsDo
  <2>5. journal'[j] = journal[j]
    <3>1. ASSUME NEW u \in Sessions, End(u), session[u].j = j PROVE FALSE
      <4>1. u = s
        BY <2>2, <3>1
      <4> QED BY <1>1, <1>2, <3>1, <4>1, Ending DEF TypeInv
    <3> QED BY <1>1, <2>1, <2>3, <3>1, WhoWrites
  <2> QED BY <2>2, <2>4, <2>5
<1>4. ASSUME NEW op \in Requests, NEW i \in Journals, NEW key \in Keys \cup {None},
             Begins(s, op, i, key)
      PROVE  /\ journal'[session'[s].j].status = "NONE"
             /\ \A t \in Sessions \ {s} : session'[t].j # session'[s].j
  <2>1. /\ session'[s].j = i
        /\ session'[s].seen = journal[i]
        /\ journal' = journal
        /\ Others(s)
    BY <1>4 DEF Begins, Begun
  <2>2. journal[i].status = "NONE"
    BY <2>1 DEF PostsNew
  <2>3. \A u \in Sessions : session[u].j # i
    BY <1>4, <2>2 DEF Begins
  <2> QED BY <2>1, <2>2, <2>3 DEF Others
<1> QED BY <1>1, <1>2, <1>3, <1>4, WhatRequestsDo

LEMMA ReversersHoldStep ==
  ASSUME EffectInv, [Next]_vars
  PROVE  ReversersHold'
<1> SUFFICES ASSUME NEW j \in Guarded, NEW s \in Sessions, Reverses(s, j)'
             PROVE  /\ journal'[j].status = "POSTED"
                    /\ journal'[j].link = None
                    /\ \A t \in Sessions : Reverses(t, j)' => s = t
  BY DEF ReversersHold, ReverserHolds
<1>1. TypeInv /\ j \in Originals /\ j \in Locked
  BY DEF EffectInv, OnceInv, MirrorInv, Guarded
<1>2. ASSUME NEW t \in Sessions, Reverses(t, j)'
      PROVE  \/ Reverses(t, j)
             \/ /\ Others(t)
                /\ RowFree(t, j)
                /\ journal[j].status = "POSTED"
                /\ journal[j].link = None
                /\ UNCHANGED journal
  <2>1. session'[t] # IdleSession
    BY <1>2 DEF Reverses, IdleSession
  <2>2. session'[t] = session[t] \/ GoesOn(t) => Reverses(t, j)
    BY <1>2 DEF Reverses, GoesOn
  <2>3. ASSUME NEW op \in Requests, NEW i \in Journals, NEW key \in Keys \cup {None},
               Begins(t, op, i, key)
        PROVE  /\ Others(t)
               /\ RowFree(t, j)
               /\ journal[j].status = "POSTED"
               /\ journal[j].link = None
               /\ UNCHANGED journal
    <3>1. op = "reverse" /\ i = j
      BY <1>2, <2>3 DEF Reverses, Begins, Begun
    <3> QED BY <1>1, <2>3, <3>1 DEF Begins
  <2> QED BY <1>1, <2>1, <2>2, <2>3, WhatRequestsDo
<1>3. ASSUME NEW t \in Sessions, Reverses(t, j) PROVE HoldsRow(t, j)
  BY <1>1, <1>3 DEF Reverses, HoldsRow
<1>4. ASSUME NEW t \in Sessions, NEW u \in Sessions, t # u, Reverses(t, j)', Reverses(u, j)'
      PROVE  FALSE
  <2>1. CASE Reverses(t, j) /\ Reverses(u, j)
    BY <1>4, <2>1 DEF EffectInv, ReversersHold, ReverserHolds
  <2>2. ASSUME NEW v \in Sessions, NEW w \in Sessions \ {v}, Others(v), RowFree(v, j),
               Reverses(w, j)'
        PROVE  FALSE
    <3>1. Reverses(w, j)
      BY <2>2 DEF Others, Reverses
    <3> QED BY <1>3, <2>2, <3>1 DEF RowFree
  <2> QED BY <1>2, <1>4, <2>1, <2>2
<1>5. CASE Reverses(s, j)
  <2>1. journal[j].status = "POSTED" /\ journal[j].link = None
    BY <1>5 DEF EffectInv, ReversersHold, ReverserHolds
  <2>2. ASSUME NEW u \in Sessions, session[u].pc # "idle", session[u].j = j, End(u),
               Writable(u, j) \/ Reverses(u, j) \/ PostsNew(u)
        PROVE  FALSE
    <3>1. ~PostsNew(u)
      BY <2>1, <2>2 DEF EffectInv, NewAreAlone, NewIsAlone
    <3>2. Reverses(u, j) => u = s
      BY <1>5 DEF EffectInv, ReversersHold, ReverserHolds
    <3>3. Writable(u, j) => u = s
      BY <1>3, <1>5 DEF Writable, RowFree
    <3>4. session'[s] = IdleSession
      BY <1>1, <2>2, <3>1, <3>2, <3>3, Ending DEF TypeInv
    <3> QED BY <3>4 DEF Reverses, IdleSession
  <2>3. journal'[j] = journal[j]
    BY <1>1, <2>1, <2>2, WhoWrites
  <2> QED BY <1>4, <2>1, <2>3
<1> QED BY <1>2, <1>4, <1>5

-----------------------------------------------------------------------------
(* The batches of a journal.                                               *)

\* A posting adds one batch to one journal.
LEMMA BatchesGrow ==
  ASSUME TypeInv, NEW s \in Sessions, CommitPost(s) \/ CommitReverse(s), NEW j
  PROVE  BatchesOf(j)' =
           IF j = (IF session[s].op = "post" THEN session[s].j ELSE session[s].rev)
             THEN BatchesOf(j) \cup {Len(batches) + 1} ELSE BatchesOf(j)
<1> DEFINE owner == IF session[s].op = "post" THEN session[s].j ELSE session[s].rev
           n == Len(batches) + 1
<1>1. /\ \A b \in DOMAIN batches : batches'[b].journal = batches[b].journal
      /\ DOMAIN batches' = DOMAIN batches \cup {n}
      /\ batches'[n] = [key |-> session[s].key, journal |-> owner, retired |-> FALSE]
  BY PostsBatches, Zenon
<1>2. batches'[n].journal = owner
  BY <1>1
<1> HIDE DEF n, owner
<1>3. BatchesOf(j)' = IF j = owner THEN BatchesOf(j) \cup {n} ELSE BatchesOf(j)
  BY <1>1, <1>2 DEF BatchesOf
<1> QED BY <1>3 DEF owner, n

\* A reversal has one batch at most.
LEMMA OneBatchOfReversal ==
  ASSUME EffectInv, NEW r \in Reversals, NEW b \in BatchesOf(r), NEW c \in BatchesOf(r)
  PROVE  b = c
<1>1. /\ b \in DOMAIN batches /\ batches[b].journal = r
      /\ c \in DOMAIN batches /\ batches[c].journal = r
  BY DEF BatchesOf
<1>2. ~batches[b].retired /\ ~batches[c].retired /\ batches[b].key = batches[c].key
  BY <1>1 DEF EffectInv, OnceInv, ReversalBatches
<1> QED BY <1>1, <1>2 DEF EffectInv, OnceInv, LiveKeysAreUnique

\* Batches are numbered in the order of their insertion.
LEMMA BatchNumbers ==
  ASSUME TypeInv, NEW j, NEW b \in BatchesOf(j)
  PROVE  b \in Nat /\ b # 0 /\ b < Len(batches) + 1 /\ Len(batches) \in Nat
BY LenProperties DEF BatchesOf, TypeInv, Types

-----------------------------------------------------------------------------
(* What a reversal took back stays so, and nothing else comes to be.       *)

LEMMA UndoneForever ==
  ASSUME EffectInv, Kept, [Next]_vars, NEW b \in DOMAIN batches, Undone(b)
  PROVE  Undone(b)'
<1>1. PICK r \in PostedReversalsOf(batches[b].journal) : \E c \in BatchesOf(r) :
        b < c /\ \A d \in BatchesOf(batches[b].journal) : b < d => c < d
  BY DEF Undone
<1>2. PICK c \in BatchesOf(r) :
        b < c /\ \A d \in BatchesOf(batches[b].journal) : b < d => c < d
  BY <1>1
<1>3. /\ r \in Reversals /\ journal[r].of = batches[b].journal
      /\ c \in DOMAIN batches /\ batches[c].journal = r
  BY DEF PostedReversalsOf, BatchesOf
<1>4. /\ batches'[b].journal = batches[b].journal
      /\ c \in DOMAIN batches' /\ batches'[c].journal = r
  BY <1>3 DEF Kept
<1>5. journal'[r].of = batches'[b].journal
  <2>1. journal[r].status # "NONE" /\ r \in Journals
    BY <1>3 DEF EffectInv, OnceInv, MirrorInv, BatchesAreOfRows, Journals
  <2> QED BY <1>3, <1>4, <2>1 DEF Kept
<1>6. ASSUME NEW d \in DOMAIN batches', batches'[d].journal = batches'[b].journal, b < d
      PROVE  c < d
  <2>1. CASE d \in DOMAIN batches
    <3>1. batches[d].journal = batches[b].journal
      BY <1>4, <1>6, <2>1 DEF Kept
    <3> QED BY <1>2, <1>6, <2>1, <3>1 DEF BatchesOf
  <2>2. CASE d \notin DOMAIN batches
    <3>1. d = Len(batches) + 1
      <4>1. TypeInv /\ MirrorInv /\ batches' # batches
        BY <1>6, <2>2 DEF EffectInv, OnceInv, MirrorInv
      <4>2. PICK s \in Sessions : CommitPost(s) \/ CommitReverse(s)
        BY <4>1, BatchesMove
      <4> QED BY <1>6, <2>2, <4>1, <4>2, BatchAppended
    <3> QED BY <3>1, BatchNumbers DEF EffectInv, OnceInv, MirrorInv
  <2> QED BY <2>1, <2>2
<1>7. c \in BatchesOf(r)' /\ r \in PostedReversalsOf(batches[b].journal)'
  BY <1>3, <1>4, <1>5 DEF BatchesOf, PostedReversalsOf
<1>8. \A d \in BatchesOf(batches[b].journal)' : b < d => c < d
  BY <1>6 DEF BatchesOf
<1> QED BY <1>2, <1>7, <1>8 DEF Undone

LEMMA UndoneStays ==
  ASSUME TypeInv, NEW j, NEW b \in BatchesOf(j),
         b \in BatchesOf(j)',
         PostedReversalsOf(j)' = PostedReversalsOf(j),
         \A r \in PostedReversalsOf(j) : BatchesOf(r)' = BatchesOf(r),
         BatchesOf(j)' \subseteq BatchesOf(j) \cup {Len(batches) + 1},
         BatchesOf(j) \subseteq BatchesOf(j)'
  PROVE  Undone(b)' <=> Undone(b)
<1> DEFINE n == Len(batches) + 1
<1>1. batches[b].journal = j /\ batches'[b].journal = j
  BY DEF BatchesOf
<1>2. \A r : \A c \in BatchesOf(r) : c < n
  BY BatchNumbers
<1>3. Undone(b) <=> \E r \in PostedReversalsOf(j) : \E c \in BatchesOf(r) :
                      b < c /\ \A d \in BatchesOf(j) : b < d => c < d
  BY <1>1 DEF Undone
<1>4. Undone(b)' <=> \E r \in PostedReversalsOf(j)' : \E c \in BatchesOf(r)' :
                       b < c /\ \A d \in BatchesOf(j)' : b < d => c < d
  BY <1>1 DEF Undone
<1>5. ASSUME NEW r \in PostedReversalsOf(j), NEW c \in BatchesOf(r)
      PROVE  (\A d \in BatchesOf(j)' : b < d => c < d)
               <=> (\A d \in BatchesOf(j) : b < d => c < d)
  BY <1>2, <1>5
<1> HIDE DEF n
<1>6. Undone(b)' <=> \E r \in PostedReversalsOf(j) : \E c \in BatchesOf(r) :
                       b < c /\ \A d \in BatchesOf(j)' : b < d => c < d
  BY <1>4
<1> QED BY <1>3, <1>5, <1>6

-----------------------------------------------------------------------------
(* What the ledger shows of a journal.                                     *)

\* Nothing a journal's account rests on changes when its row but for a status
\* that settles nothing, its batches and its mirrors with theirs stay.
LEMMA SettledStays ==
  ASSUME TypeInv, NEW j \in Guarded, Settled(j),
         journal'[j].link = journal[j].link,
         journal'[j].batch = journal[j].batch,
         \/ journal'[j].status = journal[j].status
         \/ journal'[j].status \notin {"POSTED", "REVERSED"},
         BatchesOf(j)' = BatchesOf(j),
         PostedReversalsOf(j)' = PostedReversalsOf(j),
         \A r \in PostedReversalsOf(j) : BatchesOf(r)' = BatchesOf(r)
  PROVE  Settled(j)'
<1>1. \A b \in BatchesOf(j) : Undone(b)' <=> Undone(b)
  BY UndoneStays
<1>2. /\ \A b \in BatchesOf(j)' : b <= journal'[j].batch
      /\ journal'[j].link = None => PostedReversalsOf(j)' = {}
      /\ journal'[j].link # None => PostedReversalsOf(j)' = {journal'[j].link}
  BY DEF Settled
<1>3. journal'[j].link # None => \E b \in BatchesOf(j)' : Undone(b)'
  BY <1>1 DEF Settled
<1>4. journal'[j].status = "POSTED" =>
        \E b \in BatchesOf(j)' : journal'[j].batch = b /\ ~Undone(b)'
  BY <1>1 DEF Settled
<1>5. journal'[j].status = "REVERSED" =>
        /\ journal'[j].link # None
        /\ \E b \in BatchesOf(j)' : journal'[j].batch = b /\ Undone(b)'
  BY <1>1 DEF Settled
<1> QED BY <1>2, <1>3, <1>4, <1>5 DEF Settled

\* The mirrors of a journal stay what they are while reversals stay.
LEMMA MirrorsKept ==
  ASSUME NEW j, \A r \in Reversals : /\ journal'[r].of = journal[r].of
                                     /\ BatchesOf(r)' = BatchesOf(r)
  PROVE  PostedReversalsOf(j)' = PostedReversalsOf(j)
BY DEF PostedReversalsOf

\* A restatement says neither POSTED nor REVERSED.
LEMMA SettledWhenRestated ==
  ASSUME EffectInv, NEW j \in Guarded, NEW i \in Journals, NEW status \in Statuses,
         Restated(i, status)
  PROVE  Settled(j)'
<1>1. Settled(j) /\ j \in Journals
  BY DEF EffectInv, AllSettled, Guarded, Journals
<1>2. \A r : BatchesOf(r)' = BatchesOf(r)
  BY DEF Restated, BatchesOf
<1>3. /\ journal'[i].status = status
      /\ \A r \in Journals \ {i} : journal'[r] = journal[r]
      /\ \A r \in Journals : /\ journal'[r].of = journal[r].of
                             /\ journal'[r].link = journal[r].link
                             /\ journal'[r].batch = journal[r].batch
  BY Restatus DEF Restated, EffectInv, OnceInv, MirrorInv, TypeInv
<1>4. PostedReversalsOf(j)' = PostedReversalsOf(j)
  BY <1>2, <1>3, MirrorsKept DEF Journals
<1>5. \/ journal'[j].status = journal[j].status
      \/ journal'[j].status \notin {"POSTED", "REVERSED"}
  BY <1>1, <1>3 DEF Restated
<1> QED BY <1>1, <1>2, <1>3, <1>4, <1>5, SettledStays DEF EffectInv, OnceInv, MirrorInv

\* What a posting does to rows, batches and mirrors.
LEMMA PostMoves ==
  ASSUME ReversalsRest, EffectInv, NEW s \in Sessions, CommitPost(s)
  PROVE  LET i == session[s].j IN
         /\ i \in Originals
         /\ journal'[i].status = "POSTED"
         /\ journal'[i].link = journal[i].link
         /\ journal'[i].batch = Len(batches) + 1
         /\ \A q \in Journals \ {i} : journal'[q] = journal[q]
         /\ \A q : BatchesOf(q)' = IF q = i THEN BatchesOf(q) \cup {Len(batches) + 1}
                                            ELSE BatchesOf(q)
         /\ \A q : /\ PostedReversalsOf(q)' = PostedReversalsOf(q)
                   /\ \A r \in PostedReversalsOf(q) : BatchesOf(r)' = BatchesOf(r)
<1> DEFINE i == session[s].j
           n == Len(batches) + 1
<1>1. TypeInv
  BY DEF EffectInv, OnceInv, MirrorInv
<1>2. /\ i \in Journals
      /\ journal'[i].status = "POSTED"
      /\ journal'[i].of = journal[i].of
      /\ journal'[i].link = journal[i].link
      /\ journal'[i].batch = n
      /\ \A q \in Journals \ {i} : journal'[q] = journal[q]
  BY <1>1, PostedRow
<1>3. i \in Originals /\ i \notin Reversals
  BY <1>1, <1>2, BatchAppended DEF EffectInv, OnceInv, ReversalsRest, Journals
<1>4. session[s].op = "post"
  BY DEF CommitPost
<1>5. \A q : BatchesOf(q)' = IF q = i THEN BatchesOf(q) \cup {n} ELSE BatchesOf(q)
  BY <1>1, <1>4, BatchesGrow
<1> HIDE DEF i, n
<1>6. \A r \in Reversals : journal'[r].of = journal[r].of /\ BatchesOf(r)' = BatchesOf(r)
  BY <1>2, <1>3, <1>5 DEF Journals
<1>7. \A q : /\ PostedReversalsOf(q)' = PostedReversalsOf(q)
             /\ \A r \in PostedReversalsOf(q) : BatchesOf(r)' = BatchesOf(r)
  BY <1>6, MirrorsKept DEF PostedReversalsOf
<1> QED BY <1>2, <1>3, <1>5, <1>7 DEF i, n

\* The last batch of all was not taken back.
LEMMA NewIsInForce ==
  ASSUME TypeInv, NEW s \in Sessions, CommitPost(s)
  PROVE  \A b \in DOMAIN batches' : b \notin DOMAIN batches => ~Undone(b)'
<1>1. DOMAIN batches' = DOMAIN batches \cup {Len(batches) + 1}
  BY PostsBatches
<1>2. \A c \in DOMAIN batches' : c \in Nat /\ c <= Len(batches) + 1
  BY <1>1, LenProperties DEF TypeInv, Types
<1> SUFFICES ASSUME NEW b \in DOMAIN batches', b \notin DOMAIN batches, Undone(b)' PROVE FALSE
  OBVIOUS
<1>3. \E r : \E c \in BatchesOf(r)' : b < c
  BY DEF Undone
<1>4. \E c \in DOMAIN batches' : b < c
  BY <1>3 DEF BatchesOf
<1>5. b = Len(batches) + 1
  BY <1>1
<1> QED BY <1>2, <1>4, <1>5

\* A posting of the journal itself is in force.
LEMMA SettledWhenPosted ==
  ASSUME ReversalsRest, EffectInv, NEW j \in Guarded, NEW s \in Sessions, CommitPost(s)
  PROVE  Settled(j)'
<1>1. Settled(j) /\ j \in Journals /\ TypeInv
  BY DEF EffectInv, AllSettled, Guarded, Journals, OnceInv, MirrorInv
<1>2. /\ PostedReversalsOf(j)' = PostedReversalsOf(j)
      /\ \A r \in PostedReversalsOf(j) : BatchesOf(r)' = BatchesOf(r)
  BY PostMoves
<1>3. CASE session[s].j = j
  <2>1. PICK n : n = Len(batches) + 1
    OBVIOUS
  <2>2. /\ journal'[j].status = "POSTED"
        /\ journal'[j].link = journal[j].link
        /\ journal'[j].batch = n
        /\ BatchesOf(j)' = BatchesOf(j) \cup {n}
    BY <1>3, <2>1, PostMoves
  <2>3. \A b \in BatchesOf(j) : Undone(b)' <=> Undone(b)
    BY <1>1, <1>2, <2>1, <2>2, UndoneStays
  <2>4. ~Undone(n)'
    <3>1. n \in DOMAIN batches' /\ n \notin DOMAIN batches
      BY <1>1, <2>1, <2>2, NewBatchIsNew DEF BatchesOf
    <3> QED BY <1>1, <3>1, NewIsInForce
  <2>5. \A b \in BatchesOf(j)' : b <= journal'[j].batch
    BY <1>1, <2>1, <2>2, BatchNumbers, NewBatchIsNew
  <2>6. /\ journal'[j].link = None => PostedReversalsOf(j)' = {}
        /\ journal'[j].link # None => PostedReversalsOf(j)' = {journal'[j].link}
    BY <1>1, <1>2, <2>2 DEF Settled
  <2>7. journal'[j].link # None => \E b \in BatchesOf(j)' : Undone(b)'
    BY <1>1, <2>2, <2>3 DEF Settled
  <2>8. \E b \in BatchesOf(j)' : journal'[j].batch = b /\ ~Undone(b)'
    BY <2>2, <2>4
  <2> QED BY <2>2, <2>5, <2>6, <2>7, <2>8 DEF Settled
<1>4. CASE session[s].j # j
  <2>1. journal'[j] = journal[j] /\ BatchesOf(j)' = BatchesOf(j)
    BY <1>1, <1>4, PostMoves
  <2> QED BY <1>1, <1>2, <2>1, SettledStays
<1> QED BY <1>3, <1>4

\* A reversal that no batch holds mirrors nothing.
LEMMA NewReversalIsUnposted ==
  ASSUME EffectInv, NEW s \in Sessions, CommitReverse(s) \/ ReplayReverse(s)
  PROVE  BatchesOf(session[s].rev) = {}
<1>1. journal[session[s].rev].status = "NONE"
  BY ReversalWrites DEF EffectInv, OnceInv, MirrorInv
<1> QED BY <1>1 DEF EffectInv, OnceInv, MirrorInv, BatchesAreOfRows, BatchesOf

\* What a reversal does to them.
LEMMA ReverseMoves ==
  ASSUME EffectInv, NEW s \in Sessions, CommitReverse(s)
  PROVE  LET i == session[s].j
             r == session[s].rev
         IN /\ i \in Originals
            /\ r # None
            /\ journal'[i].status = "REVERSED"
            /\ journal'[i].link = r
            /\ journal'[i].batch = journal[i].batch
            /\ \A q : q = r => BatchesOf(q)' = {Len(batches) + 1}
            /\ \A q \in Journals \ {i, r} : journal'[q] = journal[q]
            /\ \A q \in Originals :
                 /\ q # r
                 /\ BatchesOf(q)' = BatchesOf(q)
                 /\ PostedReversalsOf(q)' =
                      IF i = q THEN PostedReversalsOf(q) \cup {r} ELSE PostedReversalsOf(q)
            /\ \A p \in Reversals : BatchesOf(p) # {} => BatchesOf(p)' = BatchesOf(p)
<1> DEFINE i == session[s].j
           r == session[s].rev
           n == Len(batches) + 1
<1>1. TypeInv
  BY DEF EffectInv, OnceInv, MirrorInv
<1>2. /\ r \in Reversals /\ r # i
      /\ session[s].op = "reverse" /\ session[s].pc = "ready"
      /\ journal'[r].of = i
      /\ journal'[i].status = "REVERSED"
      /\ journal'[i].link = r
      /\ journal'[i].batch = journal[i].batch
      /\ \A q \in Journals \ {i, r} : journal'[q] = journal[q]
  BY ReversalWrites DEF EffectInv, OnceInv, MirrorInv
<1>3. i \in Originals /\ i \notin Reversals
  BY <1>2 DEF EffectInv, OnceInv, OriginalsAreReversed
<1>4. BatchesOf(r) = {}
  BY NewReversalIsUnposted
<1>5. \A q : BatchesOf(q)' = IF q = r THEN BatchesOf(q) \cup {n} ELSE BatchesOf(q)
  BY <1>1, <1>2, BatchesGrow
<1> HIDE DEF i, r, n
<1>6. \A q \in Reversals \ {r} : journal'[q] = journal[q]
  BY <1>2, <1>3 DEF Journals
<1>7. \A q : PostedReversalsOf(q)' =
              IF i = q THEN PostedReversalsOf(q) \cup {r} ELSE PostedReversalsOf(q)
  BY <1>2, <1>4, <1>5, <1>6 DEF PostedReversalsOf
<1>8. r # None /\ \A q \in Originals : q # r
  BY <1>2 DEF Journals
<1>9. \A q \in Originals : BatchesOf(q)' = BatchesOf(q)
  BY <1>5, <1>8
<1>10. \A q : q = r => BatchesOf(q)' = {n}
  BY <1>4, <1>5
<1>11. \A p \in Reversals : BatchesOf(p) # {} => BatchesOf(p)' = BatchesOf(p)
  BY <1>4, <1>5
<1> QED BY <1>2, <1>3, <1>7, <1>8, <1>9, <1>10, <1>11 DEF i, r, n

\* A reversal takes the last batch back, of a journal that nothing mirrors.
LEMMA ReverseUndoes ==
  ASSUME EffectInv, NEW j \in Guarded, NEW s \in Sessions, CommitReverse(s), session[s].j = j
  PROVE  /\ PostedReversalsOf(j) = {}
         /\ \E b \in BatchesOf(j) : /\ journal[j].batch = b
                                   /\ ~Undone(b)
                                   /\ \A d \in BatchesOf(j) : Undone(d)' <=> d = b
<1>1. Settled(j) /\ j \in Originals /\ j \in Journals /\ TypeInv
  BY DEF EffectInv, AllSettled, Guarded, Journals, OnceInv, MirrorInv
<1>2. journal[j].status = "POSTED" /\ journal[j].link = None
  BY DEF CommitReverse, Reverses, EffectInv, ReversersHold, ReverserHolds
<1>3. PostedReversalsOf(j) = {}
  BY <1>1, <1>2 DEF Settled
<1>4. PICK b \in BatchesOf(j) : journal[j].batch = b /\ ~Undone(b)
  BY <1>1, <1>2 DEF Settled
<1>5. PICK n : n = Len(batches) + 1
  OBVIOUS
<1>6. PICK r : r = session[s].rev
  OBVIOUS
<1>7. /\ BatchesOf(j)' = BatchesOf(j)
      /\ PostedReversalsOf(j)' = {r}
      /\ BatchesOf(r)' = {n}
  BY <1>1, <1>3, <1>5, <1>6, ReverseMoves
<1>8. ASSUME NEW d \in BatchesOf(j) PROVE Undone(d)' <=> d = b
  <2>1. batches'[d].journal = j
    BY <1>7 DEF BatchesOf
  <2>2. Undone(d)' <=> \E q \in PostedReversalsOf(j)' : \E c \in BatchesOf(q)' :
                         d < c /\ \A e \in BatchesOf(j)' : d < e => c < e
    BY <2>1 DEF Undone
  <2>3. Undone(d)' <=> d < n /\ \A e \in BatchesOf(j) : d < e => n < e
    BY <1>7, <2>2
  <2>4. \A e \in BatchesOf(j) : e \in Nat /\ e < n /\ e <= b /\ n \in Nat
    BY <1>1, <1>4, <1>5, BatchNumbers DEF Settled
  <2>5. d < b => ~Undone(d)'
    BY <1>4, <2>3, <2>4
  <2>6. d = b => Undone(d)'
    BY <2>3, <2>4
  <2> QED BY <1>4, <2>4, <2>5, <2>6
<1> QED BY <1>3, <1>4, <1>8

LEMMA SettledWhenReversed ==
  ASSUME EffectInv, NEW j \in Guarded, NEW s \in Sessions, CommitReverse(s)
  PROVE  Settled(j)'
<1>1. Settled(j) /\ j \in Originals /\ j \in Journals /\ TypeInv
  BY DEF EffectInv, AllSettled, Guarded, Journals, OnceInv, MirrorInv
<1>2. BatchesOf(j)' = BatchesOf(j)
  BY <1>1, ReverseMoves
<1>3. CASE session[s].j = j
  <2>1. /\ PostedReversalsOf(j) = {}
        /\ \E b \in BatchesOf(j) : journal[j].batch = b /\ Undone(b)'
    BY <1>3, ReverseUndoes
  <2>2. /\ PostedReversalsOf(j)' = {journal'[j].link}
        /\ journal'[j].status = "REVERSED"
        /\ journal'[j].link # None
        /\ journal'[j].batch = journal[j].batch
    BY <1>1, <1>3, <2>1, ReverseMoves
  <2>3. \E b \in BatchesOf(j)' : journal'[j].batch = b /\ Undone(b)'
    BY <1>2, <2>1, <2>2
  <2>4. \A b \in BatchesOf(j)' : b <= journal'[j].batch
    BY <1>1, <1>2, <2>2 DEF Settled
  <2> QED BY <2>2, <2>3, <2>4 DEF Settled
<1>4. CASE session[s].j # j
  <2>1. journal'[j] = journal[j] /\ PostedReversalsOf(j)' = PostedReversalsOf(j)
    BY <1>1, <1>4, ReverseMoves
  <2>2. \A r \in PostedReversalsOf(j) : BatchesOf(r)' = BatchesOf(r)
    BY ReverseMoves DEF PostedReversalsOf
  <2> QED BY <1>1, <1>2, <2>1, <2>2, SettledStays
<1> QED BY <1>3, <1>4

\* The key never answers a reversal of a journal whose reversers lock.
LEMMA ReplayMoves ==
  ASSUME EffectInv, NEW j \in Guarded, NEW s \in Sessions, ReplayReverse(s)
  PROVE  /\ journal'[j] = journal[j]
         /\ \A q : BatchesOf(q)' = BatchesOf(q)
         /\ PostedReversalsOf(j)' = PostedReversalsOf(j)
<1> DEFINE i == session[s].j
           r == session[s].rev
<1>1. /\ Settled(j)
      /\ j \in Originals /\ j \in Journals /\ j \notin Reversals
  BY DEF EffectInv, AllSettled, Guarded, Journals
<1>2. /\ i \in Journals /\ r \in Reversals
      /\ session[s].op = "reverse" /\ session[s].pc = "ready"
      /\ session[s].key = ReversalKey[<<i, r>>]
      /\ \A q \in Journals \ {i, r} : journal'[q] = journal[q]
  BY ReversalWrites DEF EffectInv, OnceInv, MirrorInv
<1>3. i # j
  <2> SUFFICES ASSUME i = j PROVE FALSE
    OBVIOUS
  <2>1. journal[j].link = None
    BY <1>2 DEF Reverses, EffectInv, ReversersHold, ReverserHolds
  <2>2. PICK b \in DOMAIN batches : batches[b].key = session[s].key
    BY DEF ReplayReverse, Replayed, Answers, LiveBatch
  <2>3. batches[b].journal \in Reversals /\ journal[batches[b].journal].of = i
    BY <1>2, <2>2 DEF EffectInv, OnceInv, MirrorInv, ReversalKeysTell
  <2>4. PostedReversalsOf(j) # {}
    BY <2>3 DEF PostedReversalsOf, BatchesOf
  <2> QED BY <1>1, <2>1, <2>4 DEF Settled
<1>4. i \in Originals
  BY <1>2 DEF EffectInv, OnceInv, OriginalsAreReversed
<1>5. \A q : BatchesOf(q)' = BatchesOf(q)
  BY DEF ReplayReverse, BatchesOf
<1>6. BatchesOf(r) = {}
  BY NewReversalIsUnposted
<1>7. journal'[j] = journal[j] /\ \A q \in Reversals \ {r} : journal'[q] = journal[q]
  BY <1>1, <1>2, <1>3, <1>4 DEF Journals
<1> HIDE DEF r
<1>8. PostedReversalsOf(j)' = PostedReversalsOf(j)
  BY <1>5, <1>6, <1>7 DEF PostedReversalsOf
<1> QED BY <1>5, <1>7, <1>8

LEMMA AllSettledStep ==
  ASSUME ReversalsRest, EffectInv, [Next]_vars
  PROVE  AllSettled'
<1> SUFFICES ASSUME NEW j \in Guarded PROVE Settled(j)'
  BY DEF AllSettled
<1>1. CASE UNCHANGED <<journal, batches>>
  <2>1. /\ \A q : BatchesOf(q)' = BatchesOf(q)
        /\ PostedReversalsOf(j)' = PostedReversalsOf(j)
    BY <1>1 DEF BatchesOf, PostedReversalsOf
  <2> QED BY <1>1, <2>1, SettledStays DEF EffectInv, AllSettled, OnceInv, MirrorInv
<1>2. ASSUME NEW s \in Sessions, ReplayReverse(s) PROVE Settled(j)'
  BY <1>2, ReplayMoves, SettledStays DEF EffectInv, AllSettled, OnceInv, MirrorInv
<1>3. ASSUME NEW s \in Sessions, Posts(s) PROVE Settled(j)'
  BY <1>2, <1>3, SettledWhenPosted, SettledWhenReversed DEF Posts
<1> QED BY <1>1, <1>3, SettledWhenRestated, LedgerMoves DEF EffectInv, OnceInv, MirrorInv

-----------------------------------------------------------------------------
(* Which batches give up their key.                                        *)

\* The batch that a lookup finds superseded was taken back.
LEMMA SupersededIsUndone ==
  ASSUME EffectInv, NEW b \in DOMAIN batches, batches[b].journal \in Guarded,
         BatchPostingReversed(b)
  PROVE  Undone(b)
<1>1. PICK j \in Journals : journal[j].batch = b /\ journal[j].status = "REVERSED"
  BY DEF BatchPostingReversed
<1>2. b # 0
  BY LenProperties DEF EffectInv, OnceInv, MirrorInv, TypeInv, Types
<1>3. batches[b].journal = j
  BY <1>1, <1>2 DEF EffectInv, OnceInv, MirrorInv, RowsKnowTheirBatch
<1> QED BY <1>1, <1>3 DEF EffectInv, AllSettled, Settled

\* A batch is in hand to be retired when it was, or when it was found superseded.
LEMMA FoundBefore ==
  ASSUME TypeInv, [Next]_vars, NEW t \in Sessions, session'[t].found # 0
  PROVE  \/ session'[t].found = session[t].found
         \/ /\ session'[t].found \in DOMAIN batches
            /\ BatchPostingReversed(session'[t].found)
<1>1. session'[t] # IdleSession
  BY DEF IdleSession
<1>2. \A op, j, key : ~Begins(t, op, j, key)
  BY DEF Begins, Begun
<1> QED BY <1>1, <1>2, WhatRequestsDo DEF GoesOn

LEMMA GivenUpAreUndoneStep ==
  ASSUME EffectInv, Kept, [Next]_vars
  PROVE  GivenUpAreUndone'
<1> DEFINE n == Len(batches) + 1
           OfGuarded(b) == batches'[b].journal \in Guarded
<1>1. TypeInv /\ DOMAIN batches = 1..Len(batches) /\ Len(batches) \in Nat
  BY LenProperties DEF EffectInv, OnceInv, MirrorInv, TypeInv, Types
<1>2. \/ /\ DOMAIN batches' = DOMAIN batches
         /\ \A b \in DOMAIN batches : batches'[b].retired = batches[b].retired
      \/ /\ DOMAIN batches' = DOMAIN batches \cup {n}
         /\ ~batches'[n].retired
         /\ \E s \in Sessions : \A b \in DOMAIN batches :
              batches'[b].retired = (batches[b].retired \/ b = session[s].found)
  <2>1. ASSUME NEW s \in Sessions, CommitPost(s) \/ CommitReverse(s)
        PROVE  /\ DOMAIN batches' = DOMAIN batches \cup {n}
               /\ ~batches'[n].retired
               /\ \A b \in DOMAIN batches :
                    batches'[b].retired = (batches[b].retired \/ b = session[s].found)
    <3>1. /\ DOMAIN batches' = DOMAIN batches \cup {n}
          /\ \A b \in DOMAIN batches :
               batches'[b].retired = (batches[b].retired \/ b = session[s].found)
      BY <1>1, <2>1, PostsBatches
    <3>2. ~batches'[n].retired
      BY <2>1, BatchAppended DEF EffectInv, OnceInv
    <3> QED BY <3>1, <3>2
  <2> HIDE DEF n
  <2> QED BY <1>1, <2>1, BatchesMove
<1>3. ASSUME NEW b \in DOMAIN batches, Undone(b) PROVE Undone(b)'
  BY <1>3, UndoneForever
<1>4. ASSUME NEW b \in DOMAIN batches, OfGuarded(b),
             \/ GivenUp(b)
             \/ BatchPostingReversed(b)
      PROVE  Undone(b)
  <2>1. batches[b].journal \in Guarded
    BY <1>4 DEF Kept
  <2> QED BY <1>4, <2>1, SupersededIsUndone DEF EffectInv, GivenUpAreUndone
<1>5. ASSUME NEW b \in DOMAIN batches, batches'[b].retired
      PROVE  GivenUp(b)
  BY <1>2, <1>5 DEF GivenUp
<1>6. ASSUME NEW b \in DOMAIN batches, NEW t \in Sessions, session'[t].found = b
      PROVE  GivenUp(b) \/ BatchPostingReversed(b)
  <2>1. b # 0
    BY <1>1
  <2> QED BY <1>1, <1>6, <2>1, FoundBefore DEF GivenUp
<1>7. ASSUME NEW b \in DOMAIN batches', b \notin DOMAIN batches PROVE ~GivenUp(b)'
  <2>1. ~batches'[b].retired
    BY <1>2, <1>7
  <2>2. ASSUME NEW t \in Sessions, session'[t].found = b PROVE FALSE
    <3>1. b = n
      BY <1>2, <1>7
    <3>2. session[t].found \in Nat /\ session[t].found <= Len(batches)
      BY <1>1 DEF TypeInv, Types, Work, WorkInHand, InHand
    <3>3. b # 0 /\ b # session[t].found
      BY <1>1, <3>1, <3>2
    <3> QED BY <1>1, <1>7, <2>2, <3>3, FoundBefore
  <2> QED BY <2>1, <2>2 DEF GivenUp
<1>8. ASSUME NEW b \in DOMAIN batches', OfGuarded(b), GivenUp(b)' PROVE Undone(b)'
  <2>1. b \in DOMAIN batches
    BY <1>7, <1>8
  <2>2. batches'[b].retired \/ \E t \in Sessions : session'[t].found = b
    BY <1>8 DEF GivenUp
  <2>3. GivenUp(b) \/ BatchPostingReversed(b)
    BY <1>5, <1>6, <2>1, <2>2
  <2> QED BY <1>3, <1>4, <1>8, <2>1, <2>3
<1> QED BY <1>8 DEF GivenUpAreUndone

LEMMA EffectInit == Init => EffectInv
<1> SUFFICES ASSUME Init PROVE EffectInv
  OBVIOUS
<1>1. /\ \A s \in Sessions : session[s].pc = "idle"
      /\ \A j \in Journals : journal[j] = Unwritten
      /\ DOMAIN batches = {}
  BY DEF Init, IdleSession
<1>2. \A r \in Reversals : journal[r].of = None
  BY <1>1 DEF Unwritten, Journals
<1>3. ASSUME NEW j \in Guarded PROVE Settled(j)
  <2>1. journal[j].status = "NONE" /\ journal[j].link = None
    BY <1>1 DEF Unwritten, Guarded, Journals
  <2>2. BatchesOf(j) = {} /\ PostedReversalsOf(j) = {}
    BY <1>1 DEF BatchesOf, PostedReversalsOf
  <2> QED BY <2>1, <2>2 DEF Settled
<1> QED BY <1>1, <1>2, <1>3, OnceInit
        DEF EffectInv, BatchesKeepKeys, MirrorsAreOfOriginals, NewAreAlone, NewIsAlone, PostsNew,
            ReversersHold, ReverserHolds, Reverses, AllSettled, GivenUpAreUndone

LEMMA EffectStep ==
  ASSUME KeysIdentify, ReversalsRest, EffectInv, [Next]_vars
  PROVE  EffectInv'
<1>1. Kept
  BY KeptStep DEF EffectInv, OnceInv, MirrorInv
<1>2. OnceInv'
  BY OnceStep DEF EffectInv
<1> QED BY <1>1, <1>2, BatchesKeepKeysStep, MirrorsAreOfOriginalsStep, NewAreAloneStep,
           ReversersHoldStep, AllSettledStep, GivenUpAreUndoneStep
        DEF EffectInv

-----------------------------------------------------------------------------
(* A journal's net effect.                                                 *)

\* Postings less mirrors, of an original: no reversal is reversed.
Net(j) ==
  IF BatchesOf(j) = {} THEN 0
  ELSE IF j \in Reversals THEN Cardinality(BatchesOf(j))
  ELSE Cardinality(BatchesOf(j)) - Cardinality(PostedReversalsOf(j))

LEMMA BatchesAreFinite ==
  ASSUME TypeInv, NEW j
  PROVE  IsFiniteSet(BatchesOf(j))
<1>1. DOMAIN batches = 1..Len(batches) /\ Len(batches) \in Nat
  BY LenProperties DEF TypeInv, Types
<1>2. IsFiniteSet(DOMAIN batches)
  BY <1>1, FS_Interval
<1>3. BatchesOf(j) \subseteq DOMAIN batches
  BY DEF BatchesOf
<1> QED BY <1>2, <1>3, FS_Subset

LEMMA PostedCount ==
  ASSUME TypeInv, NEW j, BatchesOf(j) # {}
  PROVE  Cardinality(BatchesOf(j)) \in Nat \ {0}
BY BatchesAreFinite, FS_CardinalityType, FS_EmptySet

LEMMA EffectIsNet ==
  ASSUME EffectInv, NEW j \in Journals
  PROVE  Effect[j] = Net(j)
<1> DEFINE Equation(f) == f = [i \in Journals |->
             IF BatchesOf(i) = {} THEN 0
             ELSE Cardinality(BatchesOf(i))
                    - Cardinality({r \in PostedReversalsOf(i) : f[r] > 0})]
           net == [i \in Journals |-> Net(i)]
<1>1. TypeInv
  BY DEF EffectInv, OnceInv, MirrorInv
<1>2. \A r \in Reversals : PostedReversalsOf(r) = {} /\ r \in Journals
  <2>1. \A r \in Reversals : r \notin Originals /\ r # None /\ r \in Journals
    BY DEF Journals
  <2> QED BY <2>1 DEF PostedReversalsOf, EffectInv, MirrorsAreOfOriginals
<1>3. ASSUME NEW f, Equation(f), NEW i \in Journals
      PROVE  f[i] = IF BatchesOf(i) = {} THEN 0
                    ELSE Cardinality(BatchesOf(i))
                           - Cardinality({r \in PostedReversalsOf(i) : f[r] > 0})
  BY <1>3
<1>4. ASSUME NEW f, \A r \in Reversals : f[r] = Net(r), NEW i \in Journals
      PROVE  (IF BatchesOf(i) = {} THEN 0
              ELSE Cardinality(BatchesOf(i))
                     - Cardinality({r \in PostedReversalsOf(i) : f[r] > 0})) = Net(i)
  <2>1. \A r \in PostedReversalsOf(i) : r \in Reversals /\ BatchesOf(r) # {}
    BY DEF PostedReversalsOf
  <2>2. \A r \in PostedReversalsOf(i) : f[r] \in Nat \ {0}
    BY <1>1, <1>4, <2>1, PostedCount DEF Net
  <2>3. {r \in PostedReversalsOf(i) : f[r] > 0} = PostedReversalsOf(i)
    BY <2>2
  <2>4. CASE i \in Reversals /\ BatchesOf(i) # {}
    <3>1. PostedReversalsOf(i) = {} /\ Cardinality({}) = 0
      BY <1>2, <2>4, FS_EmptySet
    <3>2. Cardinality(BatchesOf(i)) \in Nat
      BY <1>1, <2>4, PostedCount
    <3>3. Cardinality(BatchesOf(i)) - 0 = Cardinality(BatchesOf(i))
      BY <3>2
    <3> QED BY <2>3, <2>4, <3>1, <3>3 DEF Net
  <2> QED BY <2>3, <2>4 DEF Net
<1>5. Equation(net)
  <2>1. \A r \in Reversals : net[r] = Net(r)
    BY <1>2
  <2> HIDE DEF net
  <2>2. \A i \in Journals :
          (IF BatchesOf(i) = {} THEN 0
           ELSE Cardinality(BatchesOf(i))
                  - Cardinality({r \in PostedReversalsOf(i) : net[r] > 0})) = Net(i)
    BY <1>4, <2>1
  <2> QED BY <2>2 DEF net
<1>6. Equation(Effect)
  <2>1. Effect = CHOOSE f : Equation(f)
    BY DEF Effect
  <2> HIDE DEF Equation, net
  <2> QED BY <1>5, <2>1
<1>7. \A r \in Reversals : Effect[r] = Net(r)
  <2> SUFFICES ASSUME NEW r \in Reversals PROVE Effect[r] = Net(r)
    OBVIOUS
  <2>1. Effect[r] = IF BatchesOf(r) = {} THEN 0
                    ELSE Cardinality(BatchesOf(r))
                           - Cardinality({q \in PostedReversalsOf(r) : Effect[q] > 0})
    BY <1>2, <1>3, <1>6
  <2>2. {q \in PostedReversalsOf(r) : Effect[q] > 0} = {}
    BY <1>2
  <2>3. BatchesOf(r) # {} => Cardinality(BatchesOf(r)) - 0 = Cardinality(BatchesOf(r))
    BY <1>1, PostedCount
  <2> QED BY <2>1, <2>2, <2>3, FS_EmptySet DEF Net
<1>8. Effect[j] = IF BatchesOf(j) = {} THEN 0
                  ELSE Cardinality(BatchesOf(j))
                         - Cardinality({q \in PostedReversalsOf(j) : Effect[q] > 0})
  BY <1>3, <1>6
<1> QED BY <1>4, <1>7, <1>8

-----------------------------------------------------------------------------
(* What counts.                                                            *)

\* What a settled status says is what the ledger says, for any number of
\* journals, keys, requests and postings: of a journal whose reversers lock it,
\* the last posting of a POSTED one is in force, and that of a REVERSED one was
\* taken back by the reversal linked.
THEOREM StatusIsTheLedgers ==
  ASSUME KeysIdentify, ReversalsRest
  PROVE  Spec => []StatusTellsTheLedger
<1>1. EffectInv /\ [Next]_vars => EffectInv'
  BY EffectStep
<1>2. EffectInv => StatusTellsTheLedger
  <2> SUFFICES ASSUME EffectInv, NEW j \in Guarded
               PROVE  /\ journal[j].status = "POSTED" => /\ journal[j].batch \in BatchesOf(j)
                                                         /\ ~Undone(journal[j].batch)
                      /\ journal[j].status = "REVERSED" =>
                           /\ journal[j].batch \in BatchesOf(j)
                           /\ Undone(journal[j].batch)
                           /\ PostedReversalsOf(j) = {journal[j].link}
    BY DEF StatusTellsTheLedger
  <2> QED BY DEF EffectInv, AllSettled, Settled
<1> QED BY <1>1, <1>2, EffectInit, PTL DEF Spec

\* A posting that is in force has its key.
LEMMA InForceIsLive ==
  ASSUME EffectInv, NEW b \in InForce
  PROVE  ~batches[b].retired
BY DEF InForce, Guarded, EffectInv, GivenUpAreUndone, GivenUp, OnceInv, MirrorInv,
       RetiredKeysAreMirrored

LEMMA OneInForce ==
  ASSUME EffectInv, NEW b \in InForce, NEW c \in InForce, batches[b].key = batches[c].key
  PROVE  b = c
BY InForceIsLive DEF InForce, EffectInv, OnceInv, LiveKeysAreUnique

\* A reversal takes back one batch.
LEMMA OneUndone ==
  ASSUME EffectInv, NEW j \in Guarded,
         NEW b \in BatchesOf(j), NEW c \in BatchesOf(j), Undone(b), Undone(c)
  PROVE  b = c
<1>1. Settled(j) /\ TypeInv /\ batches[b].journal = j /\ batches[c].journal = j
  BY DEF EffectInv, AllSettled, OnceInv, MirrorInv, BatchesOf
<1>2. PICK q \in PostedReversalsOf(j) : \E x \in BatchesOf(q) :
        b < x /\ \A d \in BatchesOf(j) : b < d => x < d
  BY <1>1 DEF Undone
<1>3. PICK r \in PostedReversalsOf(j) : \E y \in BatchesOf(r) :
        c < y /\ \A d \in BatchesOf(j) : c < d => y < d
  BY <1>1 DEF Undone
<1>4. PICK x \in BatchesOf(q) : b < x /\ \A d \in BatchesOf(j) : b < d => x < d
  BY <1>2
<1>5. PICK y \in BatchesOf(r) : c < y /\ \A d \in BatchesOf(j) : c < d => y < d
  BY <1>3
<1>6. q = r /\ r \in Reversals
  BY <1>1 DEF Settled, PostedReversalsOf
<1>7. x = y
  BY <1>6, OneBatchOfReversal
<1>8. b \in Nat /\ c \in Nat /\ x \in Nat
  BY <1>1, BatchNumbers
<1> QED BY <1>4, <1>5, <1>7, <1>8

\* What is in force is what the ledger shows.
LEMMA EffectIsInForce ==
  ASSUME EffectInv, NEW j \in Originals, j \in Locked \/ PostedReversalsOf(j) = {}
  PROVE  Effect[j] = Cardinality({b \in InForce : batches[b].journal = j})
<1> DEFINE standing == {b \in BatchesOf(j) : ~Undone(b)}
<1>1. {b \in InForce : batches[b].journal = j} = standing
  BY DEF InForce, BatchesOf
<1>2. Effect[j] = IF BatchesOf(j) = {} THEN 0
                  ELSE Cardinality(BatchesOf(j)) - Cardinality(PostedReversalsOf(j))
  BY EffectIsNet DEF Net, Journals
<1>3. TypeInv
  BY DEF EffectInv, OnceInv, MirrorInv
<1>4. CASE PostedReversalsOf(j) = {}
  <2>1. standing = BatchesOf(j)
    BY <1>4 DEF Undone, BatchesOf
  <2>2. Cardinality({}) = 0
    BY FS_EmptySet
  <2>3. BatchesOf(j) # {} => Cardinality(BatchesOf(j)) \in Nat
    BY <1>3, PostedCount
  <2>4. BatchesOf(j) # {} => Cardinality(BatchesOf(j)) - 0 = Cardinality(BatchesOf(j))
    BY <2>3
  <2>5. Effect[j] = Cardinality(BatchesOf(j))
    BY <1>2, <1>4, <2>2, <2>4
  <2> QED BY <1>1, <2>1, <2>5
<1>5. CASE PostedReversalsOf(j) # {}
  <2>1. j \in Guarded /\ Settled(j)
    BY <1>5 DEF Guarded, EffectInv, AllSettled
  <2>2. PostedReversalsOf(j) = {journal[j].link} /\ \E b \in BatchesOf(j) : Undone(b)
    BY <1>5, <2>1 DEF Settled
  <2>3. PICK b \in BatchesOf(j) : Undone(b)
    BY <2>2
  <2>4. standing = BatchesOf(j) \ {b}
    BY <2>1, <2>3, OneUndone
  <2>5. Cardinality(BatchesOf(j) \ {b}) = Cardinality(BatchesOf(j)) - 1
    BY <1>3, <2>3, BatchesAreFinite, FS_RemoveElement
  <2>6. Cardinality(PostedReversalsOf(j)) = 1
    BY <2>2, FS_Singleton
  <2> QED BY <1>1, <1>2, <2>3, <2>4, <2>5, <2>6
<1> QED BY <1>4, <1>5

\* The idempotency key does what it is for, for any number of journals, keys,
\* requests and postings: one posting is in force under it, and what is in
\* force is what the ledger shows, for a journal that was never reversed, and
\* for ever when its reversers lock.
THEOREM OnePostingPerKey ==
  ASSUME KeysIdentify, ReversalsRest
  PROVE  Spec => []CountsOncePerKey
<1>1. EffectInv /\ [Next]_vars => EffectInv'
  BY EffectStep
<1>2. EffectInv => CountsOncePerKey
  BY OneInForce, EffectIsInForce DEF CountsOncePerKey
<1> QED BY <1>1, <1>2, EffectInit, PTL DEF Spec

-----------------------------------------------------------------------------
(* The ledger implements DocumentLedger.                                   *)

Standing(j) == {b \in BatchesOf(j) : ~Undone(b)}

\* What DocumentLedger sees of a journal, and of all that are guarded.
Counting(j) == {<<j, batches[b].key>> : b \in Standing(j)}

Counts == {<<batches[b].journal, batches[b].key>> :
             b \in {c \in InForce : batches[c].journal \in Guarded}}

Mirrored == {j \in Guarded : PostedReversalsOf(j) # {}}

LEMMA CountsByJournal ==
  /\ Counts = UNION {Counting(j) : j \in Guarded}
  /\ Counts' = UNION {Counting(j)' : j \in Guarded}
<1>1. Counts = UNION {Counting(j) : j \in Guarded}
  BY DEF Counts, Counting, Standing, InForce, BatchesOf, Guarded
<1>2. Counts' = UNION {Counting(j)' : j \in Guarded}
  BY DEF Counts, Counting, Standing, InForce, BatchesOf, Guarded
<1> QED BY <1>1, <1>2

\* A journal whose batches and mirrors stay counts as before.
LEMMA CountingStays ==
  ASSUME TypeInv, Kept, NEW j \in Guarded,
         BatchesOf(j)' = BatchesOf(j),
         PostedReversalsOf(j)' = PostedReversalsOf(j),
         \A r \in PostedReversalsOf(j) : BatchesOf(r)' = BatchesOf(r)
  PROVE  Counting(j)' = Counting(j)
<1>1. \A b \in BatchesOf(j) : Undone(b)' <=> Undone(b)
  BY UndoneStays
<1>2. Standing(j)' = Standing(j)
  BY <1>1 DEF Standing
<1>3. \A b \in Standing(j) : batches'[b].key = batches[b].key
  BY DEF Standing, BatchesOf, Kept
<1> QED BY <1>2, <1>3 DEF Counting

LEMMA StutterRefines ==
  ASSUME TypeInv, Kept,
         \A j \in Guarded : /\ BatchesOf(j)' = BatchesOf(j)
                            /\ PostedReversalsOf(j)' = PostedReversalsOf(j)
                            /\ \A r \in PostedReversalsOf(j) : BatchesOf(r)' = BatchesOf(r)
  PROVE  UNCHANGED Documents!vars
<1>1. \A j \in Guarded : Counting(j)' = Counting(j)
  BY CountingStays
<1>2. Counts' = Counts
  BY <1>1, CountsByJournal
<1>3. Mirrored' = Mirrored
  BY DEF Mirrored
<1> QED BY <1>2, <1>3 DEF Documents!vars, Counts, Mirrored

LEMMA PostRefines ==
  ASSUME ReversalsRest, EffectInv, Kept, NEW s \in Sessions, CommitPost(s)
  PROVE  [Documents!Next]_(Documents!vars)
<1>1. TypeInv
  BY DEF EffectInv, OnceInv, MirrorInv
<1>2. PICK n : n = Len(batches) + 1
  OBVIOUS
<1>3. \A q : /\ PostedReversalsOf(q)' = PostedReversalsOf(q)
             /\ \A r \in PostedReversalsOf(q) : BatchesOf(r)' = BatchesOf(r)
             /\ q # session[s].j => BatchesOf(q)' = BatchesOf(q)
             /\ q = session[s].j => BatchesOf(q)' = BatchesOf(q) \cup {n}
  BY <1>2, PostMoves
<1>4. CASE session[s].j \notin Guarded
  BY <1>1, <1>3, <1>4, StutterRefines
<1>5. CASE session[s].j \in Guarded
  <2>1. PICK j \in Guarded : j = session[s].j
    BY <1>5
  <2>2. PICK k : k = session[s].key
    OBVIOUS
  <2>3. /\ n \in DOMAIN batches' /\ n \notin DOMAIN batches
        /\ batches'[n].key = k
        /\ k \in KeysOf[j]
    BY <1>1, <1>2, <2>1, <2>2, BatchAppended, NewBatchIsNew DEF EffectInv, OnceInv
  <2>4. Standing(j)' = Standing(j) \cup {n}
    <3>1. \A b \in BatchesOf(j) : Undone(b)' <=> Undone(b)
      BY <1>1, <1>2, <1>3, <2>1, UndoneStays
    <3>2. ~Undone(n)'
      BY <1>1, <2>3, NewIsInForce
    <3> QED BY <1>3, <2>1, <3>1, <3>2 DEF Standing
  <2>5. \A b \in Standing(j) : batches'[b].key = batches[b].key
    BY DEF Standing, BatchesOf, Kept
  <2>6. Counting(j)' = Counting(j) \cup {<<j, k>>}
    BY <2>3, <2>4, <2>5 DEF Counting
  <2>7. \A q \in Guarded \ {j} : Counting(q)' = Counting(q)
    BY <1>1, <1>3, <2>1, CountingStays
  <2>8. Counts' = Counts \cup {<<j, k>>}
    <3>1. \A q \in Guarded : Counting(q)' = Counting(q) \cup (IF q = j THEN {<<j, k>>} ELSE {})
      BY <2>6, <2>7
    <3> QED BY <3>1, CountsByJournal
  <2>9. \A i \in Guarded : <<i, k>> \notin Counts
    <3> SUFFICES ASSUME NEW i \in Guarded, <<i, k>> \in Counts PROVE FALSE
      OBVIOUS
    <3>1. PICK b \in InForce : batches[b].journal \in Guarded /\ batches[b].key = k
      BY DEF Counts
    <3>2. b \in DOMAIN batches /\ ~Undone(b) /\ ~batches[b].retired
      BY <3>1, InForceIsLive DEF InForce
    <3>3. b = session[s].found
      BY <2>2, <3>1, <3>2 DEF CommitPost, KeyIsFree, LiveBatch
    <3> QED BY <3>1, <3>2, <3>3 DEF EffectInv, GivenUpAreUndone, GivenUp
  <2>10. Mirrored' = Mirrored
    BY <1>3 DEF Mirrored
  <2>11. Documents!Post(j, k)
    BY <2>8, <2>9, <2>10 DEF Documents!Post, Counts, Mirrored
  <2> QED BY <2>3, <2>11 DEF Documents!Next
<1> QED BY <1>4, <1>5

LEMMA ReverseRefines ==
  ASSUME EffectInv, Kept, NEW s \in Sessions, CommitReverse(s)
  PROVE  [Documents!Next]_(Documents!vars)
<1>1. TypeInv
  BY DEF EffectInv, OnceInv, MirrorInv
<1>2. ASSUME NEW q \in Guarded
      PROVE  /\ BatchesOf(q)' = BatchesOf(q)
             /\ q # session[s].j => PostedReversalsOf(q)' = PostedReversalsOf(q)
             /\ \A r \in PostedReversalsOf(q) : BatchesOf(r)' = BatchesOf(r)
  <2>1. q \in Originals
    BY DEF Guarded
  <2>2. BatchesOf(q)' = BatchesOf(q)
    BY <2>1, ReverseMoves
  <2>3. q # session[s].j => PostedReversalsOf(q)' = PostedReversalsOf(q)
    BY <2>1, ReverseMoves
  <2>4. \A r \in PostedReversalsOf(q) : BatchesOf(r)' = BatchesOf(r)
    BY ReverseMoves DEF PostedReversalsOf
  <2> QED BY <2>2, <2>3, <2>4
<1>3. CASE session[s].j \notin Guarded
  BY <1>1, <1>2, <1>3, StutterRefines
<1>4. CASE session[s].j \in Guarded
  <2>1. PICK j \in Guarded : j = session[s].j
    BY <1>4
  <2>2. /\ PostedReversalsOf(j) = {}
        /\ \E b \in BatchesOf(j) : ~Undone(b) /\ \A d \in BatchesOf(j) : Undone(d)' <=> d = b
    BY <2>1, ReverseUndoes
  <2>3. PICK b \in BatchesOf(j) : ~Undone(b) /\ \A d \in BatchesOf(j) : Undone(d)' <=> d = b
    BY <2>2
  <2>4. PICK k : k = batches[b].key
    OBVIOUS
  <2>5. Standing(j) = BatchesOf(j) /\ Standing(j)' = BatchesOf(j) \ {b}
    <3>1. \A d \in BatchesOf(j) : ~Undone(d)
      BY <2>2 DEF Undone, BatchesOf
    <3> QED BY <1>2, <2>3, <3>1 DEF Standing
  <2>6. \A d \in BatchesOf(j) : batches'[d].key = batches[d].key
    BY DEF BatchesOf, Kept
  <2>7. \A d \in BatchesOf(j) : batches[d].key = k => d = b
    <3>1. \A d \in BatchesOf(j) : d \in InForce
      BY <2>5 DEF Standing, InForce, BatchesOf, Guarded
    <3> QED BY <2>4, <3>1, OneInForce
  <2>8. Counting(j)' = Counting(j) \ {<<j, k>>} /\ <<j, k>> \in Counting(j)
    BY <2>4, <2>5, <2>6, <2>7 DEF Counting
  <2>9. \A q \in Guarded \ {j} : Counting(q)' = Counting(q) /\ <<j, k>> \notin Counting(q)
    <3>1. \A q \in Guarded \ {j} : Counting(q)' = Counting(q)
      BY <1>1, <1>2, <2>1, CountingStays
    <3> QED BY <3>1 DEF Counting
  <2>10. Counts' = Counts \ {<<j, k>>} /\ <<j, k>> \in Counts
    <3>1. \A q \in Guarded : Counting(q)' = Counting(q) \ {<<j, k>>}
      BY <2>8, <2>9
    <3> QED BY <2>8, <3>1, CountsByJournal
  <2>11. Mirrored' = Mirrored \cup {j} /\ j \notin Mirrored
    <3>1. PostedReversalsOf(j)' # {}
      BY <2>1, ReverseMoves DEF Guarded
    <3> QED BY <1>2, <2>1, <2>2, <3>1 DEF Mirrored
  <2>12. k \in KeysOf[j]
    BY <2>4 DEF BatchesOf, Guarded, EffectInv, BatchesKeepKeys
  <2>13. Documents!Reverse(j, k)
    BY <2>10, <2>11 DEF Documents!Reverse, Counts, Mirrored
  <2> QED BY <2>12, <2>13 DEF Documents!Next
<1> QED BY <1>3, <1>4

LEMMA StepRefines ==
  ASSUME ReversalsRest, EffectInv, [Next]_vars
  PROVE  [Documents!Next]_(Documents!vars)
<1>1. TypeInv /\ Kept
  BY KeptStep DEF EffectInv, OnceInv, MirrorInv
<1>2. CASE UNCHANGED <<journal, batches>>
  BY <1>1, <1>2, StutterRefines DEF BatchesOf, PostedReversalsOf
<1>3. ASSUME NEW j \in Journals, NEW status \in Statuses, Restated(j, status)
      PROVE  UNCHANGED Documents!vars
  <2>1. \A q : BatchesOf(q)' = BatchesOf(q)
    BY <1>3 DEF Restated, BatchesOf
  <2>2. \A r \in Journals : journal'[r].of = journal[r].of
    BY <1>1, <1>3, Restatus DEF Restated, TypeInv
  <2>3. \A q : PostedReversalsOf(q)' = PostedReversalsOf(q)
    BY <2>1, <2>2, MirrorsKept DEF Journals
  <2> QED BY <1>1, <2>1, <2>3, StutterRefines
<1>4. ASSUME NEW s \in Sessions, ReplayReverse(s) PROVE UNCHANGED Documents!vars
  BY <1>1, <1>4, ReplayMoves, StutterRefines
<1>5. ASSUME NEW s \in Sessions, Posts(s) PROVE [Documents!Next]_(Documents!vars)
  BY <1>1, <1>4, <1>5, PostRefines, ReverseRefines DEF Posts
<1> QED BY <1>1, <1>2, <1>3, <1>5, LedgerMoves

\* Overlapping requests take effect on the journals whose reversers lock as if
\* they came one at a time: a posting only where nothing counts under its key,
\* a reversal only where its journal counts and was not reversed before.
THEOREM LedgerImplementsDocuments ==
  ASSUME KeysIdentify, ReversalsRest
  PROVE  Spec => ImplementsDocuments
<1>1. Init => Documents!Init
  <2> SUFFICES ASSUME Init PROVE Documents!Init
    OBVIOUS
  <2>1. DOMAIN batches = {}
    BY DEF Init
  <2>2. \A q : PostedReversalsOf(q) = {}
    BY <2>1 DEF BatchesOf, PostedReversalsOf
  <2> QED BY <2>1, <2>2 DEF Documents!Init, InForce
<1>2. EffectInv /\ [Next]_vars => EffectInv'
  BY EffectStep
<1>3. EffectInv /\ [Next]_vars => [Documents!Next]_(Documents!vars)
  BY StepRefines
<1> QED BY <1>1, <1>2, <1>3, EffectInit, PTL DEF Spec, ImplementsDocuments, Documents!Spec

=============================================================================
