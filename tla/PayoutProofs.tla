---------------------------- MODULE PayoutProofs ----------------------------
(***************************************************************************)
(* Proofs about payouts, for any number of sessions, intents and polls.    *)
(***************************************************************************)
EXTENDS PayoutProperties, FiniteSetTheorems, TLAPS

USE PayoutConstants DEF Ids

\* Intents are opened one after the other, and asked for once they are open.
Numbered == \E n \in 0..MaxIntents :
  \A i \in Ids : intent[i].status = "NONE" <=> i > n

AskedFor == \A i \in Ids : transfer[i] # "none" => intent[i].status # "NONE"

HoldsRow(s) == session[s].pc \in {"sent", "polling"}

Locks == \A s, t \in Sessions :
  HoldsRow(s) /\ HoldsRow(t) /\ session[s].i = session[t].i => s = t

\* What was said of a transfer stays true of it.
Told(says, i) ==
  /\ says = "success" => transfer[i] \in {"success", "reversed"}
  /\ says = "failed" => transfer[i] = "failed"
  /\ says = "reversed" => transfer[i] = "reversed"

\* What a session that is at work may rely on.
Relies(s) == LET i == session[s].i IN
  /\ session[s].pc \in {"sent", "polling", "hearing", "resetting"} =>
       i \in Ids /\ intent[i].status # "NONE"
  /\ session[s].pc = "sent" => intent[i].status = "PENDING"
  /\ session[s].pc = "polling" =>
       \/ intent[i].status = "INDETERMINATE"
       \/ /\ intent[i].status = "PROCESSING"
          /\ intent[i].polls < MaxPolls
  /\ session[s].pc \in {"polling", "hearing"} => Told(session[s].says, i)
  /\ session[s].pc = "hearing" => session[s].says \in Verdicts
  /\ session[s].pc = "opening" /\ i # 0 => i \in Ids /\ intent[i].status # "NONE"
  /\ session[s].pc \in {"opening", "resetting"} => session[s].seen # "INDETERMINATE"

Orderly == Numbered /\ AskedFor /\ Locks /\ (\A s \in Sessions : Relies(s))

IInv == TypeOK /\ VerdictsAreTrue /\ Orderly

-----------------------------------------------------------------------------
(* What a step may do to rows, transfers and sessions that are not its own. *)

\* Only the rows in W are written, and no row is unwritten.
Writes(W) ==
  /\ intent' \in [Ids -> Rows]
  /\ \A i \in Ids \ W : /\ intent'[i].status = intent[i].status
                        /\ intent'[i].polls = intent[i].polls
                        /\ intent'[i].misread = intent[i].misread
  /\ \A i \in Ids : intent[i].status # "NONE" => intent'[i].status # "NONE"

\* Transfers move on, and only of open intents.
Moves ==
  /\ transfer' \in [Ids -> TransferStates]
  /\ \A i \in Ids :
       /\ transfer[i] = "success" => transfer'[i] \in {"success", "reversed"}
       /\ transfer[i] = "failed" => transfer'[i] = "failed"
       /\ transfer[i] = "reversed" => transfer'[i] = "reversed"
       /\ transfer[i] \notin {"none", "adrift"} => transfer'[i] \notin {"none", "adrift"}
       /\ transfer[i] = "none" /\ intent[i].status # "PENDING" => transfer'[i] = "none"
       /\ transfer'[i] # "none" => intent[i].status # "NONE"

Others(s) ==
  /\ session' \in [Sessions -> Reads]
  /\ \A t \in Sessions \ {s} : session'[t] = session[t]

LEMMA OthersRely ==
  ASSUME IInv, NEW W, NEW t \in Sessions, Writes(W), Moves,
         session'[t] = session[t], HoldsRow(t) => session[t].i \notin W
  PROVE  Relies(t)'
<1>1. Relies(t)
  BY DEF IInv, Orderly
<1>2. CASE session[t].pc \in {"sent", "polling", "hearing", "resetting"}
  <2>1. session[t].i \in Ids /\ intent[session[t].i].status # "NONE"
    BY <1>1, <1>2 DEF Relies
  <2>2. intent'[session[t].i].status # "NONE"
    BY <2>1 DEF Writes
  <2>3. HoldsRow(t) => /\ intent'[session[t].i].status = intent[session[t].i].status
                       /\ intent'[session[t].i].polls = intent[session[t].i].polls
    BY <2>1 DEF Writes
  <2>4. Told(session[t].says, session[t].i) => Told(session[t].says, session[t].i)'
    BY <1>1, <2>1 DEF Moves, Told
  <2> QED BY <1>1, <2>1, <2>2, <2>3, <2>4 DEF Relies, HoldsRow
<1>3. CASE session[t].pc = "opening" /\ session[t].i # 0
  <2>1. session[t].i \in Ids /\ intent'[session[t].i].status # "NONE"
    BY <1>1, <1>3 DEF Relies, Writes
  <2> QED BY <1>1, <1>3, <2>1 DEF Relies
<1>4. CASE /\ session[t].pc \notin {"sent", "polling", "hearing", "resetting"}
           /\ ~(session[t].pc = "opening" /\ session[t].i # 0)
  BY <1>1, <1>4 DEF Relies
<1> QED BY <1>2, <1>3, <1>4

\* A session that takes up work keeps the locks when the row it takes is free.
LEMMA LocksKept ==
  ASSUME IInv, NEW s \in Sessions, Others(s),
         HoldsRow(s)' => \A t \in Sessions \ {s} :
           HoldsRow(t) => session[t].i # session'[s].i
  PROVE  Locks'
<1>1. \A t \in Sessions \ {s} : session'[t] = session[t]
  BY DEF Others
<1>2. Locks
  BY DEF IInv, Orderly
<1> QED BY <1>1, <1>2 DEF Locks, HoldsRow

\* Intents stay numbered when none is opened.
LEMMA NumberedKept ==
  ASSUME IInv, \A i \in Ids : intent'[i].status = "NONE" <=> intent[i].status = "NONE"
  PROVE  Numbered'
BY DEF IInv, Orderly, Numbered

LEMMA HowManyOpened ==
  ASSUME IInv
  PROVE  /\ Cardinality(Opened) \in 0..MaxIntents
         /\ \A i \in Ids : intent[i].status = "NONE" <=> i > Cardinality(Opened)
<1>1. PICK n \in 0..MaxIntents : \A i \in Ids : intent[i].status = "NONE" <=> i > n
  BY DEF IInv, Orderly, Numbered
<1>2. Opened = 1..n
  BY <1>1 DEF Opened
<1>3. Cardinality(1..n) = n
  BY FS_Interval, 1 \in Int, n \in Int
<1> QED BY <1>1, <1>2, <1>3

LEMMA VerdictsKept ==
  ASSUME IInv, NEW W, Writes(W), Moves, \A i \in Ids \cap W : VerdictIsTrue(i)'
  PROVE  VerdictsAreTrue'
<1> SUFFICES ASSUME NEW i \in Ids \ W
             PROVE  VerdictIsTrue(i)'
  BY DEF VerdictsAreTrue
<1>1. VerdictIsTrue(i)
  BY DEF IInv, VerdictsAreTrue
<1> QED BY <1>1 DEF VerdictIsTrue, Writes, Moves

\* Only intents in W may be given up.
LEMMA OthersKept ==
  ASSUME NEW W, Writes(W), NEW i \in Ids \ W
  PROVE  ~GivesUp(i)
BY DEF Writes, GivesUp

LEMMA AskedForKept ==
  ASSUME NEW W, Writes(W), Moves
  PROVE  AskedFor'
BY DEF Writes, Moves, AskedFor

-----------------------------------------------------------------------------
(* The two shapes of a step: a session's, and one from outside.            *)

LEMMA SessionKeeps ==
  ASSUME IInv, NEW s \in Sessions, NEW W, Writes(W), Moves, Others(s),
         \A t \in Sessions \ {s} : HoldsRow(t) => session[t].i \notin W,
         HoldsRow(s)' => \A t \in Sessions \ {s} :
           HoldsRow(t) => session[t].i # session'[s].i,
         Relies(s)', Numbered'
  PROVE  Orderly'
<1>1. Locks'
  BY LocksKept
<1>2. AskedFor'
  BY AskedForKept
<1>3. ASSUME NEW t \in Sessions
      PROVE  Relies(t)'
  <2>1. CASE t # s
    <3>1. session'[t] = session[t] /\ (HoldsRow(t) => session[t].i \notin W)
      BY <2>1 DEF Others
    <3> QED BY <3>1, OthersRely
  <2> QED BY <2>1
<1> QED BY <1>1, <1>2, <1>3 DEF Orderly

LEMMA OutsideKeeps ==
  ASSUME IInv, NEW W, Writes(W), Moves, UNCHANGED session,
         \A t \in Sessions : HoldsRow(t) => session[t].i \notin W, Numbered'
  PROVE  Orderly'
<1>1. Locks'
  BY DEF IInv, Orderly, Locks, HoldsRow
<1>2. AskedFor'
  BY AskedForKept
<1>3. ASSUME NEW t \in Sessions
      PROVE  Relies(t)'
  <2>1. session'[t] = session[t]
    OBVIOUS
  <2> QED BY <2>1, OthersRely
<1> QED BY <1>1, <1>2, <1>3 DEF Orderly

\* Nothing is written.
LEMMA NothingWritten ==
  ASSUME IInv, UNCHANGED intent
  PROVE  Writes({}) /\ Numbered'
<1>1. intent \in [Ids -> Rows] /\ Numbered
  BY DEF IInv, TypeOK, Orderly
<1> QED BY <1>1 DEF Writes, Numbered

LEMMA NothingMoved ==
  ASSUME IInv, UNCHANGED transfer
  PROVE  Moves
BY DEF IInv, TypeOK, Orderly, AskedFor, Moves

LEMMA StatusSet ==
  ASSUME IInv, NEW i \in Ids, NEW status \in Statuses \ {"NONE"},
         intent[i].status # "NONE", SetStatus(i, status)
  PROVE  /\ Writes({i})
         /\ Numbered'
         /\ intent'[i].status = status
         /\ intent'[i].polls = intent[i].polls
         /\ intent'[i].misread = intent[i].misread
<1>1. intent \in [Ids -> Rows] /\ intent[i] \in Rows
  BY DEF IInv, TypeOK
<1>2. intent' = [intent EXCEPT ![i].status = status]
  BY DEF SetStatus
<1>3. intent'[i] = [intent[i] EXCEPT !.status = status]
  BY <1>1, <1>2
<1>4. /\ intent'[i] \in Rows
      /\ intent'[i].status = status
      /\ intent'[i].polls = intent[i].polls
      /\ intent'[i].misread = intent[i].misread
  BY <1>1, <1>3 DEF Rows
<1>5. \A k \in Ids \ {i} : intent'[k] = intent[k]
  BY <1>1, <1>2
<1>6. Writes({i})
  <2>1. intent' \in [Ids -> Rows]
    BY <1>1, <1>2, <1>4, <1>5
  <2> QED BY <1>4, <1>5, <2>1 DEF Writes
<1>7. Numbered'
  BY <1>4, <1>5, NumberedKept
<1> QED BY <1>4, <1>6, <1>7

LEMMA Starting ==
  ASSUME IInv, NEW s \in Sessions, NEW read \in Reads, Start(s, read)
  PROVE  Others(s) /\ session'[s] = read
BY DEF IInv, TypeOK, Start, Others

LEMMA IdleReads ==
  /\ IdleSession \in Reads
  /\ IdleSession.pc = "idle"
  /\ IdleSession.seen = "NONE"
BY DEF IdleSession, Reads, Statuses, TransferStates

LEMMA Ending ==
  ASSUME IInv, NEW s \in Sessions, End(s)
  PROVE  Others(s) /\ session'[s].pc = "idle" /\ Relies(s)'
<1>1. Others(s) /\ session'[s] = IdleSession
  BY IdleReads DEF IInv, TypeOK, End, Others
<1> QED BY <1>1, IdleReads DEF Relies
-----------------------------------------------------------------------------
(* What is written of the claim.                                           *)

LEMMA Recording ==
  ASSUME IInv, NEW happened, NEW mishap \in Mishaps, Record(happened, mishap)
  PROVE  mishaps' \subseteq Mishaps
BY DEF IInv, TypeOK, Record

LEMMA Marking ==
  ASSUME IInv
  PROVE  Marked \in Claims
<1>1. claim \in Claims
  BY DEF IInv, TypeOK
<1>2. [claim EXCEPT !.status = "PAID", !.marked = TRUE] \in Claims
  BY <1>1 DEF Claims
<1> QED BY <1>1, <1>2 DEF Marked

LEMMA Completing ==
  ASSUME IInv, NEW i \in Ids, Complete(i)
  PROVE  /\ SetStatus(i, "COMPLETED")
         /\ claim' \in Claims
         /\ mishaps' \subseteq Mishaps
<1>1. SetStatus(i, "COMPLETED") /\ claim' = Marked
  BY DEF Complete
<1>2. Record(Marked.status # "PAID", "unmarked")
  BY DEF Complete
<1>3. "unmarked" \in Mishaps
  BY DEF Mishaps
<1>4. mishaps' \subseteq Mishaps
  BY <1>2, <1>3, Recording
<1> QED BY <1>1, <1>4, Marking

LEMMA Reverting ==
  ASSUME IInv, NEW i \in Ids, NEW paid \in BOOLEAN, Revert(i, paid)
  PROVE  claim' \in Claims /\ mishaps' \subseteq Mishaps
<1>1. claim \in Claims /\ mishaps \subseteq Mishaps
  BY DEF IInv, TypeOK
<1>2. [claim EXCEPT !.status = "APPROVED"] \in Claims
  BY <1>1 DEF Claims
<1>3. claim' \in Claims
  BY <1>1, <1>2 DEF Revert
<1>4. "reverted" \in Mishaps /\ "not reverted" \in Mishaps
  BY DEF Mishaps
<1>5. mishaps' \subseteq Mishaps
  BY <1>1, <1>4 DEF Revert
<1> QED BY <1>3, <1>5

LEMMA Types ==
  ASSUME claim' \in Claims, NEW W, Writes(W), Moves, heard' \subseteq Ids \X Verdicts,
         session' \in [Sessions -> Reads], mishaps' \subseteq Mishaps
  PROVE  TypeOK'
BY DEF TypeOK, Writes, Moves

UnknownStep == \A i \in Ids : GivesUp(i) => \E s \in Sessions : ReadBefore(s, i)

\* What every step of the program does.
Kept == IInv' /\ UnknownStep

\* A step that writes no row.
LEMMA ReadingKeeps ==
  ASSUME IInv, NEW s \in Sessions, NEW read \in Reads, Start(s, read), Moves,
         UNCHANGED <<claim, intent, heard, mishaps>>, Relies(s)',
         read.pc \in {"sent", "polling"} => RowFree(read.i)
  PROVE  Kept
<1>1. Others(s) /\ session'[s] = read
  BY Starting
<1>2. Writes({}) /\ Numbered'
  BY NothingWritten
<1>3. HoldsRow(s)' => \A t \in Sessions \ {s} : HoldsRow(t) => session[t].i # session'[s].i
  BY <1>1 DEF HoldsRow, RowFree
<1>4. Orderly'
  BY <1>1, <1>2, <1>3, SessionKeeps
<1>5. VerdictsAreTrue'
  BY <1>2, VerdictsKept
<1>6. TypeOK'
  <2>1. claim' \in Claims /\ heard' \subseteq Ids \X Verdicts /\ mishaps' \subseteq Mishaps
    BY DEF IInv, TypeOK
  <2>2. session' \in [Sessions -> Reads]
    BY <1>1 DEF Others
  <2> QED BY <1>2, <2>1, <2>2, Types
<1>7. UnknownStep
  BY <1>2, OthersKept DEF UnknownStep
<1> QED BY <1>4, <1>5, <1>6, <1>7 DEF Kept, IInv

\* A step by which a session writes its row, which no other session holds.
LEMMA WritingKeeps ==
  ASSUME IInv, NEW s \in Sessions, NEW i \in Ids, Writes({i}), Numbered', Moves, End(s),
         \A t \in Sessions \ {s} : HoldsRow(t) => session[t].i # i,
         VerdictIsTrue(i)', claim' \in Claims, heard' \subseteq Ids \X Verdicts,
         mishaps' \subseteq Mishaps,
         GivesUp(i) => \E t \in Sessions : ReadBefore(t, i)
  PROVE  Kept
<1>1. Others(s) /\ session'[s].pc = "idle" /\ Relies(s)'
  BY Ending
<1>2. ~HoldsRow(s)'
  BY <1>1 DEF HoldsRow
<1>3. \A t \in Sessions \ {s} : HoldsRow(t) => session[t].i \notin {i}
  OBVIOUS
<1>4. Orderly'
  BY <1>1, <1>2, <1>3, SessionKeeps
<1>5. VerdictsAreTrue'
  BY VerdictsKept
<1>6. TypeOK'
  <2>1. session' \in [Sessions -> Reads]
    BY <1>1 DEF Others
  <2> QED BY <2>1, Types
<1>7. UnknownStep
  BY OthersKept DEF UnknownStep
<1> QED BY <1>4, <1>5, <1>6, <1>7 DEF Kept, IInv

\* A step outside of the sessions.
LEMMA OutsideStepKeeps ==
  ASSUME IInv, NEW W, Writes(W), Numbered', Moves, UNCHANGED <<heard, session>>,
         \A t \in Sessions : HoldsRow(t) => session[t].i \notin W,
         \A i \in Ids \cap W : VerdictIsTrue(i)' /\ ~GivesUp(i),
         claim' \in Claims, mishaps' \subseteq Mishaps
  PROVE  Kept
<1>1. Orderly'
  BY OutsideKeeps
<1>2. VerdictsAreTrue'
  BY VerdictsKept
<1>3. TypeOK'
  <2>1. session' \in [Sessions -> Reads] /\ heard' \subseteq Ids \X Verdicts
    BY DEF IInv, TypeOK
  <2> QED BY <2>1, Types
<1>4. UnknownStep
  BY OthersKept DEF UnknownStep
<1> QED BY <1>1, <1>2, <1>3, <1>4 DEF Kept, IInv
-----------------------------------------------------------------------------
(* Steps that read.                                                        *)

LEMMA RollBackKeeps ==
  ASSUME IInv, NEW s \in Sessions, RollBack(s)
  PROVE  Kept
<1>1. End(s) /\ UNCHANGED <<claim, intent, transfer, heard, mishaps>>
  BY DEF RollBack
<1>2. Others(s) /\ session'[s].pc = "idle" /\ Relies(s)'
  BY <1>1, Ending
<1>3. Writes({}) /\ Numbered' /\ Moves
  BY <1>1, NothingWritten, NothingMoved
<1>4. ~HoldsRow(s)'
  BY <1>2 DEF HoldsRow
<1>5. Orderly'
  BY <1>2, <1>3, <1>4, SessionKeeps
<1>6. VerdictsAreTrue'
  BY <1>3, VerdictsKept
<1>7. TypeOK'
  <2>1. /\ claim' \in Claims /\ heard' \subseteq Ids \X Verdicts /\ mishaps' \subseteq Mishaps
        /\ session' \in [Sessions -> Reads]
    BY <1>1, <1>2 DEF IInv, TypeOK, Others
  <2> QED BY <1>3, <2>1, Types
<1>8. UnknownStep
  BY <1>3, OthersKept DEF UnknownStep
<1> QED BY <1>5, <1>6, <1>7, <1>8 DEF Kept, IInv

LEMMA CheckIntentsKeeps ==
  ASSUME IInv, NEW s \in Sessions, CheckIntents(s)
  PROVE  Kept
<1> DEFINE read(i) == [IdleSession EXCEPT !.pc = "opening", !.i = i,
                         !.known = Cardinality(Opened)]
<1>1. PICK i \in With({"PENDING", "PROCESSING"}) \cup {0} : Start(s, read(i))
  BY DEF CheckIntents
<1>2. UNCHANGED <<claim, intent, transfer, heard, mishaps>>
  BY DEF CheckIntents
<1>3. i \in 0..MaxIntents
  BY DEF With
<1>4. Cardinality(Opened) \in 0..MaxIntents
  BY HowManyOpened
<1>5. /\ read(i) \in Reads
      /\ read(i).pc = "opening" /\ read(i).i = i /\ read(i).seen = "NONE"
  BY <1>3, <1>4 DEF IdleSession, Reads, Statuses, TransferStates
<1> HIDE DEF read
<1>6. session'[s] = read(i)
  BY <1>1, <1>5, Starting
<1>7. Relies(s)'
  <2>1. i # 0 => i \in Ids /\ intent'[i].status # "NONE"
    BY <1>2 DEF With
  <2> QED BY <1>5, <1>6, <2>1 DEF Relies
<1> QED BY <1>1, <1>2, <1>5, <1>7, NothingMoved, ReadingKeeps

LEMMA SendKeeps ==
  ASSUME IInv, NEW s \in Sessions, NEW i \in Ids, Send(s, i)
  PROVE  Kept
<1> DEFINE read == [IdleSession EXCEPT !.pc = "sent", !.i = i, !.says = transfer[i]]
<1>1. /\ Start(s, read)
      /\ UNCHANGED <<claim, intent, heard, mishaps>>
      /\ intent[i].status = "PENDING"
      /\ RowFree(i)
  BY DEF Send
<1>2. transfer' = [transfer EXCEPT ![i] = IF @ = "none" THEN "adrift" ELSE @]
  BY DEF Send
<1>3. read \in Reads /\ read.pc = "sent" /\ read.i = i
  <2>1. i \in 0..MaxIntents /\ transfer[i] \in TransferStates
    BY DEF IInv, TypeOK
  <2> QED BY <2>1, IdleReads DEF Reads
<1> HIDE DEF read
<1>4. session'[s] = read
  BY <1>1, <1>3, Starting
<1>5. Moves
  <2>1. transfer \in [Ids -> TransferStates] /\ AskedFor
    BY DEF IInv, TypeOK, Orderly
  <2>2. transfer' \in [Ids -> TransferStates]
    BY <1>2, <2>1 DEF TransferStates
  <2> QED BY <1>1, <1>2, <2>1, <2>2 DEF Moves, AskedFor
<1>6. Relies(s)'
  BY <1>1, <1>3, <1>4 DEF Relies
<1> QED BY <1>1, <1>3, <1>5, <1>6, ReadingKeeps

LEMMA PollKeeps ==
  ASSUME IInv, NEW s \in Sessions, NEW i \in Ids, NEW says, Poll(s, i, says)
  PROVE  Kept
<1> DEFINE read == [IdleSession EXCEPT !.pc = "polling", !.i = i, !.says = says]
<1>1. /\ Start(s, read)
      /\ UNCHANGED <<claim, intent, transfer, heard, mishaps>>
      /\ RowFree(i)
  BY DEF Poll
<1>2. \/ intent[i].status = "PROCESSING" /\ intent[i].polls < MaxPolls
      \/ intent[i].status = "INDETERMINATE"
  BY DEF Poll
<1>3. transfer[i] \in TransferStates
  BY DEF IInv, TypeOK
<1>4. says \in TransferStates \cup {"refused", "unreachable"} /\ Told(says, i)
  BY <1>3 DEF Poll, Answers, Told
<1>5. read \in Reads /\ read.pc = "polling" /\ read.i = i /\ read.says = says
  <2>1. i \in 0..MaxIntents
    OBVIOUS
  <2> QED BY <1>4, <2>1, IdleReads DEF Reads
<1> HIDE DEF read
<1>6. session'[s] = read
  BY <1>1, <1>5, Starting
<1>7. Relies(s)'
  BY <1>1, <1>2, <1>4, <1>5, <1>6 DEF Relies, Told
<1> QED BY <1>1, <1>5, <1>7, NothingMoved, ReadingKeeps

LEMMA HearKeeps ==
  ASSUME IInv, NEW s \in Sessions, NEW i \in Ids, NEW v \in Verdicts, Hear(s, i, v)
  PROVE  Kept
<1> DEFINE read == [pc |-> "hearing", i |-> i, seen |-> intent[i].status,
                    paid |-> claim.status = "PAID", known |-> 0, says |-> v]
<1>1. /\ Start(s, read)
      /\ UNCHANGED <<claim, intent, transfer, heard, mishaps>>
      /\ Happened(i, v)
  BY DEF Hear
<1>2. transfer[i] # "none" /\ Told(v, i)
  BY <1>1 DEF Happened, Told
<1>3. intent[i].status # "NONE"
  BY <1>2 DEF IInv, Orderly, AskedFor
<1>4. intent[i].status \in Statuses
  BY DEF IInv, TypeOK, Rows
<1>5. read \in Reads /\ read.pc = "hearing" /\ read.i = i /\ read.says = v
  BY <1>4 DEF Reads, TransferStates
<1> HIDE DEF read
<1>6. session'[s] = read
  BY <1>1, <1>5, Starting
<1>7. Relies(s)'
  BY <1>1, <1>2, <1>3, <1>5, <1>6 DEF Relies, Told
<1> QED BY <1>1, <1>5, <1>7, NothingMoved, ReadingKeeps

LEMMA ResetLoadKeeps ==
  ASSUME IInv, NEW s \in Sessions, ResetLoad(s)
  PROVE  Kept
<1> DEFINE i == Cardinality(Opened)
           read == [IdleSession EXCEPT !.pc = "resetting", !.i = i,
                      !.seen = intent[i].status]
<1>1. /\ Start(s, read)
      /\ UNCHANGED <<claim, intent, transfer, heard, mishaps>>
      /\ i > 0
      /\ intent[i].status # "INDETERMINATE"
  BY DEF ResetLoad
<1>2. i \in Ids /\ intent[i].status # "NONE"
  BY <1>1, HowManyOpened
<1> HIDE DEF i
<1>3. intent[i].status \in Statuses
  BY <1>2 DEF IInv, TypeOK, Rows
<1>4. /\ read \in Reads
      /\ read.pc = "resetting" /\ read.i = i /\ read.seen = intent[i].status
  <2>1. i \in 0..MaxIntents
    BY <1>2
  <2> QED BY <1>3, <2>1, IdleReads DEF Reads
<1> HIDE DEF read
<1>5. session'[s] = read
  BY <1>1, <1>4, Starting
<1>6. Relies(s)'
  BY <1>1, <1>2, <1>4, <1>5 DEF Relies
<1> QED BY <1>1, <1>4, <1>6, NothingMoved, ReadingKeeps
-----------------------------------------------------------------------------
(* Steps that write.                                                       *)

LEMMA RowIsFree ==
  ASSUME NEW i, RowFree(i)
  PROVE  \A t \in Sessions : HoldsRow(t) => session[t].i # i
BY DEF RowFree, HoldsRow

LEMMA OwnRow ==
  ASSUME IInv, NEW s \in Sessions, HoldsRow(s)
  PROVE  /\ session[s].i \in Ids
         /\ intent[session[s].i].status # "NONE"
         /\ \A t \in Sessions \ {s} : HoldsRow(t) => session[t].i # session[s].i
<1>1. Relies(s) /\ Locks
  BY DEF IInv, Orderly
<1> QED BY <1>1 DEF Relies, Locks, HoldsRow

\* A session sets the status of its row, as the transfer allows.
LEMMA SettingKeeps ==
  ASSUME IInv, NEW s \in Sessions, NEW i \in Ids, NEW status \in Statuses \ {"NONE"},
         SetStatus(i, status), intent[i].status # "NONE", End(s), UNCHANGED transfer,
         \A t \in Sessions \ {s} : HoldsRow(t) => session[t].i # i,
         status = "PROCESSING" => transfer[i] \notin {"none", "adrift"},
         status = "COMPLETED" => transfer[i] \in {"success", "reversed"},
         status = "FAILED" => transfer[i] \in {"none", "failed"} \/ intent[i].misread,
         status = "REVERSED" => transfer[i] = "reversed",
         claim' \in Claims, heard' \subseteq Ids \X Verdicts, mishaps' \subseteq Mishaps,
         intent[i].status = "INDETERMINATE"
           /\ status \notin {"INDETERMINATE", "COMPLETED", "FAILED", "REVERSED"}
           => \E t \in Sessions : ReadBefore(t, i)
  PROVE  Kept
<1>1. /\ Writes({i}) /\ Numbered'
      /\ intent'[i].status = status /\ intent'[i].misread = intent[i].misread
  BY StatusSet
<1>2. Moves
  BY NothingMoved
<1>3. VerdictIsTrue(i)'
  BY <1>1 DEF VerdictIsTrue
<1>4. GivesUp(i) => \E t \in Sessions : ReadBefore(t, i)
  BY <1>1 DEF GivesUp
<1> QED BY <1>1, <1>2, <1>3, <1>4, WritingKeeps

LEMMA UntouchedTypes ==
  ASSUME IInv
  PROVE  /\ claim \in Claims
         /\ heard \subseteq Ids \X Verdicts
         /\ mishaps \subseteq Mishaps
BY DEF IInv, TypeOK

LEMMA AnsweredKeeps ==
  ASSUME IInv, NEW s \in Sessions, Answered(s)
  PROVE  Kept
<1> DEFINE i == session[s].i
<1>1. /\ session[s].pc = "sent" /\ End(s) /\ UNCHANGED <<transfer, heard>>
      /\ transfer[i] \notin {"none", "adrift"}
      /\ \/ transfer[i] = "success" /\ Complete(i)
         \/ /\ transfer[i] # "success"
            /\ SetStatus(i, IF transfer[i] = "failed" THEN "FAILED" ELSE "PROCESSING")
            /\ UNCHANGED <<claim, mishaps>>
  BY DEF Answered
<1>2. /\ i \in Ids /\ intent[i].status # "NONE"
      /\ \A t \in Sessions \ {s} : HoldsRow(t) => session[t].i # i
  BY <1>1, OwnRow DEF HoldsRow
<1>3. intent[i].status = "PENDING"
  BY <1>1 DEF IInv, Orderly, Relies
<1>4. heard' \subseteq Ids \X Verdicts
  BY <1>1, UntouchedTypes
<1> HIDE DEF i
<1>5. CASE transfer[i] = "success" /\ Complete(i)
  <2>1. SetStatus(i, "COMPLETED") /\ claim' \in Claims /\ mishaps' \subseteq Mishaps
    BY <1>2, <1>5, Completing
  <2>2. "COMPLETED" \in Statuses \ {"NONE"}
    BY DEF Statuses
  <2> QED BY <1>1, <1>2, <1>3, <1>4, <1>5, <2>1, <2>2, SettingKeeps
<1>6. CASE /\ transfer[i] = "failed"
           /\ SetStatus(i, "FAILED")
           /\ UNCHANGED <<claim, mishaps>>
  <2>1. claim' \in Claims /\ mishaps' \subseteq Mishaps
    BY <1>6, UntouchedTypes
  <2>2. "FAILED" \in Statuses \ {"NONE"}
    BY DEF Statuses
  <2> QED BY <1>1, <1>2, <1>3, <1>4, <1>6, <2>1, <2>2, SettingKeeps
<1>7. CASE SetStatus(i, "PROCESSING") /\ UNCHANGED <<claim, mishaps>>
  <2>1. claim' \in Claims /\ mishaps' \subseteq Mishaps
    BY <1>7, UntouchedTypes
  <2>2. "PROCESSING" \in Statuses \ {"NONE"}
    BY DEF Statuses
  <2> QED BY <1>1, <1>2, <1>3, <1>4, <1>7, <2>1, <2>2, SettingKeeps
<1> QED BY <1>1, <1>5, <1>6, <1>7 DEF i

LEMMA UnobservedKeeps ==
  ASSUME IInv, NEW s \in Sessions, Unobserved(s)
  PROVE  Kept
<1> DEFINE i == session[s].i
<1>1. /\ session[s].pc = "sent" /\ End(s)
      /\ SetStatus(i, "INDETERMINATE")
      /\ UNCHANGED <<claim, transfer, heard, mishaps>>
  BY DEF Unobserved
<1>2. /\ i \in Ids /\ intent[i].status # "NONE"
      /\ \A t \in Sessions \ {s} : HoldsRow(t) => session[t].i # i
  BY <1>1, OwnRow DEF HoldsRow
<1>3. claim' \in Claims /\ heard' \subseteq Ids \X Verdicts /\ mishaps' \subseteq Mishaps
  BY <1>1, UntouchedTypes
<1>4. "INDETERMINATE" \in Statuses \ {"NONE"}
  BY DEF Statuses
<1> HIDE DEF i
<1> QED BY <1>1, <1>2, <1>3, <1>4, SettingKeeps

\* FAILED is written of an error that Paystack answered.
LEMMA Failing ==
  ASSUME NEW row \in Rows, NEW misread \in BOOLEAN
  PROVE  /\ Failed(row, misread) \in Rows
         /\ Failed(row, misread).status = "FAILED"
         /\ misread => Failed(row, misread).misread
<1>1. "FAILED" \in Statuses
  BY DEF Statuses
<1> QED BY <1>1 DEF Failed, Rows

\* A session's row is written as a whole, as the transfer allows.
LEMMA RowWrittenKeeps ==
  ASSUME IInv, NEW s \in Sessions, NEW i \in Ids, NEW row \in Rows,
         intent' = [intent EXCEPT ![i] = row], row.status # "NONE",
         intent[i].status \notin {"NONE", "INDETERMINATE"}, End(s), Moves,
         \A t \in Sessions \ {s} : HoldsRow(t) => session[t].i # i,
         row.status = "PROCESSING" => transfer'[i] \notin {"none", "adrift"},
         row.status = "FAILED" => transfer'[i] \in {"none", "failed"} \/ row.misread,
         row.status \notin {"COMPLETED", "REVERSED"},
         claim' \in Claims, heard' \subseteq Ids \X Verdicts, mishaps' \subseteq Mishaps
  PROVE  Kept
<1>1. intent \in [Ids -> Rows]
  BY DEF IInv, TypeOK
<1>2. intent'[i] = row /\ \A k \in Ids \ {i} : intent'[k] = intent[k]
  BY <1>1
<1>3. Writes({i})
  BY <1>1, <1>2 DEF Writes
<1>4. Numbered'
  BY <1>2, NumberedKept
<1>5. VerdictIsTrue(i)' /\ ~GivesUp(i)
  BY <1>2 DEF VerdictIsTrue, GivesUp
<1> QED BY <1>3, <1>4, <1>5, WritingKeeps

LEMMA RefusedKeeps ==
  ASSUME IInv, NEW s \in Sessions, Refused(s)
  PROVE  Kept
<1>0. PICK i : i = session[s].i
  OBVIOUS
<1>1. PICK first \in BOOLEAN : first = (session[s].says = "none")
  OBVIOUS
<1>2. PICK misread \in BOOLEAN : misread = (~first /\ NotFailed(i))
  OBVIOUS
<1>3. /\ session[s].pc = "sent" /\ End(s)
      /\ first => transfer[i] = "adrift"
      /\ transfer' = [transfer EXCEPT ![i] = IF first THEN "none" ELSE @]
      /\ \/ UNCHANGED <<intent, mishaps>>
         \/ /\ intent' = [intent EXCEPT ![i] = Failed(@, misread)]
            /\ Record(misread, "misread")
      /\ UNCHANGED <<claim, heard>>
  BY <1>0, <1>1, <1>2 DEF Refused
<1>4. /\ i \in Ids /\ intent[i].status # "NONE"
      /\ \A t \in Sessions \ {s} : HoldsRow(t) => session[t].i # i
  BY <1>0, <1>3, OwnRow DEF HoldsRow
<1>5. claim' \in Claims /\ heard' \subseteq Ids \X Verdicts
  BY <1>3, UntouchedTypes
<1>6. intent[i].status = "PENDING"
  BY <1>0, <1>3 DEF IInv, Orderly, Relies
<1>7. transfer \in [Ids -> TransferStates] /\ AskedFor /\ intent \in [Ids -> Rows]
  BY DEF IInv, TypeOK, Orderly
<1>8. /\ \A k \in Ids \ {i} : transfer'[k] = transfer[k]
      /\ transfer'[i] = IF first THEN "none" ELSE transfer[i]
  BY <1>3, <1>4, <1>7
<1>9. Moves
  <2>1. transfer' \in [Ids -> TransferStates]
    BY <1>3, <1>7 DEF TransferStates
  <2> QED BY <1>3, <1>4, <1>6, <1>7, <1>8, <2>1 DEF Moves, AskedFor
<1>10. CASE UNCHANGED <<intent, mishaps>>
  <2>1. Writes({i}) /\ Numbered'
    BY <1>7, <1>10 DEF IInv, Orderly, Writes, Numbered
  <2>2. VerdictIsTrue(i)' /\ ~GivesUp(i)
    BY <1>6, <1>10 DEF VerdictIsTrue, GivesUp
  <2>3. mishaps' \subseteq Mishaps
    BY <1>10, UntouchedTypes
  <2> QED BY <1>3, <1>4, <1>5, <1>9, <2>1, <2>2, <2>3, WritingKeeps
<1>11. CASE /\ intent' = [intent EXCEPT ![i] = Failed(@, misread)]
            /\ Record(misread, "misread")
  <2>1. PICK row : row = Failed(intent[i], misread)
    OBVIOUS
  <2>2. row \in Rows /\ row.status = "FAILED" /\ (misread => row.misread)
    BY <1>4, <1>7, <2>1, Failing
  <2>3. intent' = [intent EXCEPT ![i] = row]
    BY <1>11, <2>1
  <2>4. transfer'[i] \in {"none", "failed"} \/ row.misread
    BY <1>2, <1>8, <2>2 DEF NotFailed
  <2>5. mishaps' \subseteq Mishaps
    BY <1>11, Recording DEF Mishaps
  <2> QED BY <1>3, <1>4, <1>5, <1>6, <1>9, <2>2, <2>3, <2>4, <2>5, RowWrittenKeeps
<1> QED BY <1>3, <1>10, <1>11

\* An attempt of the fast poller without a verdict: what becomes of its row.
LEMMA Attempted ==
  ASSUME IInv, NEW i \in Ids, NEW says, NoVerdict(i, says),
         intent[i].status = "PROCESSING", intent[i].polls < MaxPolls
  PROVE  \E row \in Rows :
           /\ intent' = [intent EXCEPT ![i] = row]
           /\ row.status \in {"PROCESSING", "INDETERMINATE", "FAILED"}
           /\ row.status = "FAILED" => row.misread \/ ~NotFailed(i)
           /\ row.status = "FAILED" /\ NotFailed(i) => "misread" \in mishaps'
           /\ mishaps \subseteq mishaps' /\ mishaps' \subseteq Mishaps
<1>1. PICK counted : counted = [intent[i] EXCEPT !.polls = @ + 1]
  OBVIOUS
<1>2. intent[i] \in Rows
  BY DEF IInv, TypeOK
<1>3. counted \in Rows /\ counted.status = "PROCESSING"
  BY <1>1, <1>2 DEF Rows
<1>4. PICK last \in BOOLEAN : last <=> counted.polls >= MaxPolls
  OBVIOUS
<1>5. PICK misread \in BOOLEAN : misread <=> NotFailed(i)
  OBVIOUS
<1>6. PICK row : row = IF last THEN GivenUp(counted, says, misread) ELSE counted
  OBVIOUS
<1>7. /\ intent' = [intent EXCEPT ![i] = row]
      /\ Record(last /\ says = "refused" /\ misread, "misread")
  <2>1. misread = NotFailed(i)
    BY <1>5 DEF NotFailed
  <2> QED BY <1>1, <1>4, <1>6, <2>1 DEF NoVerdict, Record
<1>8. "misread" \in Mishaps /\ "INDETERMINATE" \in Statuses
  BY DEF Mishaps, Statuses
<1>9. mishaps \subseteq mishaps' /\ mishaps' \subseteq Mishaps
  <2>1. mishaps' \subseteq Mishaps
    BY <1>7, <1>8, Recording
  <2> QED BY <1>7, <2>1 DEF Record
<1>10. CASE last /\ says = "unreachable"
  <2>1. row = [counted EXCEPT !.status = "INDETERMINATE"]
    BY <1>6, <1>10 DEF GivenUp
  <2>2. row \in Rows /\ row.status = "INDETERMINATE"
    BY <1>3, <1>8, <2>1 DEF Rows
  <2> QED BY <1>7, <1>9, <2>2
<1>11. CASE last /\ says = "refused"
  <2>1. row = Failed(counted, misread)
    BY <1>6, <1>11 DEF GivenUp
  <2>2. row \in Rows /\ row.status = "FAILED" /\ (misread => row.misread)
    BY <1>3, <2>1, Failing
  <2>3. misread => "misread" \in mishaps'
    BY <1>7, <1>11 DEF Record
  <2> QED BY <1>5, <1>7, <1>9, <2>2, <2>3
<1>12. CASE ~last \/ says \notin {"unreachable", "refused"}
  <2>1. row = counted
    BY <1>6, <1>12 DEF GivenUp
  <2> QED BY <1>3, <1>7, <1>9, <2>1
<1> QED BY <1>10, <1>11, <1>12

LEMMA PollSettleKeeps ==
  ASSUME IInv, NEW s \in Sessions, PollSettle(s)
  PROVE  Kept
<1>0. PICK i : i = session[s].i
  OBVIOUS
<1>1. PICK paid : paid = (claim.status = "PAID")
  OBVIOUS
<1>2. session[s].pc = "polling" /\ End(s) /\ UNCHANGED <<transfer, heard>>
  BY DEF PollSettle
<1>3. \/ session[s].says = "success" /\ Complete(i)
      \/ session[s].says = "failed" /\ SetStatus(i, "FAILED") /\ Revert(i, paid)
      \/ session[s].says = "reversed" /\ SetStatus(i, "REVERSED") /\ Revert(i, paid)
      \/ NoVerdict(i, session[s].says) /\ UNCHANGED claim
  BY <1>0, <1>1 DEF PollSettle
<1>4. /\ i \in Ids /\ intent[i].status # "NONE"
      /\ \A t \in Sessions \ {s} : HoldsRow(t) => session[t].i # i
  BY <1>0, <1>2, OwnRow DEF HoldsRow
<1>5. /\ Told(session[s].says, i)
      /\ \/ intent[i].status = "INDETERMINATE"
         \/ intent[i].status = "PROCESSING" /\ intent[i].polls < MaxPolls
  BY <1>0, <1>2 DEF IInv, Orderly, Relies
<1>6. heard' \subseteq Ids \X Verdicts
  BY <1>2, UntouchedTypes
<1>7. paid \in BOOLEAN
  BY <1>1
<1>8. CASE session[s].says = "success" /\ Complete(i)
  <2>1. SetStatus(i, "COMPLETED") /\ claim' \in Claims /\ mishaps' \subseteq Mishaps
    BY <1>4, <1>8, Completing
  <2>2. "COMPLETED" \in Statuses \ {"NONE"}
    BY DEF Statuses
  <2>3. transfer[i] \in {"success", "reversed"}
    BY <1>5, <1>8 DEF Told
  <2> QED BY <1>2, <1>4, <1>6, <2>1, <2>2, <2>3, SettingKeeps
<1>9. CASE session[s].says = "failed" /\ SetStatus(i, "FAILED") /\ Revert(i, paid)
  <2>1. claim' \in Claims /\ mishaps' \subseteq Mishaps
    BY <1>4, <1>7, <1>9, Reverting
  <2>2. "FAILED" \in Statuses \ {"NONE"}
    BY DEF Statuses
  <2>3. transfer[i] = "failed"
    BY <1>5, <1>9 DEF Told
  <2> QED BY <1>2, <1>4, <1>6, <1>9, <2>1, <2>2, <2>3, SettingKeeps
<1>10. CASE session[s].says = "reversed" /\ SetStatus(i, "REVERSED") /\ Revert(i, paid)
  <2>1. claim' \in Claims /\ mishaps' \subseteq Mishaps
    BY <1>4, <1>7, <1>10, Reverting
  <2>2. "REVERSED" \in Statuses \ {"NONE"}
    BY DEF Statuses
  <2>3. transfer[i] = "reversed"
    BY <1>5, <1>10 DEF Told
  <2> QED BY <1>2, <1>4, <1>6, <1>10, <2>1, <2>2, <2>3, SettingKeeps
<1>11. CASE intent' = intent /\ UNCHANGED <<claim, mishaps>>
  <2>1. intent \in [Ids -> Rows] /\ Numbered /\ VerdictIsTrue(i)
    BY <1>4 DEF IInv, TypeOK, Orderly, VerdictsAreTrue
  <2>2. Writes({i}) /\ Numbered'
    BY <1>11, <2>1 DEF Writes, Numbered
  <2>3. VerdictIsTrue(i)' /\ ~GivesUp(i)
    BY <1>2, <1>11, <2>1 DEF VerdictIsTrue, GivesUp
  <2>4. Moves
    BY <1>2, NothingMoved
  <2>5. claim' \in Claims /\ mishaps' \subseteq Mishaps
    BY <1>11, UntouchedTypes
  <2> QED BY <1>2, <1>4, <1>6, <2>2, <2>3, <2>4, <2>5, WritingKeeps
<1>12. CASE /\ intent[i].status # "INDETERMINATE"
            /\ NoVerdict(i, session[s].says)
            /\ UNCHANGED claim
  <2>1. intent[i].status = "PROCESSING" /\ intent[i].polls < MaxPolls
    BY <1>5, <1>12
  <2>2. PICK row \in Rows :
          /\ intent' = [intent EXCEPT ![i] = row]
          /\ row.status \in {"PROCESSING", "INDETERMINATE", "FAILED"}
          /\ row.status = "FAILED" => row.misread \/ ~NotFailed(i)
          /\ mishaps' \subseteq Mishaps
    BY <1>4, <1>12, <2>1, Attempted
  <2>3. transfer[i] \notin {"none", "adrift"}
    BY <1>4, <2>1 DEF IInv, VerdictsAreTrue, VerdictIsTrue
  <2>4. Moves
    BY <1>2, NothingMoved
  <2>5. claim' \in Claims
    BY <1>12, UntouchedTypes
  <2> QED BY <1>2, <1>4, <1>6, <2>1, <2>2, <2>3, <2>4, <2>5, RowWrittenKeeps DEF NotFailed
<1>13. CASE NoVerdict(i, session[s].says) /\ UNCHANGED claim
  BY <1>11, <1>12, <1>13 DEF NoVerdict
<1> QED BY <1>3, <1>8, <1>9, <1>10, <1>13

LEMMA Overwriting ==
  ASSUME NEW s, NEW status, Overwrite(s, status)
  PROVE  \E next \in {status, intent[session[s].i].status} : SetStatus(session[s].i, next)
BY DEF Overwrite

LEMMA HandleKeeps ==
  ASSUME IInv, NEW s \in Sessions, Handle(s)
  PROVE  Kept
<1>0. PICK i : i = session[s].i
  OBVIOUS
<1>1. PICK paid : paid = session[s].paid
  OBVIOUS
<1>2. PICK says : says = session[s].says
  OBVIOUS
<1>3. /\ session[s].pc = "hearing" /\ End(s) /\ UNCHANGED transfer
      /\ RowFree(i)
      /\ heard' = heard \cup {<<i, says>>}
  BY <1>0, <1>2 DEF Handle
<1>4. \/ UNCHANGED <<claim, intent, mishaps>>
      \/ says = "success" /\ Complete(i)
      \/ says = "failed" /\ Overwrite(s, "FAILED") /\ Revert(i, paid)
      \/ says = "reversed" /\ Overwrite(s, "REVERSED") /\ Revert(i, paid)
  BY <1>0, <1>1, <1>2 DEF Handle
<1>5. i \in Ids /\ intent[i].status # "NONE" /\ Told(says, i) /\ says \in Verdicts
  BY <1>0, <1>2, <1>3 DEF IInv, Orderly, Relies
<1>6. \A t \in Sessions \ {s} : HoldsRow(t) => session[t].i # i
  BY <1>3, RowIsFree
<1>7. paid \in BOOLEAN
  BY <1>1 DEF IInv, TypeOK, Reads
<1>8. heard' \subseteq Ids \X Verdicts
  BY <1>3, <1>5, UntouchedTypes
<1>9. CASE UNCHANGED <<claim, intent, mishaps>>
  <2>1. intent \in [Ids -> Rows] /\ Numbered /\ VerdictIsTrue(i)
    BY <1>5 DEF IInv, TypeOK, Orderly, VerdictsAreTrue
  <2>2. Writes({i}) /\ Numbered'
    BY <1>9, <2>1 DEF Writes, Numbered
  <2>3. VerdictIsTrue(i)' /\ ~GivesUp(i)
    BY <1>3, <1>9, <2>1 DEF VerdictIsTrue, GivesUp
  <2>4. Moves
    BY <1>3, NothingMoved
  <2>5. claim' \in Claims /\ mishaps' \subseteq Mishaps
    BY <1>9, UntouchedTypes
  <2> QED BY <1>3, <1>5, <1>6, <1>8, <2>2, <2>3, <2>4, <2>5, WritingKeeps
<1>10. CASE says = "success" /\ Complete(i)
  <2>1. SetStatus(i, "COMPLETED") /\ claim' \in Claims /\ mishaps' \subseteq Mishaps
    BY <1>5, <1>10, Completing
  <2>2. "COMPLETED" \in Statuses \ {"NONE"}
    BY DEF Statuses
  <2>3. transfer[i] \in {"success", "reversed"}
    BY <1>5, <1>10 DEF Told
  <2> QED BY <1>3, <1>5, <1>6, <1>8, <2>1, <2>2, <2>3, SettingKeeps
<1>11. CASE says = "failed" /\ Overwrite(s, "FAILED") /\ Revert(i, paid)
  <2>1. claim' \in Claims /\ mishaps' \subseteq Mishaps
    BY <1>5, <1>7, <1>11, Reverting
  <2>2. PICK status \in {"FAILED", intent[i].status} : SetStatus(i, status)
    BY <1>0, <1>11, Overwriting
  <2>3. transfer[i] = "failed"
    BY <1>5, <1>11 DEF Told
  <2>4. status \in Statuses \ {"NONE"}
    BY <1>5 DEF IInv, TypeOK, Rows, Statuses
  <2>5. VerdictIsTrue(i)
    BY <1>5 DEF IInv, VerdictsAreTrue
  <2>6. /\ status = "COMPLETED" => transfer[i] \in {"success", "reversed"}
        /\ status = "REVERSED" => transfer[i] = "reversed"
    BY <2>5 DEF VerdictIsTrue
  <2> QED BY <1>3, <1>5, <1>6, <1>8, <2>1, <2>2, <2>3, <2>4, <2>6, SettingKeeps
<1>12. CASE says = "reversed" /\ Overwrite(s, "REVERSED") /\ Revert(i, paid)
  <2>1. claim' \in Claims /\ mishaps' \subseteq Mishaps
    BY <1>5, <1>7, <1>12, Reverting
  <2>2. PICK status \in {"REVERSED", intent[i].status} : SetStatus(i, status)
    BY <1>0, <1>12, Overwriting
  <2>3. transfer[i] = "reversed"
    BY <1>5, <1>12 DEF Told
  <2>4. status \in Statuses \ {"NONE"}
    BY <1>5 DEF IInv, TypeOK, Rows, Statuses
  <2>5. VerdictIsTrue(i)
    BY <1>5 DEF IInv, VerdictsAreTrue
  <2>6. status = "FAILED" => transfer[i] \in {"none", "failed"} \/ intent[i].misread
    BY <2>5 DEF VerdictIsTrue
  <2> QED BY <1>3, <1>5, <1>6, <1>8, <2>1, <2>2, <2>3, <2>4, <2>6, SettingKeeps
<1> QED BY <1>4, <1>9, <1>10, <1>11, <1>12

LEMMA ResetWriteKeeps ==
  ASSUME IInv, NEW s \in Sessions, ResetWrite(s)
  PROVE  Kept
<1>0. PICK i : i = session[s].i
  OBVIOUS
<1>1. /\ session[s].pc = "resetting" /\ End(s) /\ RowFree(i)
      /\ Overwrite(s, "ABANDONED")
      /\ Record(Hides(i), "forced")
      /\ UNCHANGED <<claim, transfer, heard>>
  BY <1>0 DEF ResetWrite
<1>2. i \in Ids /\ intent[i].status # "NONE" /\ session[s].seen # "INDETERMINATE"
  BY <1>0, <1>1 DEF IInv, Orderly, Relies
<1>3. \A t \in Sessions \ {s} : HoldsRow(t) => session[t].i # i
  BY <1>1, RowIsFree
<1>4. claim' \in Claims /\ heard' \subseteq Ids \X Verdicts
  BY <1>1, UntouchedTypes
<1>5. mishaps' \subseteq Mishaps
  <2>1. "forced" \in Mishaps
    BY DEF Mishaps
  <2> QED BY <1>1, <2>1, Recording
<1>6. PICK status \in {"ABANDONED", intent[i].status} : SetStatus(i, status)
  BY <1>0, <1>1, Overwriting
<1>7. status \in Statuses \ {"NONE"}
  BY <1>2 DEF IInv, TypeOK, Rows, Statuses
<1>8. /\ status = "PROCESSING" => transfer[i] \notin {"none", "adrift"}
      /\ status = "COMPLETED" => transfer[i] \in {"success", "reversed"}
      /\ status = "FAILED" => transfer[i] \in {"none", "failed"} \/ intent[i].misread
      /\ status = "REVERSED" => transfer[i] = "reversed"
  BY <1>2, <1>6 DEF IInv, VerdictsAreTrue, VerdictIsTrue
<1>9. \E t \in Sessions : ReadBefore(t, i)
  BY <1>0, <1>1, <1>2 DEF ReadBefore
<1> QED BY <1>1, <1>2, <1>3, <1>4, <1>5, <1>6, <1>7, <1>8, <1>9, SettingKeeps

LEMMA OpenIntentKeeps ==
  ASSUME IInv, NEW s \in Sessions, OpenIntent(s)
  PROVE  Kept
<1>0. PICK old : old = session[s].i
  OBVIOUS
<1>1. PICK new : new = Cardinality(Opened) + 1
  OBVIOUS
<1>2. /\ session[s].pc = "opening" /\ End(s) /\ RowFree(old)
      /\ new \in Ids
      /\ intent' = [i \in Ids |-> IF i = new THEN [intent[i] EXCEPT !.status = "PENDING"]
                                 ELSE IF i = old THEN [intent[i] EXCEPT !.status = "EXPIRED"]
                                 ELSE intent[i]]
      /\ UNCHANGED <<claim, transfer, heard>>
  BY <1>0, <1>1 DEF OpenIntent
<1>3. mishaps' = mishaps
        \cup (IF new > session[s].known + 1 THEN {"opened twice"} ELSE {})
        \cup (IF old # 0 /\ Hides(old) THEN {"expired in flight"} ELSE {})
  BY <1>0, <1>1 DEF OpenIntent
<1>4. /\ Cardinality(Opened) \in 0..MaxIntents
      /\ \A i \in Ids : intent[i].status = "NONE" <=> i > Cardinality(Opened)
  BY HowManyOpened
<1>5. intent[new].status = "NONE"
  BY <1>1, <1>2, <1>4
<1>6. /\ old \in Ids => intent[old].status # "NONE"
      /\ session[s].seen # "INDETERMINATE"
  BY <1>0, <1>2 DEF IInv, Orderly, Relies
<1>7. intent \in [Ids -> Rows]
  BY DEF IInv, TypeOK
<1>8. \A i \in Ids :
        /\ [intent[i] EXCEPT !.status = "PENDING"] \in Rows
        /\ [intent[i] EXCEPT !.status = "PENDING"].status = "PENDING"
        /\ [intent[i] EXCEPT !.status = "EXPIRED"] \in Rows
        /\ [intent[i] EXCEPT !.status = "EXPIRED"].status = "EXPIRED"
  BY <1>7 DEF Rows, Statuses
<1>9. /\ intent' \in [Ids -> Rows]
      /\ intent'[new].status = "PENDING"
      /\ old \in Ids => intent'[old].status = "EXPIRED"
      /\ \A i \in Ids \ {new, old} : intent'[i] = intent[i]
  BY <1>2, <1>5, <1>6, <1>7, <1>8
<1>10. Writes({new, old})
  BY <1>5, <1>6, <1>9 DEF Writes
<1>11. Numbered'
  <2>1. \A i \in Ids : intent'[i].status = "NONE" <=> i > new
    <3>1. \A i \in Ids \ {new} : intent'[i].status = "NONE" <=> intent[i].status = "NONE"
      BY <1>6, <1>9
    <3>2. \A i \in Ids \ {new} : i > Cardinality(Opened) <=> i > new
      BY <1>1, <1>4
    <3> QED BY <1>2, <1>4, <1>9, <3>1, <3>2
  <2> QED BY <1>2, <2>1 DEF Numbered
<1>12. Moves
  BY <1>2, NothingMoved
<1>13. Others(s) /\ session'[s].pc = "idle" /\ Relies(s)'
  BY <1>2, Ending
<1>14. \A t \in Sessions \ {s} : HoldsRow(t) => session[t].i \notin {new, old}
  <2>1. \A t \in Sessions : HoldsRow(t) => session[t].i # old
    BY <1>2, RowIsFree
  <2>2. \A t \in Sessions : HoldsRow(t) => intent[session[t].i].status # "NONE"
    BY OwnRow
  <2> QED BY <1>5, <2>1, <2>2
<1>15. ~HoldsRow(s)'
  BY <1>13 DEF HoldsRow
<1>16. Orderly'
  BY <1>10, <1>11, <1>12, <1>13, <1>14, <1>15, SessionKeeps
<1>17. VerdictsAreTrue'
  <2>1. \A i \in Ids \cap {new, old} : VerdictIsTrue(i)'
    BY <1>9 DEF VerdictIsTrue
  <2> QED BY <1>10, <1>12, <2>1, VerdictsKept
<1>18. TypeOK'
  <2>1. /\ claim' \in Claims /\ heard' \subseteq Ids \X Verdicts
        /\ session' \in [Sessions -> Reads]
    BY <1>2, <1>13, UntouchedTypes DEF Others
  <2>2. mishaps' \subseteq Mishaps
    BY <1>3, UntouchedTypes DEF Mishaps
  <2> QED BY <1>10, <1>12, <2>1, <2>2, Types
<1>19. UnknownStep
  <2> SUFFICES ASSUME NEW i \in Ids, GivesUp(i)
               PROVE  \E t \in Sessions : ReadBefore(t, i)
    BY DEF UnknownStep
  <2>1. i \in {new, old}
    BY <1>10, OthersKept
  <2>2. i # new
    BY <1>5 DEF GivesUp
  <2> QED BY <1>0, <1>2, <1>6, <2>1, <2>2 DEF ReadBefore
<1> QED BY <1>16, <1>17, <1>18, <1>19 DEF Kept, IInv

LEMMA ExpirePendingKeeps ==
  ASSUME IInv, NEW i \in Ids, ExpirePending(i)
  PROVE  Kept
<1>1. /\ intent[i].status = "PENDING" /\ RowFree(i) /\ SetStatus(i, "EXPIRED")
      /\ Record(Hides(i), "expired in flight")
      /\ UNCHANGED <<claim, transfer, heard, session>>
  BY DEF ExpirePending
<1>2. "EXPIRED" \in Statuses \ {"NONE"} /\ "expired in flight" \in Mishaps
  BY DEF Statuses, Mishaps
<1>3. Writes({i}) /\ Numbered' /\ intent'[i].status = "EXPIRED"
  BY <1>1, <1>2, StatusSet
<1>4. \A t \in Sessions : HoldsRow(t) => session[t].i \notin {i}
  BY <1>1, RowIsFree
<1>5. \A k \in Ids \cap {i} : VerdictIsTrue(k)' /\ ~GivesUp(k)
  BY <1>1, <1>3 DEF VerdictIsTrue, GivesUp
<1>6. claim' \in Claims /\ mishaps' \subseteq Mishaps
  BY <1>1, <1>2, UntouchedTypes, Recording
<1>7. Moves
  BY <1>1, NothingMoved
<1> QED BY <1>1, <1>3, <1>4, <1>5, <1>6, <1>7, OutsideStepKeeps

-----------------------------------------------------------------------------
(* Steps that write no row. *)

LEMMA PayByHandKeeps ==
  ASSUME IInv, PayByHand
  PROVE  Kept
<1>1. claim' = [Marked EXCEPT !.byHand = TRUE]
      /\ UNCHANGED <<intent, transfer, heard, session, mishaps>>
  BY DEF PayByHand
<1>2. Marked \in Claims
  BY Marking
<1>3. claim' \in Claims /\ mishaps' \subseteq Mishaps
  BY <1>1, <1>2, UntouchedTypes DEF Claims
<1>4. Writes({}) /\ Numbered' /\ Moves
  BY <1>1, NothingWritten, NothingMoved
<1> QED BY <1>1, <1>3, <1>4, OutsideStepKeeps

\* Paystack moves a transfer that it, or the network, has.
LEMMA TransferKeeps ==
  ASSUME IInv, NEW i \in Ids, NEW next \in TransferStates,
         transfer' = [transfer EXCEPT ![i] = next],
         \/ transfer[i] = "adrift"
         \/ transfer[i] = "pending" /\ next \notin {"none", "adrift"}
         \/ transfer[i] = "success" /\ next = "reversed",
         UNCHANGED <<claim, intent, heard, session, mishaps>>
  PROVE  Kept
<1>1. transfer \in [Ids -> TransferStates] /\ AskedFor
  BY DEF IInv, TypeOK, Orderly
<1>2. transfer' \in [Ids -> TransferStates]
  BY <1>1
<1>3. Moves
  BY <1>1, <1>2 DEF Moves, AskedFor
<1>4. Writes({}) /\ Numbered'
  BY NothingWritten
<1> QED BY <1>3, <1>4, UntouchedTypes, OutsideStepKeeps

LEMMA PaystackKeeps ==
  ASSUME IInv, NEW i \in Ids, Arrive(i) \/ Lose(i) \/ Conclude(i)
  PROVE  Kept
<1>1. CASE Arrive(i)
  <2>1. "pending" \in TransferStates
    BY DEF TransferStates
  <2> QED BY <1>1, <2>1, TransferKeeps DEF Arrive
<1>2. CASE Lose(i)
  <2>1. "none" \in TransferStates
    BY DEF TransferStates
  <2> QED BY <1>2, <2>1, TransferKeeps DEF Lose
<1>3. CASE Conclude(i)
  <2>1. PICK next \in TransferStates :
          /\ transfer' = [transfer EXCEPT ![i] = next]
          /\ \/ transfer[i] = "pending" /\ next \notin {"none", "adrift"}
             \/ transfer[i] = "success" /\ next = "reversed"
    BY <1>3 DEF Conclude, TransferStates
  <2>2. UNCHANGED <<claim, intent, heard, session, mishaps>>
    BY <1>3 DEF Conclude
  <2> QED BY <2>1, <2>2, TransferKeeps
<1> QED BY <1>1, <1>2, <1>3

LEMMA LapseKeeps ==
  ASSUME IInv, NEW i \in Ids, Lapse(i)
  PROVE  Kept
<1>1. /\ intent' = [intent EXCEPT ![i].due = TRUE]
      /\ UNCHANGED <<claim, transfer, heard, session, mishaps>>
  BY DEF Lapse
<1>2. intent \in [Ids -> Rows] /\ intent[i] \in Rows
  BY DEF IInv, TypeOK
<1>3. /\ [intent[i] EXCEPT !.due = TRUE] \in Rows
      /\ [intent[i] EXCEPT !.due = TRUE].status = intent[i].status
      /\ [intent[i] EXCEPT !.due = TRUE].polls = intent[i].polls
      /\ [intent[i] EXCEPT !.due = TRUE].misread = intent[i].misread
  BY <1>2 DEF Rows
<1>4. /\ intent' \in [Ids -> Rows]
      /\ \A k \in Ids : /\ intent'[k].status = intent[k].status
                        /\ intent'[k].polls = intent[k].polls
                        /\ intent'[k].misread = intent[k].misread
  BY <1>1, <1>2, <1>3
<1>5. Writes({}) /\ Numbered'
  BY <1>4, NumberedKept DEF Writes
<1>6. Moves
  BY <1>1, NothingMoved
<1> QED BY <1>1, <1>5, <1>6, UntouchedTypes, OutsideStepKeeps

-----------------------------------------------------------------------------

LEMMA InitHolds == Init => IInv
<1> SUFFICES ASSUME Init
             PROVE  IInv
  OBVIOUS
<1>1. TypeOK
  <2>1. [status |-> "APPROVED", marked |-> FALSE, byHand |-> FALSE] \in Claims
    BY DEF Claims
  <2>2. [status |-> "NONE", polls |-> 0, due |-> FALSE, misread |-> FALSE] \in Rows
    BY DEF Rows, Statuses
  <2>3. "none" \in TransferStates
    BY DEF TransferStates
  <2> QED BY <2>1, <2>2, <2>3, IdleReads DEF Init, TypeOK
<1>2. VerdictsAreTrue
  BY DEF Init, VerdictsAreTrue, VerdictIsTrue
<1>3. \A i \in Ids : intent[i].status = "NONE" /\ transfer[i] = "none"
  BY DEF Init
<1>4. Numbered /\ AskedFor
  <2>1. \A i \in Ids : intent[i].status = "NONE" <=> i > 0
    BY <1>3
  <2> QED BY <1>3, <2>1 DEF Numbered, AskedFor
<1>5. \A s \in Sessions : session[s].pc = "idle"
  BY IdleReads DEF Init
<1>6. Locks /\ \A s \in Sessions : Relies(s)
  BY <1>5 DEF Locks, HoldsRow, Relies
<1> QED BY <1>1, <1>2, <1>4, <1>6 DEF IInv, Orderly

LEMMA SessionStepKeeps ==
  ASSUME IInv, NEW s \in Sessions, SessionStep(s)
  PROVE  Kept
<1>1. CASE RollBack(s) \/ CheckIntents(s) \/ OpenIntent(s)
  BY <1>1, RollBackKeeps, CheckIntentsKeeps, OpenIntentKeeps
<1>2. CASE Answered(s) \/ Refused(s) \/ Unobserved(s)
  BY <1>2, AnsweredKeeps, RefusedKeeps, UnobservedKeeps
<1>3. CASE PollSettle(s) \/ Handle(s)
  BY <1>3, PollSettleKeeps, HandleKeeps
<1>4. CASE ResetLoad(s) \/ ResetWrite(s)
  BY <1>4, ResetLoadKeeps, ResetWriteKeeps
<1>5. ASSUME NEW i \in Ids, Send(s, i)
      PROVE  Kept
  BY <1>5, SendKeeps
<1>6. ASSUME NEW i \in Ids, NEW says, Poll(s, i, says)
      PROVE  Kept
  BY <1>6, PollKeeps
<1>7. ASSUME NEW i \in Ids, NEW v \in Verdicts, Hear(s, i, v)
      PROVE  Kept
  BY <1>7, HearKeeps
<1> QED BY <1>1, <1>2, <1>3, <1>4, <1>5, <1>6, <1>7 DEF SessionStep

LEMMA NextKeeps == IInv /\ [Next]_vars => Kept
<1> SUFFICES ASSUME IInv, [Next]_vars
             PROVE  Kept
  OBVIOUS
<1>1. ASSUME NEW s \in Sessions, SessionStep(s)
      PROVE  Kept
  BY <1>1, SessionStepKeeps
<1>2. CASE PayByHand
  BY <1>2, PayByHandKeeps
<1>3. ASSUME NEW i \in Ids,
             ExpirePending(i) \/ Arrive(i) \/ Lose(i) \/ Conclude(i) \/ Lapse(i)
      PROVE  Kept
  BY <1>3, ExpirePendingKeeps, PaystackKeeps, LapseKeeps
<1>4. CASE UNCHANGED vars
  <2>1. UNCHANGED <<claim, intent, transfer, heard, session, mishaps>>
    BY <1>4 DEF vars
  <2>2. Writes({}) /\ Numbered' /\ Moves
    BY <2>1, NothingWritten, NothingMoved
  <2>3. claim' \in Claims /\ mishaps' \subseteq Mishaps
    BY <2>1, UntouchedTypes
  <2> QED BY <2>1, <2>2, <2>3, OutsideStepKeeps
<1> QED BY <1>1, <1>2, <1>3, <1>4 DEF Next, Step

LEMMA Invariance == Spec => []IInv
<1>1. IInv /\ [Next]_vars => IInv'
  BY NextKeeps DEF Kept
<1> QED BY InitHolds, <1>1, PTL DEF Spec

\* No state of a payout leaves the types of its tables, whatever the number of
\* sessions: no attempt past the last is counted and no transfer is asked for
\* without an intent.
THEOREM TypeCorrect == Spec => []TypeOK
<1>1. IInv => TypeOK
  BY DEF IInv
<1> QED BY <1>1, Invariance, PTL

\* For any number of sessions, intents and polls, COMPLETED, FAILED and REVERSED
\* are true of the transfer: process_successful_transfer, mark_transfer_failed
\* and process_transfer_reversal are reached with a made-up verdict in one way
\* only, and so is the FAILED of _record_transfer_poll_failure: Paystack answered
\* a repeated request, or the last poll, with an error, and the row is misread.
THEOREM NoMadeUpVerdict == Spec => []VerdictsAreTrue
<1>1. IInv => VerdictsAreTrue
  BY DEF IInv
<1> QED BY <1>1, Invariance, PTL

\* INDETERMINATE is given up only by a reset or an expiry that read the row
\* before; resolve_indeterminate_transfer and the webhooks leave it for a
\* verdict.
THEOREM UnknownStaysUnknown == Spec => UnknownIsKept
<1>1. IInv /\ [Next]_vars =>
        [\A i \in Ids : GivesUp(i) => \E s \in Sessions : ReadBefore(s, i)]_vars
  BY NextKeeps DEF Kept, UnknownStep
<1> QED BY <1>1, Invariance, PTL DEF Spec, UnknownIsKept

-----------------------------------------------------------------------------
(* One claim, one payment: the steps that are not mishaps keep the money   *)
(* and the claim together.                                                 *)

OneInFlight == \A i, j \in InFlight : i = j

OneOut == \A i, j \in Out : i = j

Dropped == {"EXPIRED", "ABANDONED", "FAILED"}

\* An intent that was expired, reset or has failed has no money out.
GivenUpIsNotOut == \A i \in Out : intent[i].status \notin Dropped

HandIsAlone == claim.byHand => Out = {}

ClaimIsTold == claim.status = "PAID" <=> claim.byHand \/ With({"COMPLETED"}) # {}

Opens(s) == session[s].pc = "opening"

\* A request about to open an intent has seen every intent in flight, unless
\* another was opened since.
OpenersKnow == \A s \in Sessions :
  Opens(s) /\ session[s].known = Cardinality(Opened) => InFlight \subseteq {session[s].i}

Unharmed ==
  OneInFlight /\ OneOut /\ GivenUpIsNotOut /\ HandIsAlone /\ ClaimIsTold /\ OpenersKnow

KnownAreOpened == \A s \in Sessions : Opens(s) => session[s].known <= Cardinality(Opened)

Sound == KnownAreOpened /\ (mishaps = {} => Unharmed)

\* A step that is no mishap keeps them so.
Safe == KnownAreOpened' /\ (mishaps' = {} => mishaps = {} /\ (Unharmed => Unharmed'))

\* The statuses of open intents other than NONE that a transfer that is out may
\* have under its intent.
LEMMA OutIsInFlightOrPaid ==
  ASSUME IInv, Unharmed
  PROVE  Out \subseteq InFlight \cup With({"COMPLETED"})
<1> SUFFICES ASSUME NEW i \in Out
             PROVE  i \in InFlight \cup With({"COMPLETED"})
  OBVIOUS
<1>1. i \in Ids /\ transfer[i] \in {"adrift", "pending", "success"}
  BY DEF Out
<1>2. intent[i].status \in Statuses /\ intent[i].status # "NONE"
  BY <1>1 DEF IInv, TypeOK, Rows, Orderly, AskedFor
<1>3. intent[i].status # "REVERSED"
  BY <1>1 DEF IInv, VerdictsAreTrue, VerdictIsTrue
<1>4. intent[i].status \notin {"EXPIRED", "ABANDONED", "FAILED"}
  BY DEF Unharmed, GivenUpIsNotOut, Dropped
<1> QED BY <1>1, <1>2, <1>3, <1>4 DEF Statuses, InFlight, With

\* While the claim waits for its payment, nothing but an intent in flight pays it.
LEMMA ApprovedIsUnpaid ==
  ASSUME IInv, Unharmed, claim.status = "APPROVED"
  PROVE  ~claim.byHand /\ With({"COMPLETED"}) = {} /\ Out \subseteq InFlight
BY OutIsInFlightOrPaid DEF Unharmed, ClaimIsTold

SameOpen == \A i \in Ids : intent'[i].status = "NONE" <=> intent[i].status = "NONE"

NoNewOpener == \A s \in Sessions : Opens(s)' => session'[s] = session[s]

LEMMA OpenedStays ==
  ASSUME SameOpen
  PROVE  Opened' = Opened
BY DEF SameOpen, Opened

LEMMA KnownStay ==
  ASSUME KnownAreOpened, SameOpen, NoNewOpener
  PROVE  KnownAreOpened'
BY OpenedStays DEF KnownAreOpened, NoNewOpener, Opens

\* A step that puts no intent in flight and no money on its way.
LEMMA StillUnharmed ==
  ASSUME IInv, Unharmed, SameOpen, NoNewOpener, InFlight' \subseteq InFlight, Out' \subseteq Out,
         \A i \in Out' : intent'[i].status \in Dropped =>
           intent'[i].status = intent[i].status,
         claim'.byHand => claim.byHand \/ Out = {},
         ClaimIsTold'
  PROVE  Unharmed'
<1>1. OneInFlight' /\ OneOut'
  BY DEF Unharmed, OneInFlight, OneOut
<1>2. GivenUpIsNotOut'
  BY DEF Unharmed, GivenUpIsNotOut
<1>3. HandIsAlone'
  BY DEF Unharmed, HandIsAlone
<1>4. OpenersKnow'
  BY OpenedStays DEF Unharmed, OpenersKnow, NoNewOpener, Opens
<1> QED BY <1>1, <1>2, <1>3, <1>4 DEF Unharmed

\* Nothing but the time of an intent, or its transfer's way, changes.
LEMMA StatusesStand ==
  ASSUME IInv, Sound, \A i \in Ids : intent'[i].status = intent[i].status, NoNewOpener,
         Out' \subseteq Out, UNCHANGED <<claim, mishaps>>
  PROVE  Safe
<1>1. SameOpen
  BY DEF SameOpen
<1>2. InFlight' = InFlight /\ With({"COMPLETED"})' = With({"COMPLETED"})
  BY DEF InFlight, With
<1>3. Unharmed => Unharmed'
  <2> SUFFICES ASSUME Unharmed
               PROVE  Unharmed'
    OBVIOUS
  <2>1. ClaimIsTold'
    BY <1>2 DEF Unharmed, ClaimIsTold
  <2>2. \A i \in Out' : i \in Ids
    BY DEF Out
  <2> QED BY <1>1, <1>2, <2>1, <2>2, StillUnharmed
<1> QED BY <1>1, <1>3, KnownStay DEF Safe, Sound

LEMMA StartOpensNothing ==
  ASSUME IInv, NEW s \in Sessions, NEW read \in Reads, Start(s, read), read.pc # "opening"
  PROVE  NoNewOpener
BY Starting DEF Others, NoNewOpener, Opens

LEMMA EndOpensNothing ==
  ASSUME IInv, NEW s \in Sessions, End(s)
  PROVE  NoNewOpener
BY Ending DEF Others, NoNewOpener, Opens

\* One status is set, whatever else of its row.
Becomes(i, status) ==
  /\ intent'[i].status = status
  /\ \A k \in Ids \ {i} : intent'[k].status = intent[k].status

LEMMA SetBecomes ==
  ASSUME IInv, NEW i \in Ids, NEW status \in Statuses \ {"NONE"},
         intent[i].status # "NONE", SetStatus(i, status)
  PROVE  Becomes(i, status)
BY StatusSet DEF Becomes, Writes

LEMMA RowBecomes ==
  ASSUME IInv, NEW i \in Ids, NEW row \in Rows, intent' = [intent EXCEPT ![i] = row]
  PROVE  Becomes(i, row.status)
BY DEF IInv, TypeOK, Becomes

\* What that does to the sets of intents.
LEMMA SetsAfter ==
  ASSUME IInv, NEW i \in Ids, NEW status \in Statuses \ {"NONE"},
         intent[i].status # "NONE", Becomes(i, status)
  PROVE  /\ SameOpen
         /\ \A k \in Ids \ {i} : intent'[k].status = intent[k].status
         /\ intent'[i].status = status
         /\ status \notin {"PENDING", "PROCESSING", "INDETERMINATE"} \/ i \in InFlight =>
              InFlight' \subseteq InFlight
         /\ status # "COMPLETED" => With({"COMPLETED"})' = With({"COMPLETED"}) \ {i}
         /\ status = "COMPLETED" => With({"COMPLETED"})' = With({"COMPLETED"}) \cup {i}
<1>1. /\ intent'[i].status = status
      /\ \A k \in Ids \ {i} : intent'[k].status = intent[k].status
  BY DEF Becomes
<1>2. SameOpen
  BY <1>1 DEF SameOpen
<1> QED BY <1>1, <1>2 DEF InFlight, With

\* A status that neither pays nor puts in flight, and gives up nothing that is
\* out, harms nothing when it is written of an intent that has not paid.
LEMMA WritingIsSafe ==
  ASSUME IInv, Sound, NEW i \in Ids, NEW status \in Statuses \ {"NONE", "COMPLETED"},
         Becomes(i, status), intent[i].status # "NONE", NoNewOpener, Out' \subseteq Out,
         status \in {"PENDING", "PROCESSING", "INDETERMINATE"} => i \in InFlight,
         UNCHANGED claim, mishaps \subseteq mishaps',
         mishaps' = {} => /\ i \notin With({"COMPLETED"})
                          /\ status \in Dropped => i \notin Out'
  PROVE  Safe
<1>1. /\ SameOpen /\ InFlight' \subseteq InFlight
      /\ \A k \in Ids \ {i} : intent'[k].status = intent[k].status
      /\ intent'[i].status = status
      /\ With({"COMPLETED"})' = With({"COMPLETED"}) \ {i}
  BY SetsAfter
<1>2. ASSUME mishaps' = {}, Unharmed
      PROVE  Unharmed'
  <2>1. ClaimIsTold'
    BY <1>1, <1>2 DEF Unharmed, ClaimIsTold
  <2>2. \A k \in Out' : k \in Ids
    BY DEF Out
  <2>3. \A k \in Out' : intent'[k].status \in Dropped =>
          intent'[k].status = intent[k].status
    BY <1>1, <1>2, <2>2
  <2> QED BY <1>1, <1>2, <2>1, <2>3, StillUnharmed
<1>3. KnownAreOpened'
  BY <1>1, KnownStay DEF Sound
<1> QED BY <1>2, <1>3 DEF Safe

\* process_successful_transfer: the claim is paid, or that is a mishap.
LEMMA CompletingIsSafe ==
  ASSUME IInv, Sound, NEW i \in Ids, Complete(i), intent[i].status # "NONE", NoNewOpener,
         UNCHANGED transfer
  PROVE  Safe
<1>1. SetStatus(i, "COMPLETED") /\ claim' = Marked
  BY DEF Complete
<1>2. /\ mishaps \subseteq mishaps'
      /\ mishaps' = {} => Marked.status = "PAID"
  BY DEF Complete, Record
<1>3. "COMPLETED" \in Statuses \ {"NONE"}
  BY DEF Statuses
<1>4. /\ SameOpen /\ InFlight' \subseteq InFlight
      /\ \A k \in Ids \ {i} : intent'[k].status = intent[k].status
      /\ intent'[i].status = "COMPLETED"
      /\ With({"COMPLETED"})' = With({"COMPLETED"}) \cup {i}
  BY <1>1, <1>3, SetBecomes, SetsAfter
<1>5. Marked.byHand = claim.byHand
  BY UntouchedTypes DEF Marked, Claims
<1>6. Out' = Out /\ \A k \in Out : k \in Ids
  BY DEF Out
<1>7. ASSUME mishaps' = {}, Unharmed
      PROVE  Unharmed'
  <2>1. claim'.status = "PAID"
    BY <1>1, <1>2, <1>7
  <2>2. ClaimIsTold'
    BY <1>4, <2>1 DEF ClaimIsTold
  <2>3. \A k \in Out' : intent'[k].status \in Dropped =>
          intent'[k].status = intent[k].status
    BY <1>4, <1>6 DEF Dropped
  <2> QED BY <1>1, <1>4, <1>5, <1>6, <1>7, <2>2, <2>3, StillUnharmed
<1>8. KnownAreOpened'
  BY <1>4, KnownStay DEF Sound
<1> QED BY <1>2, <1>7, <1>8 DEF Safe

\* mark_transfer_failed and process_transfer_reversal: the intent is no longer
\* a payment, and the claim is reopened with it, or left alone.
LEMMA RevertingIsSafe ==
  ASSUME IInv, Sound, NEW i \in Ids, NEW paid \in BOOLEAN, Revert(i, paid),
         NEW status \in Statuses \ {"NONE", "COMPLETED"}, SetStatus(i, status),
         status \in {"FAILED", "REVERSED", intent[i].status},
         status = "FAILED" => i \notin Out, intent[i].status # "NONE", NoNewOpener, UNCHANGED transfer
  PROVE  Safe
<1>1. /\ claim' = IF paid THEN [claim EXCEPT !.status = "APPROVED"] ELSE claim
      /\ mishaps \subseteq mishaps'
      /\ mishaps' = {} /\ paid => ~claim.byHand /\ With({"COMPLETED"}) \subseteq {i}
      /\ (mishaps' = {} /\ ~paid /\ intent[i].status = "COMPLETED") => claim.status # "PAID"
  BY DEF Revert
<1>2. /\ SameOpen
      /\ \A k \in Ids \ {i} : intent'[k].status = intent[k].status
      /\ intent'[i].status = status
      /\ status \notin {"PENDING", "PROCESSING", "INDETERMINATE"} \/ i \in InFlight =>
           InFlight' \subseteq InFlight
      /\ With({"COMPLETED"})' = With({"COMPLETED"}) \ {i}
  BY SetBecomes, SetsAfter
<1>3. InFlight' \subseteq InFlight
  <2>1. status \in {"PENDING", "PROCESSING", "INDETERMINATE"} => i \in InFlight
    BY DEF InFlight, With
  <2> QED BY <1>2, <2>1
<1>4. Out' = Out /\ \A k \in Out : k \in Ids
  BY DEF Out
<1>5. claim'.byHand = claim.byHand /\ (paid => claim'.status = "APPROVED")
  BY <1>1, UntouchedTypes DEF Claims
<1>6. ASSUME mishaps' = {}, Unharmed
      PROVE  Unharmed'
  <2>1. ClaimIsTold'
    <3>1. CASE paid
      BY <1>1, <1>2, <1>5, <1>6, <3>1 DEF ClaimIsTold
    <3>2. CASE ~paid
      <4>1. i \notin With({"COMPLETED"})
        BY <1>1, <1>6, <3>2 DEF Unharmed, ClaimIsTold, With
      <4> QED BY <1>1, <1>2, <1>6, <3>2, <4>1 DEF Unharmed, ClaimIsTold
    <3> QED BY <3>1, <3>2
  <2>2. \A k \in Out' : intent'[k].status \in Dropped =>
          intent'[k].status = intent[k].status
    BY <1>2, <1>4 DEF Dropped
  <2> QED BY <1>2, <1>3, <1>4, <1>5, <1>6, <2>1, <2>2, StillUnharmed
<1>7. KnownAreOpened'
  BY <1>2, KnownStay DEF Sound
<1> QED BY <1>1, <1>6, <1>7 DEF Safe

-----------------------------------------------------------------------------
(* The steps one by one.                                                   *)

LEMMA CheckIntentsIsSafe ==
  ASSUME IInv, Sound, NEW s \in Sessions, CheckIntents(s)
  PROVE  Safe
<1> DEFINE active == With({"PENDING", "PROCESSING"})
           read(i) == [IdleSession EXCEPT !.pc = "opening", !.i = i,
                         !.known = Cardinality(Opened)]
<1>1. PICK i \in active \cup {0} : (i = 0 => active = {}) /\ Start(s, read(i))
  BY DEF CheckIntents
<1>2. UNCHANGED <<claim, intent, transfer, heard, mishaps>> /\ With({"INDETERMINATE"}) = {}
  BY DEF CheckIntents
<1>3. i \in 0..MaxIntents /\ Cardinality(Opened) \in 0..MaxIntents
  BY HowManyOpened DEF With
<1>4. read(i) \in Reads /\ read(i).i = i /\ read(i).known = Cardinality(Opened)
  BY <1>3 DEF IdleSession, Reads, Statuses, TransferStates
<1> HIDE DEF read
<1>5. session'[s] = read(i) /\ \A t \in Sessions \ {s} : session'[t] = session[t]
  BY <1>1, <1>4, Starting DEF Others
<1>6. /\ Opened' = Opened /\ InFlight' = InFlight /\ Out' = Out
      /\ With({"COMPLETED"})' = With({"COMPLETED"})
  BY <1>2 DEF Opened, InFlight, With, Out
<1>7. KnownAreOpened'
  <2>1. Cardinality(Opened) <= Cardinality(Opened)
    BY <1>3
  <2> QED BY <1>4, <1>5, <1>6, <2>1 DEF Sound, KnownAreOpened, Opens
<1>8. ASSUME Unharmed
      PROVE  Unharmed'
  <2>1. InFlight \subseteq {i}
    <3>1. InFlight = active
      BY <1>2 DEF InFlight, With
    <3> QED BY <1>1, <1>8, <3>1 DEF Unharmed, OneInFlight
  <2>2. OpenersKnow'
    BY <1>4, <1>5, <1>6, <1>8, <2>1 DEF Unharmed, OpenersKnow, Opens
  <2>3. OneInFlight' /\ OneOut' /\ HandIsAlone' /\ ClaimIsTold' /\ GivenUpIsNotOut'
    BY <1>2, <1>6, <1>8
    DEF Unharmed, OneInFlight, OneOut, HandIsAlone, ClaimIsTold, GivenUpIsNotOut
  <2> QED BY <2>2, <2>3 DEF Unharmed
<1> QED BY <1>2, <1>7, <1>8 DEF Safe

LEMMA SendIsSafe ==
  ASSUME IInv, Sound, NEW s \in Sessions, NEW i \in Ids, Send(s, i)
  PROVE  Safe
<1> DEFINE read == [IdleSession EXCEPT !.pc = "sent", !.i = i, !.says = transfer[i]]
<1>1. /\ Start(s, read) /\ UNCHANGED <<claim, intent, heard, mishaps>>
      /\ intent[i].status = "PENDING" /\ claim.status = "APPROVED"
      /\ transfer' = [transfer EXCEPT ![i] = IF @ = "none" THEN "adrift" ELSE @]
  BY DEF Send
<1>2. read \in Reads /\ read.pc = "sent"
  <2>1. i \in 0..MaxIntents /\ transfer[i] \in TransferStates
    BY DEF IInv, TypeOK
  <2> QED BY <2>1, IdleReads DEF Reads
<1> HIDE DEF read
<1>3. NoNewOpener
  BY <1>1, <1>2, StartOpensNothing
<1>4. /\ SameOpen /\ InFlight' = InFlight
      /\ With({"COMPLETED"})' = With({"COMPLETED"})
  BY <1>1 DEF SameOpen, InFlight, With
<1>5. Out' \subseteq Out \cup {i}
  BY <1>1 DEF IInv, TypeOK, Out
<1>6. ASSUME Unharmed
      PROVE  Unharmed'
  <2>1. i \in InFlight
    BY <1>1 DEF InFlight, With
  <2>2. ~claim.byHand /\ Out \subseteq InFlight
    BY <1>1, <1>6, ApprovedIsUnpaid
  <2>3. Out' \subseteq {i}
    BY <1>5, <1>6, <2>1, <2>2 DEF Unharmed, OneInFlight
  <2>4. OneOut' /\ HandIsAlone' /\ GivenUpIsNotOut'
    BY <1>1, <2>2, <2>3 DEF OneOut, HandIsAlone, GivenUpIsNotOut, Dropped
  <2>5. OneInFlight' /\ ClaimIsTold'
    BY <1>1, <1>4, <1>6 DEF Unharmed, OneInFlight, ClaimIsTold
  <2>6. OpenersKnow'
    BY <1>3, <1>4, <1>6, OpenedStays DEF Unharmed, OpenersKnow, NoNewOpener, Opens
  <2> QED BY <2>4, <2>5, <2>6 DEF Unharmed
<1> QED BY <1>1, <1>3, <1>4, <1>6, KnownStay DEF Safe, Sound

LEMMA AnsweredIsSafe ==
  ASSUME IInv, Sound, NEW s \in Sessions, Answered(s)
  PROVE  Safe
<1>0. PICK i : i = session[s].i
  OBVIOUS
<1>1. session[s].pc = "sent" /\ End(s) /\ UNCHANGED transfer
  BY DEF Answered
<1>2. \/ Complete(i)
      \/ /\ \E status \in {"FAILED", "PROCESSING"} :
              SetStatus(i, status) /\ (status = "FAILED" => transfer[i] = "failed")
         /\ UNCHANGED <<claim, mishaps>>
  BY <1>0 DEF Answered
<1>3. i \in Ids /\ intent[i].status = "PENDING"
  BY <1>0, <1>1, OwnRow DEF IInv, Orderly, Relies, HoldsRow
<1>4. NoNewOpener
  BY <1>1, EndOpensNothing
<1>5. CASE Complete(i)
  BY <1>1, <1>3, <1>4, <1>5, CompletingIsSafe
<1>6. ASSUME NEW status \in {"FAILED", "PROCESSING"}, SetStatus(i, status),
             status = "FAILED" => transfer[i] = "failed", UNCHANGED <<claim, mishaps>>
      PROVE  Safe
  <2>1. status \in Statuses \ {"NONE", "COMPLETED"}
    BY DEF Statuses
  <2>2. i \in InFlight /\ i \notin With({"COMPLETED"}) /\ Out' \subseteq Out
    BY <1>1, <1>3 DEF InFlight, With, Out
  <2>3. status \in Dropped => i \notin Out'
    BY <1>1, <1>6 DEF Dropped, Out
  <2>4. Becomes(i, status)
    BY <1>3, <1>6, <2>1, SetBecomes
  <2> QED BY <1>3, <1>4, <1>6, <2>1, <2>2, <2>3, <2>4, WritingIsSafe
<1> QED BY <1>2, <1>5, <1>6

LEMMA UnobservedIsSafe ==
  ASSUME IInv, Sound, NEW s \in Sessions, Unobserved(s)
  PROVE  Safe
<1>0. PICK i : i = session[s].i
  OBVIOUS
<1>1. /\ session[s].pc = "sent" /\ End(s)
      /\ SetStatus(i, "INDETERMINATE")
      /\ UNCHANGED <<claim, transfer, mishaps>>
  BY <1>0 DEF Unobserved
<1>2. i \in Ids /\ intent[i].status = "PENDING"
  BY <1>0, <1>1, OwnRow DEF IInv, Orderly, Relies, HoldsRow
<1>3. "INDETERMINATE" \in Statuses \ {"NONE", "COMPLETED"}
  BY DEF Statuses
<1>4. i \in InFlight /\ i \notin With({"COMPLETED"}) /\ Out' \subseteq Out
  BY <1>1, <1>2 DEF InFlight, With, Out
<1>5. NoNewOpener
  BY <1>1, EndOpensNothing
<1>6. Becomes(i, "INDETERMINATE")
  BY <1>1, <1>2, <1>3, SetBecomes
<1> QED BY <1>1, <1>2, <1>3, <1>4, <1>5, <1>6, WritingIsSafe DEF Dropped

LEMMA RefusedIsSafe ==
  ASSUME IInv, Sound, NEW s \in Sessions, Refused(s)
  PROVE  Safe
<1>0. PICK i : i = session[s].i
  OBVIOUS
<1>1. PICK first \in BOOLEAN : first = (session[s].says = "none")
  OBVIOUS
<1>2. PICK misread \in BOOLEAN : misread = (~first /\ NotFailed(i))
  OBVIOUS
<1>3. /\ session[s].pc = "sent" /\ End(s)
      /\ transfer' = [transfer EXCEPT ![i] = IF first THEN "none" ELSE @]
      /\ \/ UNCHANGED <<intent, mishaps>>
         \/ /\ intent' = [intent EXCEPT ![i] = Failed(@, misread)]
            /\ Record(misread, "misread")
      /\ UNCHANGED claim
  BY <1>0, <1>1, <1>2 DEF Refused
<1>4. i \in Ids /\ intent[i].status = "PENDING"
  BY <1>0, <1>3, OwnRow DEF IInv, Orderly, Relies, HoldsRow
<1>5. NoNewOpener
  BY <1>3, EndOpensNothing
<1>6. transfer \in [Ids -> TransferStates] /\ intent[i] \in Rows
  BY <1>4 DEF IInv, TypeOK
<1>7. Out' \subseteq Out /\ (~misread => i \notin Out')
  BY <1>2, <1>3, <1>4, <1>6 DEF NotFailed, Out
<1>8. CASE UNCHANGED <<intent, mishaps>>
  BY <1>3, <1>5, <1>7, <1>8, StatusesStand
<1>9. CASE /\ intent' = [intent EXCEPT ![i] = Failed(@, misread)]
           /\ Record(misread, "misread")
  <2>1. PICK row : row = Failed(intent[i], misread)
    OBVIOUS
  <2>2. row \in Rows /\ row.status = "FAILED"
    BY <1>6, <2>1, Failing
  <2>3. Becomes(i, "FAILED")
    BY <1>4, <1>9, <2>1, <2>2, RowBecomes
  <2>4. "FAILED" \in Statuses \ {"NONE", "COMPLETED"}
    BY DEF Statuses
  <2>5. i \notin With({"COMPLETED"})
    BY <1>4 DEF With
  <2>6. mishaps \subseteq mishaps' /\ (mishaps' = {} => i \notin Out')
    BY <1>7, <1>9 DEF Record
  <2> QED BY <1>3, <1>4, <1>5, <1>7, <2>3, <2>4, <2>5, <2>6, WritingIsSafe
<1> QED BY <1>3, <1>8, <1>9

LEMMA PollSettleIsSafe ==
  ASSUME IInv, Sound, NEW s \in Sessions, PollSettle(s)
  PROVE  Safe
<1>0. PICK i : i = session[s].i
  OBVIOUS
<1>1. PICK paid \in BOOLEAN : paid = (claim.status = "PAID")
  OBVIOUS
<1>2. session[s].pc = "polling" /\ End(s) /\ UNCHANGED transfer
  BY DEF PollSettle
<1>3. \/ Complete(i)
      \/ session[s].says = "failed" /\ SetStatus(i, "FAILED") /\ Revert(i, paid)
      \/ SetStatus(i, "REVERSED") /\ Revert(i, paid)
      \/ NoVerdict(i, session[s].says) /\ UNCHANGED claim
  BY <1>0, <1>1 DEF PollSettle
<1>4. /\ i \in Ids /\ Told(session[s].says, i)
      /\ \/ intent[i].status = "INDETERMINATE"
         \/ intent[i].status = "PROCESSING" /\ intent[i].polls < MaxPolls
  BY <1>0, <1>2, OwnRow DEF IInv, Orderly, Relies, HoldsRow
<1>5. NoNewOpener
  BY <1>2, EndOpensNothing
<1>6. CASE Complete(i)
  BY <1>2, <1>4, <1>5, <1>6, CompletingIsSafe
<1>7. ASSUME NEW status \in {"FAILED", "REVERSED"}, SetStatus(i, status), Revert(i, paid),
             status = "FAILED" => session[s].says = "failed"
      PROVE  Safe
  <2>1. status \in Statuses \ {"NONE", "COMPLETED"}
    BY DEF Statuses
  <2>2. status = "FAILED" => i \notin Out
    BY <1>4, <1>7 DEF Told, Out
  <2> QED BY <1>2, <1>4, <1>5, <1>7, <2>1, <2>2, RevertingIsSafe
<1>8. CASE intent' = intent /\ UNCHANGED <<claim, mishaps>>
  <2>1. Out' \subseteq Out
    BY <1>2 DEF Out
  <2> QED BY <1>5, <1>8, <2>1, StatusesStand
<1>9. CASE /\ intent[i].status # "INDETERMINATE"
           /\ NoVerdict(i, session[s].says)
           /\ UNCHANGED claim
  <2>1. PICK row \in Rows :
          /\ intent' = [intent EXCEPT ![i] = row]
          /\ row.status \in {"PROCESSING", "INDETERMINATE", "FAILED"}
          /\ row.status = "FAILED" /\ NotFailed(i) => "misread" \in mishaps'
          /\ mishaps \subseteq mishaps'
    BY <1>4, <1>9, Attempted
  <2>2. PICK status : status = row.status
    OBVIOUS
  <2>3. Becomes(i, status)
    BY <1>4, <2>1, <2>2, RowBecomes
  <2>4. status \in Statuses \ {"NONE", "COMPLETED"}
    BY <2>1, <2>2 DEF Statuses
  <2>5. i \in InFlight /\ i \notin With({"COMPLETED"}) /\ Out' = Out
    BY <1>2, <1>4 DEF InFlight, With, Out
  <2>6. mishaps' = {} /\ status \in Dropped => i \notin Out'
    BY <1>2, <2>1, <2>2 DEF Dropped, NotFailed, Out
  <2> QED BY <1>4, <1>5, <1>9, <2>1, <2>3, <2>4, <2>5, <2>6, WritingIsSafe
<1>10. CASE NoVerdict(i, session[s].says) /\ UNCHANGED claim
  BY <1>8, <1>9, <1>10 DEF NoVerdict
<1> QED BY <1>3, <1>6, <1>7, <1>10

LEMMA HandleIsSafe ==
  ASSUME IInv, Sound, NEW s \in Sessions, Handle(s)
  PROVE  Safe
<1>0. PICK i : i = session[s].i
  OBVIOUS
<1>1. PICK paid \in BOOLEAN : paid = session[s].paid
  BY DEF IInv, TypeOK, Reads
<1>2. session[s].pc = "hearing" /\ End(s) /\ UNCHANGED transfer
  BY DEF Handle
<1>3. \/ UNCHANGED <<claim, intent, mishaps>>
      \/ Complete(i)
      \/ /\ session[s].says = "failed"
         /\ Overwrite(s, "FAILED") /\ Revert(i, paid)
      \/ /\ session[s].seen # "REVERSED"
         /\ Overwrite(s, "REVERSED") /\ Revert(i, paid)
  BY <1>0, <1>1 DEF Handle
<1>4. i \in Ids /\ intent[i].status # "NONE" /\ Told(session[s].says, i)
  BY <1>0, <1>2 DEF IInv, Orderly, Relies
<1>5. NoNewOpener
  BY <1>2, EndOpensNothing
<1>6. CASE UNCHANGED <<claim, intent, mishaps>>
  <2>1. Out' \subseteq Out
    BY <1>2 DEF Out
  <2> QED BY <1>5, <1>6, <2>1, StatusesStand
<1>7. CASE Complete(i)
  BY <1>2, <1>4, <1>5, <1>7, CompletingIsSafe
<1>8. CASE session[s].says = "failed" /\ Overwrite(s, "FAILED") /\ Revert(i, paid)
  <2>1. PICK status \in {"FAILED", intent[i].status} : SetStatus(i, status)
    BY <1>0, <1>8, Overwriting
  <2>2. intent[i].status \in Statuses \ {"NONE", "COMPLETED"}
    BY <1>4, <1>8 DEF IInv, TypeOK, Rows, VerdictsAreTrue, VerdictIsTrue, Told
  <2>3. status \in Statuses \ {"NONE", "COMPLETED"}
    BY <2>2 DEF Statuses
  <2>4. i \notin Out
    BY <1>4, <1>8 DEF Told, Out
  <2> QED BY <1>2, <1>4, <1>5, <1>8, <2>1, <2>3, <2>4, RevertingIsSafe
<1>9. CASE session[s].seen # "REVERSED" /\ Overwrite(s, "REVERSED") /\ Revert(i, paid)
  <2>1. SetStatus(i, "REVERSED")
    BY <1>0, <1>9 DEF Overwrite
  <2>2. "REVERSED" \in Statuses \ {"NONE", "COMPLETED"}
    BY DEF Statuses
  <2> QED BY <1>2, <1>4, <1>5, <1>9, <2>1, <2>2, RevertingIsSafe
<1> QED BY <1>3, <1>6, <1>7, <1>8, <1>9

LEMMA ResetWriteIsSafe ==
  ASSUME IInv, Sound, NEW s \in Sessions, ResetWrite(s)
  PROVE  Safe
<1>0. PICK i : i = session[s].i
  OBVIOUS
<1>1. /\ session[s].pc = "resetting" /\ End(s)
      /\ Overwrite(s, "ABANDONED")
      /\ Record(Hides(i), "forced")
      /\ UNCHANGED <<claim, transfer>>
  BY <1>0 DEF ResetWrite
<1>2. i \in Ids /\ intent[i].status # "NONE"
  BY <1>0, <1>1 DEF IInv, Orderly, Relies
<1>3. PICK status \in {"ABANDONED", intent[i].status} : SetStatus(i, status)
  BY <1>0, <1>1, Overwriting
<1>4. NoNewOpener
  BY <1>1, EndOpensNothing
<1>5. mishaps \subseteq mishaps' /\ (mishaps' = {} => ~Hides(i))
  BY <1>1 DEF Record
<1>6. Out' = Out /\ \A k \in Out : k \in Ids
  BY <1>1 DEF Out
<1>7. ASSUME status # "COMPLETED"
      PROVE  Safe
  <2>1. status \in Statuses \ {"NONE", "COMPLETED"}
    BY <1>2, <1>3, <1>7 DEF IInv, TypeOK, Rows, Statuses
  <2>2. status \in {"PENDING", "PROCESSING", "INDETERMINATE"} => i \in InFlight
    BY <1>2, <1>3 DEF InFlight, With
  <2>3. mishaps' = {} => i \notin With({"COMPLETED"}) /\ i \notin Out'
    BY <1>5, <1>6 DEF Hides, With
  <2>4. Becomes(i, status)
    BY <1>2, <1>3, <2>1, SetBecomes
  <2> QED BY <1>1, <1>2, <1>4, <1>5, <1>6, <2>1, <2>2, <2>3, <2>4, WritingIsSafe
<1>8. ASSUME status = "COMPLETED"
      PROVE  Safe
  <2>1. intent[i].status = "COMPLETED"
    BY <1>3, <1>8
  <2>2. mishaps' # {}
    BY <1>5, <2>1 DEF Hides
  <2>3. "COMPLETED" \in Statuses \ {"NONE"}
    BY DEF Statuses
  <2>4. KnownAreOpened'
    BY <1>2, <1>3, <1>4, <1>8, <2>3, SetBecomes, SetsAfter, KnownStay DEF Sound
  <2> QED BY <2>2, <2>4 DEF Safe
<1> QED BY <1>7, <1>8

LEMMA ExpirePendingIsSafe ==
  ASSUME IInv, Sound, NEW i \in Ids, ExpirePending(i)
  PROVE  Safe
<1>1. /\ intent[i].status = "PENDING" /\ SetStatus(i, "EXPIRED")
      /\ Record(Hides(i), "expired in flight")
      /\ UNCHANGED <<claim, transfer, session>>
  BY DEF ExpirePending
<1>2. "EXPIRED" \in Statuses \ {"NONE", "COMPLETED"}
  BY DEF Statuses
<1>3. NoNewOpener
  BY <1>1 DEF NoNewOpener
<1>4. Out' = Out
  BY <1>1 DEF Out
<1>5. mishaps \subseteq mishaps' /\ (mishaps' = {} => i \notin Out')
  BY <1>1, <1>4 DEF Record, Hides
<1>6. i \notin With({"COMPLETED"})
  BY <1>1 DEF With
<1>7. Becomes(i, "EXPIRED")
  BY <1>1, <1>2, SetBecomes
<1> QED BY <1>1, <1>2, <1>3, <1>4, <1>5, <1>6, <1>7, WritingIsSafe

\* create_expense_payment_intent: the new intent is the only one in flight,
\* unless the request did not see another, and the one it expires has no money
\* out, unless that is a mishap.
LEMMA OpenIntentIsSafe ==
  ASSUME IInv, Sound, NEW s \in Sessions, OpenIntent(s)
  PROVE  Safe
<1>0. PICK old : old = session[s].i
  OBVIOUS
<1>1. PICK new : new = Cardinality(Opened) + 1
  OBVIOUS
<1>2. /\ session[s].pc = "opening" /\ End(s)
      /\ new \in Ids
      /\ claim.status = "APPROVED"
      /\ intent' = [i \in Ids |-> IF i = new THEN [intent[i] EXCEPT !.status = "PENDING"]
                                 ELSE IF i = old THEN [intent[i] EXCEPT !.status = "EXPIRED"]
                                 ELSE intent[i]]
      /\ UNCHANGED <<claim, transfer>>
  BY <1>0, <1>1 DEF OpenIntent
<1>14. mishaps' = mishaps
         \cup (IF new > session[s].known + 1 THEN {"opened twice"} ELSE {})
         \cup (IF old # 0 /\ Hides(old) THEN {"expired in flight"} ELSE {})
  BY <1>0, <1>1 DEF OpenIntent
<1>3. /\ Cardinality(Opened) \in 0..MaxIntents
      /\ \A i \in Ids : intent[i].status = "NONE" <=> i > Cardinality(Opened)
  BY HowManyOpened
<1>4. intent[new].status = "NONE"
  BY <1>1, <1>2, <1>3
<1>5. /\ old # 0 => old \in Ids /\ intent[old].status # "NONE"
      /\ session[s].known \in 0..MaxIntents
  BY <1>0, <1>2 DEF IInv, TypeOK, Reads, Orderly, Relies
<1>6. intent \in [Ids -> Rows]
  BY DEF IInv, TypeOK
<1>7. /\ intent'[new].status = "PENDING"
      /\ old # 0 => intent'[old].status = "EXPIRED"
      /\ \A i \in Ids \ {new, old} : intent'[i] = intent[i]
  <2>1. \A i \in Ids : /\ [intent[i] EXCEPT !.status = "PENDING"].status = "PENDING"
                       /\ [intent[i] EXCEPT !.status = "EXPIRED"].status = "EXPIRED"
    BY <1>6 DEF Rows
  <2>2. old # 0 => old \in Ids /\ old # new
    BY <1>4, <1>5
  <2> QED BY <1>2, <2>1, <2>2
<1>8. Opened' = Opened \cup {new}
  BY <1>2, <1>5, <1>7 DEF Opened
<1>9. Cardinality(Opened') = new
  <2>1. IsFiniteSet(Opened)
    BY FS_Interval, FS_Subset, 1 \in Int, MaxIntents \in Int DEF Opened
  <2>2. new \notin Opened
    BY <1>4 DEF Opened
  <2> QED BY <1>1, <1>8, <2>1, <2>2, FS_AddElement
<1>10. session'[s].pc = "idle" /\ \A t \in Sessions \ {s} : session'[t] = session[t]
  BY <1>2, Ending DEF Others
<1>11. \A t \in Sessions : Opens(t)' =>
         session'[t].known \in Nat /\ session'[t].known < new
  <2> SUFFICES ASSUME NEW t \in Sessions, Opens(t)'
               PROVE  session'[t].known \in Nat /\ session'[t].known < new
    OBVIOUS
  <2>1. t # s /\ session'[t] = session[t] /\ session[t] \in Reads
    BY <1>10 DEF Opens, IInv, TypeOK
  <2>2. session[t].known <= Cardinality(Opened)
    BY <2>1 DEF Sound, KnownAreOpened, Opens
  <2> QED BY <1>1, <1>3, <2>1, <2>2 DEF Reads
<1>12. KnownAreOpened'
  BY <1>2, <1>9, <1>11 DEF KnownAreOpened
<1>13. ASSUME mishaps' = {}, Unharmed
       PROVE  Unharmed'
  <2>1. new <= session[s].known + 1 /\ (old # 0 => ~Hides(old))
    <3>1. ~(new > session[s].known + 1) /\ ~(old # 0 /\ Hides(old))
      BY <1>13, <1>14
    <3>2. new \in Int /\ session[s].known + 1 \in Int
      BY <1>2, <1>5
    <3> QED BY <3>1, <3>2
  <2>2. session[s].known = Cardinality(Opened)
    <3>1. session[s].known <= Cardinality(Opened)
      BY <1>2 DEF Sound, KnownAreOpened, Opens
    <3> QED BY <1>1, <1>3, <1>5, <2>1, <3>1
  <2>3. InFlight \subseteq {old}
    BY <1>0, <1>2, <1>13, <2>2 DEF Unharmed, OpenersKnow, Opens
  <2>4. InFlight' = {new}
    <3>1. \A i \in Ids \ {new, old} : i \notin InFlight'
      BY <1>7, <2>3 DEF InFlight, With
    <3>2. old \notin InFlight'
      BY <1>7 DEF InFlight, With
    <3>3. new \in InFlight'
      BY <1>2, <1>7 DEF InFlight, With
    <3>4. InFlight' \subseteq Ids
      BY DEF InFlight, With
    <3> QED BY <3>1, <3>2, <3>3, <3>4
  <2>5. Out' = Out /\ Out \subseteq InFlight /\ ~claim.byHand /\ With({"COMPLETED"}) = {}
    BY <1>2, <1>13, ApprovedIsUnpaid DEF Out
  <2>6. Out = {}
    BY <2>1, <2>3, <2>5 DEF Hides, InFlight, With, Out
  <2>7. With({"COMPLETED"})' = {}
    BY <1>2, <1>5, <1>7, <2>5 DEF With
  <2>8. OneInFlight' /\ OneOut' /\ GivenUpIsNotOut' /\ HandIsAlone'
    BY <2>4, <2>5, <2>6 DEF OneInFlight, OneOut, GivenUpIsNotOut, HandIsAlone
  <2>9. ClaimIsTold'
    BY <1>2, <2>5, <2>7 DEF ClaimIsTold
  <2>10. OpenersKnow'
    BY <1>9, <1>11 DEF OpenersKnow
  <2> QED BY <2>8, <2>9, <2>10 DEF Unharmed
<1> QED BY <1>12, <1>13, <1>14 DEF Safe

\* mark_paid by hand: nothing is in flight, and the claim is not paid.
LEMMA PayByHandIsSafe ==
  ASSUME IInv, Sound, PayByHand
  PROVE  Safe
<1>1. /\ claim.status = "APPROVED" /\ ~claim.marked /\ InFlight = {}
      /\ claim' = [Marked EXCEPT !.byHand = TRUE]
      /\ UNCHANGED <<intent, transfer, session, mishaps>>
  BY DEF PayByHand
<1>2. claim'.byHand /\ claim'.status = "PAID"
  <2>1. claim \in Claims
    BY UntouchedTypes
  <2> QED BY <1>1, <2>1 DEF Claims, Marked
<1>3. SameOpen /\ NoNewOpener /\ InFlight' = InFlight /\ Out' = Out
  BY <1>1 DEF SameOpen, NoNewOpener, InFlight, With, Out
<1>4. ASSUME Unharmed
      PROVE  Unharmed'
  <2>1. Out = {}
    BY <1>1, <1>4, ApprovedIsUnpaid
  <2>2. ClaimIsTold'
    BY <1>2 DEF ClaimIsTold
  <2>3. \A k \in Out' : intent'[k].status \in Dropped =>
          intent'[k].status = intent[k].status
    BY <1>1
  <2> QED BY <1>3, <1>4, <2>1, <2>2, <2>3, StillUnharmed
<1> QED BY <1>1, <1>3, <1>4, KnownStay DEF Safe, Sound

LEMMA ReadingIsSafe ==
  ASSUME IInv, Sound, NEW s \in Sessions, NEW i \in Ids,
         \/ RollBack(s)
         \/ \E says \in Answers(i) : Poll(s, i, says)
         \/ \E v \in Verdicts : Hear(s, i, v)
         \/ ResetLoad(s)
  PROVE  Safe
<1>1. UNCHANGED <<claim, intent, transfer, mishaps>>
  BY DEF RollBack, Poll, Hear, ResetLoad
<1>2. NoNewOpener
  <2>1. CASE RollBack(s)
    BY <2>1, EndOpensNothing DEF RollBack
  <2>2. CASE ~RollBack(s)
    <3>1. \E read : Start(s, read) /\ read.pc # "opening"
      <4>1. CASE \E says \in Answers(i) : Poll(s, i, says)
        <5>1. PICK says \in Answers(i) : Poll(s, i, says)
          BY <4>1
        <5> DEFINE read == [IdleSession EXCEPT !.pc = "polling", !.i = i, !.says = says]
        <5>2. Start(s, read)
          BY <5>1 DEF Poll
        <5>3. read.pc # "opening"
          BY DEF IdleSession
        <5> QED BY <5>2, <5>3
      <4>2. CASE \E v \in Verdicts : Hear(s, i, v)
        <5>1. PICK v \in Verdicts : Hear(s, i, v)
          BY <4>2
        <5> DEFINE read == [pc |-> "hearing", i |-> i, seen |-> intent[i].status,
                            paid |-> claim.status = "PAID", known |-> 0, says |-> v]
        <5>2. Start(s, read)
          BY <5>1 DEF Hear
        <5>3. read.pc # "opening"
          OBVIOUS
        <5> QED BY <5>2, <5>3
      <4>3. CASE ResetLoad(s)
        <5> DEFINE latest == Cardinality(Opened)
                   read == [IdleSession EXCEPT !.pc = "resetting", !.i = latest,
                              !.seen = intent[latest].status]
        <5>1. Start(s, read)
          BY <4>3 DEF ResetLoad
        <5>2. read.pc # "opening"
          BY DEF IdleSession
        <5> QED BY <5>1, <5>2
      <4> QED BY <2>2, <4>1, <4>2, <4>3
    <3>2. PICK read : Start(s, read) /\ read.pc # "opening"
      BY <3>1
    <3>3. session'[s] = read /\ \A t \in Sessions \ {s} : session'[t] = session[t]
      BY <3>2 DEF Start, IInv, TypeOK
    <3> QED BY <3>2, <3>3 DEF NoNewOpener, Opens
  <2> QED BY <2>1, <2>2
<1>3. Out' \subseteq Out
  BY <1>1 DEF Out
<1> QED BY <1>1, <1>2, <1>3, StatusesStand

LEMMA OutsideIsSafe ==
  ASSUME IInv, Sound, NEW i \in Ids, Arrive(i) \/ Lose(i) \/ Conclude(i) \/ Lapse(i)
  PROVE  Safe
<1>1. UNCHANGED <<claim, session, mishaps>>
  BY DEF Arrive, Lose, Conclude, Lapse
<1>2. NoNewOpener
  BY <1>1 DEF NoNewOpener
<1>3. transfer \in [Ids -> TransferStates] /\ intent \in [Ids -> Rows]
  BY DEF IInv, TypeOK
<1>4. Out' \subseteq Out
  BY <1>3 DEF Arrive, Lose, Conclude, Lapse, Out
<1>5. \A k \in Ids : intent'[k].status = intent[k].status
  <2>1. CASE Lapse(i)
    <3>1. [intent[i] EXCEPT !.due = TRUE].status = intent[i].status
      BY <1>3 DEF Rows
    <3> QED BY <1>3, <2>1, <3>1 DEF Lapse
  <2>2. CASE ~Lapse(i)
    BY <2>2 DEF Arrive, Lose, Conclude
  <2> QED BY <2>1, <2>2
<1> QED BY <1>1, <1>2, <1>4, <1>5, StatusesStand

LEMMA NextIsSafe == IInv /\ Sound /\ [Next]_vars => Safe
<1> SUFFICES ASSUME IInv, Sound, [Next]_vars
             PROVE  Safe
  OBVIOUS
<1>1. ASSUME NEW s \in Sessions, SessionStep(s)
      PROVE  Safe
  <2>1. CASE CheckIntents(s) \/ OpenIntent(s)
    BY <2>1, CheckIntentsIsSafe, OpenIntentIsSafe
  <2>2. CASE Answered(s) \/ Refused(s) \/ Unobserved(s)
    BY <2>2, AnsweredIsSafe, RefusedIsSafe, UnobservedIsSafe
  <2>3. CASE PollSettle(s) \/ Handle(s) \/ ResetWrite(s)
    BY <2>3, PollSettleIsSafe, HandleIsSafe, ResetWriteIsSafe
  <2>4. ASSUME NEW i \in Ids, Send(s, i)
        PROVE  Safe
    BY <2>4, SendIsSafe
  <2>5. CASE RollBack(s) \/ ResetLoad(s)
    <3>1. 1 \in Ids
      OBVIOUS
    <3> QED BY <2>5, <3>1, ReadingIsSafe
  <2>6. ASSUME NEW i \in Ids, NEW says \in Answers(i), Poll(s, i, says)
        PROVE  Safe
    BY <2>6, ReadingIsSafe
  <2>7. ASSUME NEW i \in Ids, NEW v \in Verdicts, Hear(s, i, v)
        PROVE  Safe
    BY <2>7, ReadingIsSafe
  <2> QED BY <1>1, <2>1, <2>2, <2>3, <2>4, <2>5, <2>6, <2>7 DEF SessionStep
<1>2. CASE PayByHand
  BY <1>2, PayByHandIsSafe
<1>3. ASSUME NEW i \in Ids,
             ExpirePending(i) \/ Arrive(i) \/ Lose(i) \/ Conclude(i) \/ Lapse(i)
      PROVE  Safe
  BY <1>3, ExpirePendingIsSafe, OutsideIsSafe
<1>4. CASE UNCHANGED vars
  <2>1. UNCHANGED <<claim, intent, transfer, session, mishaps>>
    BY <1>4 DEF vars
  <2>2. NoNewOpener /\ Out' \subseteq Out
    BY <2>1 DEF NoNewOpener, Out
  <2> QED BY <2>1, <2>2, StatusesStand
<1> QED BY <1>1, <1>2, <1>3, <1>4 DEF Next, Step

LEMMA InitIsSound == Init => Sound
<1> SUFFICES ASSUME Init
             PROVE  Sound
  OBVIOUS
<1>1. \A i \in Ids : intent[i].status = "NONE" /\ transfer[i] = "none"
  BY DEF Init
<1>2. InFlight = {} /\ Out = {} /\ With({"COMPLETED"}) = {}
  BY <1>1 DEF InFlight, Out, With
<1>3. \A s \in Sessions : ~Opens(s)
  BY IdleReads DEF Init, Opens
<1>4. claim.status = "APPROVED" /\ ~claim.byHand
  BY DEF Init
<1> QED BY <1>2, <1>3, <1>4 DEF Sound, KnownAreOpened, Unharmed, OneInFlight, OneOut,
          GivenUpIsNotOut, HandIsAlone, ClaimIsTold, OpenersKnow

LEMMA Soundness == Spec => []Sound
<1>1. IInv /\ Sound /\ [Next]_vars => Sound'
  BY NextIsSafe DEF Safe, Sound
<1> QED BY InitIsSound, Invariance, <1>1, PTL DEF Spec

\* The money of a claim is out, or may be out, once for any number of sessions,
\* intents and polls, unless a session takes one of the steps that mishaps names:
\* create_expense_payment_intent, initiate_expense_transfer, the pollers, the
\* webhooks, the reset and mark_paid pay it twice in no other way.
THEOREM ClaimIsPaidOnce == Spec => []PaidOnce
<1>1. ASSUME Sound
      PROVE  PaidOnce
  <2> SUFFICES ASSUME mishaps = {}
               PROVE  Cardinality(Out) + (IF claim.byHand THEN 1 ELSE 0) <= 1
    BY DEF PaidOnce, PaidAtMostOnce
  <2>1. OneOut /\ HandIsAlone
    BY <1>1 DEF Sound, Unharmed
  <2>2. CASE Out = {}
    BY <2>2, FS_EmptySet
  <2>3. CASE Out # {}
    <3>1. PICK i : i \in Out
      BY <2>3
    <3>2. Out = {i} /\ ~claim.byHand
      BY <2>1, <3>1 DEF OneOut, HandIsAlone
    <3>3. Cardinality({i}) = 1
      BY FS_Singleton
    <3> QED BY <3>2, <3>3
  <2> QED BY <2>2, <2>3
<1> QED BY <1>1, Soundness, PTL

\* And the claim reads PAID exactly while mark_paid by hand, or an intent that is
\* COMPLETED, stands for it: what process_successful_transfer and
\* process_transfer_reversal write of the intent and of the claim agrees.
THEOREM ClaimTellsThePayment == Spec => []ClaimTells
<1>1. Sound => ClaimTells
  BY DEF Sound, Unharmed, ClaimIsTold, ClaimTells
<1> QED BY <1>1, Soundness, PTL

=============================================================================
