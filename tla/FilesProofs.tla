----------------------------- MODULE FilesProofs -----------------------------
(***************************************************************************)
(* Proofs about what users do to files.                                    *)
(*                                                                         *)
(* First SFTP uploads, for any handles, any packets in any order, any      *)
(* limits and any number of refused saves.                                 *)
(*                                                                         *)
(* Then the virtual file system they are saved to, for any names, paths,   *)
(* lengths and limits: the counters are exact and the budgets hold, every  *)
(* node has one place, and the attributes i and a are respected.  An       *)
(* operation on a tree is stated as a relation between two trees           *)
(* (IsGrown, IsPruned, IsMoved, Edited), which is proved to keep the tree  *)
(* whole; each action is then one of them.                                 *)
(***************************************************************************)
EXTENDS SftpWriter, Vfs, Integers, FiniteSetTheorems, SequenceTheorems,
        WellFoundedInduction, TLAPS

Methods == {"none", "WriteAt", "Close", "TransferError"}
Buffers == Seq(0..MaxWrites)

LEMMA UploadLimits ==
  /\ MaxUploadSize \in Nat /\ MaxWrites \in Nat /\ MaxFailures \in Nat
  /\ FlushStep \in Nat /\ FlushStep > 0
BY WriterAssumption

LEMMA PacketTypes ==
  ASSUME NEW w \in Write
  PROVE  w.number \in 1..MaxWrites /\ w.packet[1] \in Nat /\ w.packet[2] \in Nat
BY WriterAssumption DEF Write

\* What overlaying does to a buffer: it never gets shorter.
LEMMA OverlayTypes ==
  ASSUME NEW old \in Buffers, NEW off \in Nat, NEW len \in Nat, NEW k \in 1..MaxWrites
  PROVE  /\ Overlay(old, off, len, k) \in Buffers
         /\ Len(Overlay(old, off, len, k)) = IF off + len > Len(old) THEN off + len ELSE Len(old)
<1> DEFINE n == IF off + len > Len(old) THEN off + len ELSE Len(old)
           f(i) == IF i \in (off + 1)..(off + len) THEN k ELSE IF i <= Len(old) THEN old[i] ELSE 0
           s == [i \in 1..n |-> f(i)]
<1>1. n \in Nat /\ MaxWrites \in Nat
  BY UploadLimits DEF Buffers
<1>2. \A i \in 1..n : f(i) \in 0..MaxWrites
  BY <1>1 DEF Buffers
<1> HIDE DEF n, f
<1>3. s \in Seq(0..MaxWrites) /\ Len(s) = n
  BY <1>1, <1>2
<1>4. Overlay(old, off, len, k) = s
  BY DEF Overlay, n, f
<1> QED
  BY <1>3, <1>4 DEF Buffers, n

------------------------------------------------------------------------------
(***************************************************************************)
(* Types.                                                                  *)
(***************************************************************************)
ClientTypes ==
  /\ phase \in [Handles -> {"open", "closing", "broken"}]
  /\ numbered \in [Handles -> 0..MaxWrites]
  /\ waiting \in [Handles -> SUBSET Write]
  /\ told \subseteq Handles

WriterTypes ==
  /\ buf \in [Handles -> Buffers]
  /\ pubSize \in [Handles -> Nat]
  /\ \A h \in Handles : Len(buf[h]) <= MaxUploadSize /\ pubSize[h] <= Len(buf[h])
  /\ dirty \in [Handles -> BOOLEAN] /\ closed \in [Handles -> BOOLEAN]
  /\ locked \in [Handles -> {"free", "save", "publish"}]
  /\ caller \in [Handles -> Methods]

FileTypes ==
  /\ file = <<>> \/ file \in Handles \X Buffers
  /\ events \in [Handles -> Seq(Nat)]
  /\ failures \in 0..MaxFailures

Types == ClientTypes /\ WriterTypes /\ FileTypes

LEMMA TypesAreTypeOK == Types => TypeOK
BY UploadLimits DEF Types, ClientTypes, WriterTypes, FileTypes, TypeOK, Methods, Buffers

LEMMA InitTypes == Init => Types
BY UploadLimits DEF Init, Types, ClientTypes, WriterTypes, FileTypes, Methods, Buffers

LEMMA StepTypes == Types /\ [Next]_vars => Types'
<1> SUFFICES ASSUME Types, [Next]_vars PROVE Types'
  OBVIOUS
<1> USE UploadLimits DEF Types
<1>1. CASE UNCHANGED vars
  BY <1>1 DEF vars, clientVars, writerVars, fileVars, ClientTypes, WriterTypes, FileTypes
<1> SUFFICES ASSUME NEW h \in Handles, SendWrite(h) \/ SendClose(h) \/ Break(h) \/ ServerStep(h)
             PROVE  Types'
  BY <1>1 DEF Next
<1>2. CASE SendWrite(h)
  <2>1. PICK p \in Packets :
          waiting' = [waiting EXCEPT ![h] = @ \union {[number |-> numbered[h] + 1, packet |-> p]}]
    BY <1>2 DEF SendWrite
  <2>2. [number |-> numbered[h] + 1, packet |-> p] \in Write
    BY <1>2 DEF SendWrite, ClientTypes, Write
  <2> QED
    BY <1>2, <2>1, <2>2
       DEF SendWrite, ClientTypes, WriterTypes, FileTypes, writerVars, fileVars
<1>3. CASE SendClose(h) \/ Break(h)
  BY <1>3 DEF SendClose, Break, ClientTypes, WriterTypes, FileTypes, writerVars, fileVars
<1>4. ASSUME NEW w \in waiting[h], WriteAt(h, w) PROVE Types'
  <2> DEFINE off == w.packet[1]
             len == w.packet[2]
             new == Overlay(buf[h], off, len, w.number)
  <2>1. w \in Write /\ buf[h] \in Buffers
    BY <1>4 DEF ClientTypes, WriterTypes
  <2>2. off \in Nat /\ len \in Nat /\ w.number \in 1..MaxWrites
    BY <2>1, PacketTypes
  <2>3. new \in Buffers /\ Len(new) = IF off + len > Len(buf[h]) THEN off + len ELSE Len(buf[h])
    <3> HIDE DEF off, len
    <3> QED BY <2>1, <2>2, OverlayTypes
  <2>4. ClientTypes' /\ FileTypes'
    BY <1>4 DEF WriteAt, ClientTypes, FileTypes, fileVars
  <2>5. CASE off + len > MaxUploadSize
    BY <1>4, <2>4, <2>5 DEF WriteAt, WriterTypes, writerVars
  <2>6. CASE ~(off + len > MaxUploadSize)
    <3>1. /\ buf' = [buf EXCEPT ![h] = new]
          /\ dirty' = [dirty EXCEPT ![h] = TRUE]
          /\ UNCHANGED <<pubSize, closed>>
          /\ \/ /\ locked' = [locked EXCEPT ![h] = "save"]
                /\ caller' = [caller EXCEPT ![h] = "WriteAt"]
             \/ UNCHANGED <<locked, caller>>
      BY <1>4, <2>6 DEF WriteAt
    <3> HIDE DEF new
    <3>2. buf' \in [Handles -> Buffers]
      BY <2>3, <3>1 DEF WriterTypes
    <3>3. Len(new) \in Nat /\ Len(buf[h]) \in Nat /\ Len(new) <= MaxUploadSize
          /\ Len(buf[h]) <= Len(new)
      BY <2>1, <2>2, <2>3, <2>6 DEF WriterTypes, Buffers
    <3>4. \A g \in Handles : Len(buf'[g]) <= MaxUploadSize /\ pubSize'[g] <= Len(buf'[g])
      BY <3>1, <3>3 DEF WriterTypes
    <3> QED
      BY <2>4, <3>1, <3>2, <3>4 DEF WriterTypes, Methods
  <2> QED
    BY <2>5, <2>6
<1>5. CASE Close(h) \/ TransferError(h)
  BY <1>5 DEF Close, TransferError, FlushFor, ClientTypes, WriterTypes, FileTypes, Methods,
              clientVars, fileVars
<1>6. CASE Save(h)
  <2>1. buf[h] \in Buffers /\ Len(buf[h]) \in Nat
    BY DEF WriterTypes, Buffers
  <2> QED
    BY <1>6, <2>1 DEF Save, ClientTypes, WriterTypes, FileTypes, clientVars
<1>7. CASE SaveRefused(h)
  BY <1>7 DEF SaveRefused, ClientTypes, WriterTypes, FileTypes
<1>8. CASE Publish(h)
  <2>1. buf[h] \in Buffers /\ Len(buf[h]) \in Nat /\ events[h] \in Seq(Nat)
    BY DEF WriterTypes, FileTypes, Buffers
  <2> QED
    BY <1>8, <2>1 DEF Publish, ClientTypes, WriterTypes, FileTypes, clientVars
<1> QED
  BY <1>2, <1>3, <1>4, <1>5, <1>6, <1>7, <1>8 DEF ServerStep

LEMMA TypeInvariant == Spec => []Types
BY InitTypes, StepTypes, PTL DEF Spec

\* The types of the writer's variables.
THEOREM TypeCorrect == Spec => []TypeOK
BY TypesAreTypeOK, TypeInvariant, PTL

------------------------------------------------------------------------------
(***************************************************************************)
(* What is saved.  A clean buffer is in the file, unless another handle    *)
(* has saved over it; a closed handle is being flushed, is clean, or has   *)
(* had its save refused.                                                   *)
(***************************************************************************)
InFile(h) == file # <<>> /\ (file[1] = h => file[2] = buf[h])
Announced(h) == events[h] # <<>> /\ events[h][Len(events[h])] = Len(buf[h])

CleanInv(h) ==
  /\ ~dirty[h] /\ buf[h] # <<>> =>
       InFile(h) /\ (locked[h] # "publish" => Announced(h))
  /\ locked[h] = "save" => dirty[h]
  /\ locked[h] = "publish" => ~dirty[h]

FinalInv(h) ==
  /\ caller[h] \in {"Close", "TransferError"} => phase[h] # "open" /\ waiting[h] = {}
  /\ closed[h] => caller[h] = "Close"
  /\ closed[h] /\ locked[h] = "free" /\ dirty[h] =>
       failures > 0 /\ (phase[h] = "closing" => h \in told)

SavedInv == \A h \in Handles : CleanInv(h) /\ FinalInv(h)

\* What a write does to the writer of its handle.
Wrote(h) ==
  /\ waiting[h] # {}
  /\ \/ UNCHANGED writerVars
     \/ /\ \E b \in Buffers : Len(buf[h]) <= Len(b) /\ buf' = [buf EXCEPT ![h] = b]
        /\ dirty' = [dirty EXCEPT ![h] = TRUE]
        /\ UNCHANGED <<pubSize, closed>>
        /\ \/ /\ Len(buf'[h]) - pubSize[h] >= FlushStep
              /\ locked' = [locked EXCEPT ![h] = "save"]
              /\ caller' = [caller EXCEPT ![h] = "WriteAt"]
           \/ UNCHANGED <<locked, caller>>

LEMMA WriteWrote ==
  ASSUME Types, NEW h \in Handles, NEW w \in waiting[h], WriteAt(h, w)
  PROVE  Wrote(h)
<1> DEFINE off == w.packet[1]
           len == w.packet[2]
           new == Overlay(buf[h], off, len, w.number)
<1>1. w \in Write /\ buf[h] \in Buffers
  BY DEF Types, ClientTypes, WriterTypes
<1>2. off \in Nat /\ len \in Nat /\ w.number \in 1..MaxWrites
  BY <1>1, PacketTypes
<1>3. new \in Buffers /\ Len(new) = IF off + len > Len(buf[h]) THEN off + len ELSE Len(buf[h])
  BY <1>1, <1>2, OverlayTypes
<1>4. Len(buf[h]) \in Nat
  BY <1>1 DEF Buffers
<1>5. Len(buf[h]) <= Len(new)
  BY <1>2, <1>3, <1>4
<1>6. waiting[h] # {}
  OBVIOUS
<1>7. CASE off + len > MaxUploadSize
  BY <1>6, <1>7 DEF WriteAt, Wrote
<1>8. CASE ~(off + len > MaxUploadSize)
  <2>1. /\ buf' = [buf EXCEPT ![h] = new]
        /\ dirty' = [dirty EXCEPT ![h] = TRUE]
        /\ UNCHANGED <<pubSize, closed>>
        /\ \/ /\ Len(new) - pubSize[h] >= FlushStep
              /\ locked' = [locked EXCEPT ![h] = "save"]
              /\ caller' = [caller EXCEPT ![h] = "WriteAt"]
           \/ UNCHANGED <<locked, caller>>
    BY <1>8 DEF WriteAt
  <2> HIDE DEF new
  <2>2. buf'[h] = new
    BY <2>1 DEF Types, WriterTypes
  <2> QED
    BY <1>3, <1>5, <1>6, <2>1, <2>2 DEF Wrote
<1> QED
  BY <1>7, <1>8

\* A step of one handle leaves the writer, the events and the client of another alone.
LEMMA Others ==
  ASSUME Types, NEW h \in Handles, NEW g \in Handles, g # h,
         SendWrite(h) \/ SendClose(h) \/ Break(h) \/ ServerStep(h)
  PROVE  /\ UNCHANGED <<phase[g], waiting[g], buf[g], pubSize[g], dirty[g], closed[g],
                        locked[g], caller[g], events[g]>>
         /\ g \in told => g \in told'
         /\ failures \in Nat /\ failures' \in Nat /\ failures <= failures'
         /\ file' = file \/ file' = <<h, buf[h]>>
<1> USE DEF Types, ClientTypes, WriterTypes, FileTypes
<1>1. CASE SendWrite(h)
  BY <1>1, UploadLimits DEF SendWrite, writerVars, fileVars
<1>2. CASE SendClose(h) \/ Break(h)
  BY <1>2, UploadLimits DEF SendClose, Break, writerVars, fileVars
<1>3. ASSUME NEW w \in waiting[h], WriteAt(h, w)
      PROVE  /\ UNCHANGED <<phase[g], waiting[g], buf[g], pubSize[g], dirty[g], closed[g],
                            locked[g], caller[g], events[g]>>
             /\ g \in told => g \in told'
             /\ failures \in Nat /\ failures' \in Nat /\ failures <= failures'
             /\ file' = file
  <2>1. /\ UNCHANGED <<phase, told, fileVars>>
        /\ waiting' = [waiting EXCEPT ![h] = @ \ {w}]
    BY <1>3 DEF WriteAt
  <2>2. UNCHANGED <<buf[g], pubSize[g], dirty[g], closed[g], locked[g], caller[g]>>
    <3>1. Wrote(h)
      BY <1>3, WriteWrote
    <3>2. CASE UNCHANGED writerVars
      BY <3>2 DEF writerVars
    <3>3. ASSUME NEW b \in Buffers, buf' = [buf EXCEPT ![h] = b],
                 dirty' = [dirty EXCEPT ![h] = TRUE],
                 UNCHANGED <<pubSize, closed>>,
                 \/ /\ locked' = [locked EXCEPT ![h] = "save"]
                    /\ caller' = [caller EXCEPT ![h] = "WriteAt"]
                 \/ UNCHANGED <<locked, caller>>
          PROVE  UNCHANGED <<buf[g], pubSize[g], dirty[g], closed[g], locked[g], caller[g]>>
      BY <3>3
    <3> QED
      BY <3>1, <3>2, <3>3 DEF Wrote
  <2> QED
    BY <2>1, <2>2, UploadLimits DEF fileVars
<1>4. CASE Close(h) \/ TransferError(h)
  BY <1>4, UploadLimits DEF Close, TransferError, FlushFor, clientVars, fileVars
<1>5. CASE Save(h)
  BY <1>5, UploadLimits DEF Save, clientVars
<1>6. CASE SaveRefused(h)
  BY <1>6, UploadLimits DEF SaveRefused
<1>7. CASE Publish(h)
  BY <1>7, UploadLimits DEF Publish, clientVars
<1> QED
  BY <1>1, <1>2, <1>3, <1>4, <1>5, <1>6, <1>7 DEF ServerStep

LEMMA StepOthersSaved ==
  ASSUME Types, SavedInv, NEW h \in Handles, NEW g \in Handles, g # h,
         SendWrite(h) \/ SendClose(h) \/ Break(h) \/ ServerStep(h)
  PROVE  (CleanInv(g) /\ FinalInv(g))'
<1>1. /\ UNCHANGED <<phase[g], waiting[g], buf[g], pubSize[g], dirty[g], closed[g],
                     locked[g], caller[g], events[g]>>
      /\ g \in told => g \in told'
      /\ failures \in Nat /\ failures' \in Nat /\ failures <= failures'
      /\ file' = file \/ file' = <<h, buf[h]>>
  BY Others
<1>2. InFile(g) => InFile(g)'
  <2>1. CASE file' = file
    BY <1>1, <2>1 DEF InFile
  <2>2. CASE file' = <<h, buf[h]>>
    <3>1. file' # <<>> /\ file'[1] = h
      BY <2>2
    <3> QED
      BY <3>1 DEF InFile
  <2> QED
    BY <1>1, <2>1, <2>2
<1>3. Announced(g)' <=> Announced(g)
  BY <1>1 DEF Announced
<1>4. CleanInv(g) /\ FinalInv(g)
  BY DEF SavedInv
<1>5. CleanInv(g)'
  BY <1>1, <1>2, <1>3, <1>4 DEF CleanInv
<1>6. FinalInv(g)'
  BY <1>1, <1>4 DEF FinalInv
<1> QED
  BY <1>5, <1>6

LEMMA StepOwnSaved ==
  ASSUME Types, SavedInv, NEW h \in Handles,
         SendWrite(h) \/ SendClose(h) \/ Break(h) \/ ServerStep(h)
  PROVE  (CleanInv(h) /\ FinalInv(h))'
<1>0. CleanInv(h) /\ FinalInv(h)
  BY DEF SavedInv
<1> USE DEF Types, ClientTypes, WriterTypes, FileTypes
<1>1. CASE SendWrite(h)
  <2>1. caller[h] \notin {"Close", "TransferError"} /\ ~closed[h]
    BY <1>0, <1>1 DEF SendWrite, FinalInv
  <2>2. UNCHANGED <<buf, dirty, closed, locked, caller, file, events, failures>>
    BY <1>1 DEF SendWrite, writerVars, fileVars
  <2> QED
    BY <1>0, <2>1, <2>2 DEF CleanInv, FinalInv, InFile, Announced
<1>2. CASE SendClose(h) \/ Break(h)
  <2>1. caller[h] \notin {"Close", "TransferError"} /\ ~closed[h]
    BY <1>0, <1>2 DEF SendClose, Break, FinalInv
  <2>2. UNCHANGED <<buf, dirty, closed, locked, caller, file, events, failures>>
    BY <1>2 DEF SendClose, Break, writerVars, fileVars
  <2> QED
    BY <1>0, <2>1, <2>2 DEF CleanInv, FinalInv, InFile, Announced
<1>3. ASSUME NEW w \in waiting[h], WriteAt(h, w)
      PROVE  (CleanInv(h) /\ FinalInv(h))'
  <2>1. /\ caller[h] \notin {"Close", "TransferError"} /\ ~closed[h] /\ locked[h] = "free"
        /\ UNCHANGED <<phase, told, file, events, failures>>
    BY <1>0, <1>3 DEF WriteAt, FinalInv, fileVars
  <2>2. \/ UNCHANGED writerVars
        \/ /\ dirty'[h] /\ ~closed'[h] /\ locked'[h] # "publish"
           /\ caller'[h] \notin {"Close", "TransferError"}
    BY <2>1, <1>3, WriteWrote DEF Wrote
  <2>3. CASE UNCHANGED writerVars
    BY <1>0, <2>1, <2>3 DEF writerVars, CleanInv, FinalInv, InFile, Announced
  <2>4. CASE /\ dirty'[h] /\ ~closed'[h] /\ locked'[h] # "publish"
             /\ caller'[h] \notin {"Close", "TransferError"}
    BY <2>4 DEF CleanInv, FinalInv
  <2> QED
    BY <2>2, <2>3, <2>4
<1>4. CASE Close(h) \/ TransferError(h)
  <2>1. /\ UNCHANGED <<phase, waiting, told, buf, dirty, file, events, failures>>
        /\ locked[h] = "free" /\ waiting[h] = {} /\ phase[h] # "open" /\ ~closed[h]
        /\ locked'[h] = IF dirty[h] THEN "save" ELSE "free"
    BY <1>4 DEF Close, TransferError, FlushFor, clientVars, fileVars
  <2>2. \/ caller'[h] = "Close"
        \/ caller'[h] = "TransferError" /\ ~closed'[h]
    BY <1>4, <2>1 DEF Close, TransferError, FlushFor
  <2>3. InFile(h)' = InFile(h) /\ Announced(h)' = Announced(h)
    BY <2>1 DEF InFile, Announced
  <2>4. CleanInv(h)'
    BY <1>0, <2>1, <2>3 DEF CleanInv
  <2>5. FinalInv(h)'
    BY <2>1, <2>2 DEF FinalInv
  <2> QED
    BY <2>4, <2>5
<1>5. CASE Save(h)
  <2>1. /\ UNCHANGED <<phase, waiting, told, buf, closed, caller, events, failures>>
        /\ file' = <<h, buf[h]>> /\ ~dirty'[h] /\ locked'[h] = "publish"
    BY <1>5 DEF Save, clientVars
  <2> QED
    BY <1>0, <2>1 DEF CleanInv, FinalInv, InFile
<1>6. CASE SaveRefused(h)
  <2>1. /\ UNCHANGED <<phase, waiting, buf, dirty, closed, caller, file, events>>
        /\ locked[h] = "save" /\ locked'[h] = "free" /\ failures' = failures + 1
        /\ caller[h] = "Close" /\ phase[h] = "closing" => h \in told'
    BY <1>6 DEF SaveRefused
  <2>2. dirty[h] /\ failures' > 0
    BY <1>0, <2>1, UploadLimits DEF CleanInv
  <2> QED
    BY <1>0, <2>1, <2>2 DEF CleanInv, FinalInv
<1>7. CASE Publish(h)
  <2>1. /\ UNCHANGED <<phase, waiting, told, buf, dirty, closed, caller, file, failures>>
        /\ locked[h] = "publish" /\ locked'[h] = "free"
        /\ events'[h] = Append(events[h], Len(buf[h]))
    BY <1>7 DEF Publish, clientVars
  <2>2. events[h] \in Seq(Nat) /\ Len(buf[h]) \in Nat
    BY DEF Buffers
  <2>3. Announced(h)'
    BY <2>1, <2>2 DEF Announced
  <2> QED
    BY <1>0, <2>1, <2>3 DEF CleanInv, FinalInv, InFile
<1> QED
  BY <1>1, <1>2, <1>3, <1>4, <1>5, <1>6, <1>7 DEF ServerStep

LEMMA SavedInvariant == Spec => [](Types /\ SavedInv)
<1>1. Init => SavedInv
  BY DEF Init, SavedInv, CleanInv, FinalInv
<1>2. Types /\ SavedInv /\ [Next]_vars => SavedInv'
  <2> SUFFICES ASSUME Types, SavedInv, [Next]_vars PROVE SavedInv'
    OBVIOUS
  <2>1. CASE UNCHANGED vars
    BY <2>1 DEF vars, clientVars, writerVars, fileVars, SavedInv, CleanInv, FinalInv, InFile,
                Announced
  <2>2. ASSUME NEW h \in Handles, SendWrite(h) \/ SendClose(h) \/ Break(h) \/ ServerStep(h)
        PROVE  SavedInv'
    BY <2>2, StepOwnSaved, StepOthersSaved DEF SavedInv
  <2> QED
    BY <2>1, <2>2 DEF Next
<1> QED
  BY <1>1, <1>2, InitTypes, StepTypes, PTL DEF Spec

\* A closed upload is in the file, and its last event announced all of it, unless another
\* handle has saved over it; a save that was refused was told to a client that asked for
\* the close.
THEOREM ClosedIsSaved == Spec => []ClosedMeansSaved
<1>1. ASSUME Types, SavedInv PROVE ClosedMeansSaved
  <2> SUFFICES ASSUME NEW h \in Handles, Ended(h),
                      (phase[h] = "closing" /\ h \notin told) \/ failures = 0
               PROVE  Saved(h)
    BY DEF ClosedMeansSaved
  <2>1. CleanInv(h) /\ FinalInv(h) /\ closed[h] /\ locked[h] = "free"
    BY <1>1 DEF SavedInv, Ended
  <2>2. ~dirty[h]
    BY <2>1 DEF FinalInv
  <2> QED
    BY <2>1, <2>2 DEF CleanInv, InFile, Announced, Saved
<1>2. Types /\ SavedInv => ClosedMeansSaved
  BY <1>1
<1> QED
  BY <1>2, SavedInvariant, PTL

------------------------------------------------------------------------------
(***************************************************************************)
(* The number of events.  Every event but the last one of a handle stands  *)
(* for FlushStep bytes the file has grown by.                              *)
(***************************************************************************)
Worth(n) == n * FlushStep

LEMMA WorthGrows ==
  ASSUME NEW n \in Nat
  PROVE  Worth(n) \in Nat /\ Worth(n + 1) = Worth(n) + FlushStep /\ Worth(0) = 0
BY UploadLimits DEF Worth

LEMMA WorthBounds ==
  ASSUME NEW n \in Nat, NEW l \in Nat, Worth(n) <= l + FlushStep
  PROVE  n <= (l \div FlushStep) + 1
<1> DEFINE f == FlushStep
           q == l \div f
<1>1. f \in Nat /\ f > 0
  BY UploadLimits
<1> HIDE DEF f
<1>2. q \in Nat /\ l < f * q + f
  BY <1>1
<1> HIDE DEF q
<1>3. n * f < f * q + f + f
  <2>1. n * f <= l + f
    BY DEF Worth, f
  <2>2. n * f \in Nat /\ f * q \in Nat
    BY <1>1, <1>2
  <2> QED
    BY <1>1, <1>2, <2>1, <2>2
<1>4. CASE n >= q + 2
  <2> DEFINE k == n - (q + 2)
  <2>1. k \in Nat /\ n = k + (q + 2)
    BY <1>2, <1>4
  <2> HIDE DEF k
  <2>2. n * f = k * f + f * q + f + f
    BY <1>1, <1>2, <2>1
  <2>3. k * f \in Nat /\ f * q \in Nat
    BY <1>1, <1>2, <2>1
  <2> QED
    BY <1>1, <1>3, <2>2, <2>3
<1>5. CASE ~(n >= q + 2)
  <2>1. n <= q + 1
    BY <1>2, <1>5
  <2> QED
    BY <2>1 DEF q, f
<1> QED
  BY <1>4, <1>5

Last(h) == caller[h] \in {"Close", "TransferError"}

\* What the events of a handle are worth, as far as the flush under way has come.
CountInv(h) ==
  /\ Last(h) => phase[h] # "open" /\ waiting[h] = {}
  /\ locked[h] = "save" => dirty[h]
  /\ locked[h] = "publish" => ~dirty[h]
  /\ locked[h] = "save" /\ ~Last(h) => pubSize[h] + FlushStep <= Len(buf[h])
  /\ locked[h] # "publish" /\ (dirty[h] \/ ~Last(h)) => Worth(Len(events[h])) <= pubSize[h]
  /\ locked[h] = "publish" /\ ~Last(h) => Worth(Len(events[h])) + FlushStep <= pubSize[h]
  /\ locked[h] = "publish" => Worth(Len(events[h])) <= pubSize[h]
  /\ Worth(Len(events[h])) <= pubSize[h] + FlushStep

LEMMA StepOwnCount ==
  ASSUME Types, NEW h \in Handles, CountInv(h),
         SendWrite(h) \/ SendClose(h) \/ Break(h) \/ ServerStep(h)
  PROVE  CountInv(h)'
<1>0. /\ Len(events[h]) \in Nat /\ Len(buf[h]) \in Nat /\ pubSize[h] \in Nat
      /\ pubSize[h] <= Len(buf[h]) /\ Worth(Len(events[h])) \in Nat
  <2>1. events[h] \in Seq(Nat) /\ buf[h] \in Seq(0..MaxWrites)
        /\ pubSize[h] \in Nat /\ pubSize[h] <= Len(buf[h])
    BY DEF Types, WriterTypes, FileTypes, Buffers
  <2>2. Len(events[h]) \in Nat /\ Len(buf[h]) \in Nat
    BY <2>1
  <2>3. Worth(Len(events[h])) \in Nat
    BY <2>2, WorthGrows
  <2> QED
    BY <2>1, <2>2, <2>3
<1> USE UploadLimits DEF Types, ClientTypes, WriterTypes, FileTypes
<1>1. CASE SendWrite(h) \/ SendClose(h) \/ Break(h)
  <2>1. ~Last(h)
    BY <1>1 DEF SendWrite, SendClose, Break, CountInv
  <2>2. UNCHANGED <<buf, pubSize, dirty, locked, caller, events>>
    BY <1>1 DEF SendWrite, SendClose, Break, writerVars, fileVars
  <2>3. UNCHANGED Worth(Len(events[h]))
    BY <2>2 DEF Worth
  <2> QED
    BY <2>1, <2>2, <2>3 DEF CountInv, Last
<1>3. ASSUME NEW w \in waiting[h], WriteAt(h, w)
      PROVE  CountInv(h)'
  <2>1. ~Last(h) /\ locked[h] = "free" /\ UNCHANGED <<phase, events>>
    BY <1>3 DEF WriteAt, CountInv, fileVars
  <2>2. Worth(Len(events'[h])) = Worth(Len(events[h]))
    BY <2>1
  <2>3. CASE UNCHANGED writerVars
    BY <2>1, <2>2, <2>3 DEF writerVars, CountInv, Last
  <2>4. CASE ~(UNCHANGED writerVars)
    <3>1. /\ dirty'[h] /\ pubSize' = pubSize
          /\ \/ /\ Len(buf'[h]) - pubSize[h] >= FlushStep
                /\ locked'[h] = "save" /\ caller'[h] = "WriteAt"
             \/ UNCHANGED <<locked, caller>>
      BY <1>3, <2>4, WriteWrote DEF Wrote
    <3>2. Len(buf'[h]) \in Nat
      BY StepTypes, <1>3 DEF Next, ServerStep, Buffers
    <3>3. ~Last(h)' /\ locked'[h] # "publish"
          /\ (locked'[h] = "save" => pubSize[h] + FlushStep <= Len(buf'[h]))
      BY <1>0, <2>1, <3>1, <3>2 DEF Last
    <3>4. Worth(Len(events[h])) <= pubSize[h]
      BY <2>1 DEF CountInv
    <3> QED
      BY <1>0, <2>2, <3>1, <3>3, <3>4 DEF CountInv
  <2> QED
    BY <2>3, <2>4
<1>4. CASE Close(h) \/ TransferError(h)
  <2>1. /\ UNCHANGED <<phase, waiting, buf, pubSize, dirty, events>>
        /\ locked[h] = "free" /\ waiting[h] = {} /\ phase[h] # "open"
        /\ locked'[h] = (IF dirty[h] THEN "save" ELSE "free")
        /\ caller'[h] \in {"Close", "TransferError"}
    BY <1>4 DEF Close, TransferError, FlushFor, clientVars, fileVars
  <2>2. Worth(Len(events'[h])) = Worth(Len(events[h]))
    BY <2>1
  <2> QED
    BY <1>0, <2>1, <2>2 DEF CountInv, Last
<1>5. CASE Save(h)
  <2>1. /\ UNCHANGED <<phase, waiting, buf, caller, events>>
        /\ ~dirty'[h] /\ locked[h] = "save" /\ locked'[h] = "publish"
        /\ pubSize'[h] = Len(buf[h])
    BY <1>5 DEF Save, clientVars
  <2>2. Worth(Len(events'[h])) = Worth(Len(events[h]))
    BY <2>1
  <2> QED
    BY <1>0, <2>1, <2>2 DEF CountInv, Last
<1>6. CASE SaveRefused(h)
  <2>1. /\ UNCHANGED <<phase, waiting, buf, pubSize, dirty, caller, events>>
        /\ locked[h] = "save" /\ locked'[h] = "free"
    BY <1>6 DEF SaveRefused
  <2>2. Worth(Len(events'[h])) = Worth(Len(events[h]))
    BY <2>1
  <2> QED
    BY <1>0, <2>1, <2>2 DEF CountInv, Last
<1>7. CASE Publish(h)
  <2>1. /\ UNCHANGED <<phase, waiting, buf, pubSize, dirty, caller>>
        /\ locked[h] = "publish" /\ locked'[h] = "free"
        /\ events'[h] = Append(events[h], Len(buf[h]))
    BY <1>7 DEF Publish, clientVars
  <2>2. Len(events'[h]) = Len(events[h]) + 1
    BY <2>1
  <2>3. Worth(Len(events'[h])) = Worth(Len(events[h])) + FlushStep
    BY <1>0, <2>2, WorthGrows
  <2>4. ~dirty[h] /\ (~Last(h) => Worth(Len(events'[h])) <= pubSize[h])
    BY <1>0, <2>1, <2>3 DEF CountInv
  <2>5. Worth(Len(events'[h])) <= pubSize[h] + FlushStep
    BY <1>0, <2>1, <2>3 DEF CountInv
  <2> QED
    BY <1>0, <2>1, <2>4, <2>5 DEF CountInv, Last
<1> QED
  BY <1>1, <1>3, <1>4, <1>5, <1>6, <1>7 DEF ServerStep

LEMMA CountInvariant == Spec => [](Types /\ \A h \in Handles : CountInv(h))
<1>1. ASSUME Init PROVE \A h \in Handles : CountInv(h)
  <2>1. Worth(0) = 0 /\ FlushStep \in Nat
    BY WorthGrows, UploadLimits
  <2> QED
    BY <1>1, <2>1 DEF Init, CountInv, Last
<1>2. ASSUME Types, \A h \in Handles : CountInv(h), [Next]_vars
      PROVE  \A h \in Handles : CountInv(h)'
  <2>1. CASE UNCHANGED vars
    BY <1>2, <2>1 DEF vars, clientVars, writerVars, fileVars, CountInv, Last, Worth
  <2>2. ASSUME NEW h \in Handles, SendWrite(h) \/ SendClose(h) \/ Break(h) \/ ServerStep(h),
               NEW g \in Handles, g # h
        PROVE  CountInv(g)'
    <3>1. UNCHANGED <<phase[g], waiting[g], buf[g], pubSize[g], dirty[g], locked[g],
                      caller[g], events[g]>>
      BY <1>2, <2>2, Others
    <3> QED
      BY <1>2, <3>1 DEF CountInv, Last, Worth
  <2> QED
    BY <1>2, <2>1, <2>2, StepOwnCount DEF Next
<1>3. Init => \A h \in Handles : CountInv(h)
  BY <1>1
<1>4. Types /\ (\A h \in Handles : CountInv(h)) /\ [Next]_vars
        => (\A h \in Handles : CountInv(h))'
  BY <1>2
<1> QED
  BY <1>3, <1>4, InitTypes, StepTypes, PTL DEF Spec

\* An upload never keeps more than MaxUploadSize bytes, and publishes at most one event for
\* each step it has grown by and one for its end.
THEOREM UploadsThrottled == Spec => []Throttled
<1>1. ASSUME Types, \A h \in Handles : CountInv(h) PROVE Throttled
  <2> SUFFICES ASSUME NEW h \in Handles
               PROVE  /\ Len(buf[h]) <= MaxUploadSize
                      /\ Len(events[h]) <= (Len(buf[h]) \div FlushStep) + 1
    BY DEF Throttled
  <2>1. /\ Len(buf[h]) <= MaxUploadSize /\ pubSize[h] <= Len(buf[h])
        /\ Len(buf[h]) \in Nat /\ pubSize[h] \in Nat /\ Len(events[h]) \in Nat
    BY <1>1 DEF Types, WriterTypes, FileTypes, Buffers
  <2>2. Worth(Len(events[h])) <= pubSize[h] + FlushStep
    BY <1>1 DEF CountInv
  <2>3. Worth(Len(events[h])) \in Nat
    BY <2>1, WorthGrows
  <2>4. Worth(Len(events[h])) <= Len(buf[h]) + FlushStep
    BY <2>1, <2>2, <2>3, UploadLimits
  <2> QED
    BY <2>1, <2>4, WorthBounds
<1>2. Types /\ (\A h \in Handles : CountInv(h)) => Throttled
  BY <1>1
<1> QED
  BY <1>2, CountInvariant, PTL

------------------------------------------------------------------------------

(***************************************************************************)
(* Loops.  A recursive function over 0..n exists and stays in a set that   *)
(* each of its steps stays in.                                             *)
(***************************************************************************)
\* Induction on the naturals, for a set.
LEMMA Induction ==
  ASSUME NEW X, 0 \in X, \A i \in Nat : i \in X => i + 1 \in X
  PROVE  \A i \in Nat : i \in X
<1> DEFINE Y == Nat \ X
<1> SUFFICES ASSUME Y # {} PROVE FALSE
  OBVIOUS
<1>1. PICK m \in Y : \A y \in Y : ~ <<y, m>> \in OpToRel(<, Nat)
  <2>1. Y \subseteq Nat
    OBVIOUS
  <2> HIDE DEF Y
  <2> QED BY <2>1, NatLessThanWellFounded, WFMin
<1>2. \A y \in Y : ~ y < m
  BY <1>1 DEF OpToRel
<1>3. m - 1 \in Nat /\ m - 1 \in X /\ (m - 1) + 1 = m
  BY <1>2
<1> QED BY <1>3

\* A loop of N rounds from x, of which round i makes step[v, i] of v.
Steps(S) == [S \X Nat -> S]

Loop(f, N, S, x, step) ==
  /\ f \in [0..N -> S]
  /\ f[0] = x
  /\ \A i \in 1..N : f[i] = step[<<f[i - 1], i>>]

LEMMA LoopExists ==
  ASSUME NEW N \in Nat, NEW S, NEW x \in S, NEW step \in Steps(S)
  PROVE  \E f : Loop(f, N, S, x, step)
<1> DEFINE X == {n \in Nat : \E f : Loop(f, n, S, x, step)}
<1>1. 0 \in X
  <2>1. Loop([i \in 0..0 |-> x], 0, S, x, step)
    BY DEF Loop
  <2> QED BY <2>1
<1>2. ASSUME NEW n \in Nat, n \in X PROVE n + 1 \in X
  <2>1. PICK f : Loop(f, n, S, x, step)
    BY <1>2
  <2> DEFINE last == step[<<f[n], n + 1>>]
             g == [i \in 0..(n + 1) |-> IF i = n + 1 THEN last ELSE f[i]]
  <2>2. last \in S
    <3>1. <<f[n], n + 1>> \in S \X Nat
      BY <2>1 DEF Loop
    <3> QED BY <3>1 DEF Steps
  <2> HIDE DEF last
  <2>3. g \in [0..(n + 1) -> S]
    BY <2>1, <2>2 DEF Loop
  <2>4. g[n + 1] = last /\ \A i \in 0..n : g[i] = f[i]
    OBVIOUS
  <2> HIDE DEF g
  <2>5. g[0] = x
    BY <2>1, <2>4 DEF Loop
  <2>6. ASSUME NEW i \in 1..(n + 1) PROVE g[i] = step[<<g[i - 1], i>>]
    <3>1. CASE i = n + 1
      <4>1. g[i - 1] = f[n]
        BY <2>4, <3>1
      <4> QED BY <2>4, <3>1, <4>1 DEF last
    <3>2. CASE i # n + 1
      <4>1. i \in 1..n /\ i - 1 \in 0..n /\ i \in 0..n
        BY <3>2
      <4>2. g[i - 1] = f[i - 1] /\ g[i] = f[i]
        BY <2>4, <4>1
      <4> QED BY <2>1, <4>1, <4>2 DEF Loop
    <3> QED BY <3>1, <3>2
  <2>7. Loop(g, n + 1, S, x, step)
    BY <2>3, <2>5, <2>6 DEF Loop
  <2> QED BY <2>7
<1>3. N \in X
  <2> HIDE DEF X
  <2> QED BY <1>1, <1>2, Induction
<1> QED BY <1>3

LEMMA LoopStays ==
  ASSUME NEW N \in Nat, NEW S, NEW f, f[0] \in S,
         \A i \in 1..N : f[i - 1] \in S => f[i] \in S
  PROVE  \A i \in 0..N : f[i] \in S
<1> DEFINE X == {i \in Nat : i <= N => f[i] \in S}
<1>1. 0 \in X
  OBVIOUS
<1>2. ASSUME NEW i \in Nat, i \in X PROVE i + 1 \in X
  <2>1. i + 1 <= N => i + 1 \in 1..N /\ (i + 1) - 1 = i /\ i <= N
    OBVIOUS
  <2> QED BY <1>2, <2>1
<1>3. \A i \in Nat : i \in X
  <2> HIDE DEF X
  <2> QED BY <1>1, <1>2, Induction
<1> QED BY <1>3

(***************************************************************************)
(* Sums of sizes.                                                          *)
(***************************************************************************)
Weights == [NodeId -> Nat]

\* The partial sums of weights.
Sums(w, f) ==
  /\ f \in [0..MaxTotalNodes -> Nat]
  /\ f[0] = 0
  /\ \A i \in 1..MaxTotalNodes : f[i] = f[i - 1] + w[i - 1]

LEMMA TreeLimits ==
  /\ MaxTotalNodes \in Nat /\ MaxTotalNodes > 0 /\ MaxFileSize \in Nat /\ MaxTotalBytes \in Nat
  /\ NodeId = 0..(MaxTotalNodes - 1) /\ Root = 0 /\ Root \in NodeId
BY VfsAssumption DEF NodeId, Root

LEMMA TotalSums ==
  ASSUME NEW w \in Weights
  PROVE  \E f : Sums(w, f) /\ Total(w) = f[MaxTotalNodes]
<1> DEFINE N == MaxTotalNodes
           F(f) == [i \in 0..N |-> IF i = 0 THEN 0 ELSE f[i - 1] + w[i - 1]]
           step == [p \in Nat \X Nat |-> p[1] + (IF p[2] \in 1..N THEN w[p[2] - 1] ELSE 0)]
<1>1. N \in Nat /\ \A i \in 1..N : i - 1 \in NodeId /\ w[i - 1] \in Nat
  BY TreeLimits DEF Weights
<1>2. step \in Steps(Nat)
  BY <1>1 DEF Steps
<1>3. \A a \in Nat, i \in 1..N : step[<<a, i>>] = a + w[i - 1]
  BY <1>1
<1> HIDE DEF step
<1>4. PICK f : Loop(f, N, Nat, 0, step)
  BY <1>1, <1>2, LoopExists
<1>5. \A i \in 1..N : f[i] = f[i - 1] + w[i - 1]
  <2> TAKE i \in 1..N
  <2>1. f[i - 1] \in Nat
    BY <1>1, <1>4 DEF Loop
  <2> QED BY <1>3, <1>4, <2>1 DEF Loop
<1>6. f = F(f)
  <2>1. \A i \in 0..N : f[i] = F(f)[i]
    <3> TAKE i \in 0..N
    <3>1. i = 0 \/ i \in 1..N
      BY <1>1
    <3> QED BY <1>4, <1>5, <3>1 DEF Loop
  <2>2. f = [i \in 0..N |-> f[i]]
    BY <1>4 DEF Loop
  <2> DEFINE h == F(f)
  <2>3. h = [i \in 0..N |-> h[i]]
    OBVIOUS
  <2>4. \A i \in 0..N : f[i] = h[i]
    BY <2>1
  <2> HIDE DEF h
  <2>5. f = h
    BY <2>2, <2>3, <2>4
  <2> QED BY <2>5 DEF h
<1> DEFINE t == CHOOSE g : g = F(g)
<1>7. t = F(t)
  BY <1>6
<1>8. Total(w) = t[N]
  BY DEF Total, N
<1> HIDE DEF t
<1>9. t[0] = 0 /\ \A i \in 1..N : t[i] = t[i - 1] + w[i - 1]
  BY <1>1, <1>7
<1>10. \A i \in 0..N : t[i] \in Nat
  <2>1. \A i \in 1..N : t[i - 1] \in Nat => t[i] \in Nat
    <3> TAKE i \in 1..N
    <3>1. t[i] = t[i - 1] + w[i - 1] /\ w[i - 1] \in Nat
      BY <1>1, <1>9
    <3> QED BY <3>1
  <2>2. t[0] \in Nat
    BY <1>9
  <2> HIDE DEF N
  <2> QED BY <1>1, <2>1, <2>2, LoopStays
<1>11. t \in [0..N -> Nat]
  <2>1. t = [i \in 0..N |-> t[i]]
    BY <1>7
  <2> QED BY <1>10, <2>1
<1>12. Sums(w, t)
  BY <1>9, <1>11 DEF Sums, N
<1> QED BY <1>8, <1>12 DEF N

LEMMA TotalType ==
  ASSUME NEW w \in Weights
  PROVE  Total(w) \in Nat
<1>1. PICK f : Sums(w, f) /\ Total(w) = f[MaxTotalNodes]
  BY TotalSums
<1> QED BY <1>1, TreeLimits DEF Sums

\* What is the same node by node is the same in sum.
LEMMA TotalsBalance ==
  ASSUME NEW a \in Weights, NEW b \in Weights, NEW c \in Weights, NEW d \in Weights,
         \A n \in NodeId : a[n] + b[n] = c[n] + d[n]
  PROVE  Total(a) + Total(b) = Total(c) + Total(d)
<1>1. PICK e : Sums(a, e) /\ Total(a) = e[MaxTotalNodes]
  BY TotalSums
<1>2. PICK f : Sums(b, f) /\ Total(b) = f[MaxTotalNodes]
  BY TotalSums
<1>3. PICK g : Sums(c, g) /\ Total(c) = g[MaxTotalNodes]
  BY TotalSums
<1>4. PICK h : Sums(d, h) /\ Total(d) = h[MaxTotalNodes]
  BY TotalSums
<1> DEFINE X == {i \in Nat : i <= MaxTotalNodes => e[i] + f[i] = g[i] + h[i]}
<1>5. 0 \in X
  BY <1>1, <1>2, <1>3, <1>4 DEF Sums
<1>6. ASSUME NEW i \in Nat, i \in X PROVE i + 1 \in X
  <2> SUFFICES ASSUME i + 1 <= MaxTotalNodes PROVE e[i + 1] + f[i + 1] = g[i + 1] + h[i + 1]
    OBVIOUS
  <2>1. i + 1 \in 1..MaxTotalNodes /\ (i + 1) - 1 = i /\ i \in NodeId /\ i \in 0..MaxTotalNodes
    BY TreeLimits
  <2>2. /\ e[i] \in Nat /\ f[i] \in Nat /\ g[i] \in Nat /\ h[i] \in Nat
        /\ a[i] \in Nat /\ b[i] \in Nat /\ c[i] \in Nat /\ d[i] \in Nat
    BY <1>1, <1>2, <1>3, <1>4, <2>1 DEF Sums, Weights
  <2>3. /\ e[i + 1] = e[i] + a[i] /\ f[i + 1] = f[i] + b[i]
        /\ g[i + 1] = g[i] + c[i] /\ h[i + 1] = h[i] + d[i]
    BY <1>1, <1>2, <1>3, <1>4, <2>1 DEF Sums
  <2>4. a[i] + b[i] = c[i] + d[i] /\ e[i] + f[i] = g[i] + h[i]
    BY <1>6, <2>1, TreeLimits
  <2> QED BY <2>2, <2>3, <2>4
<1>7. MaxTotalNodes \in X
  <2> HIDE DEF X
  <2> QED BY <1>5, <1>6, TreeLimits, Induction
<1> QED BY <1>1, <1>2, <1>3, <1>4, <1>7, TreeLimits

\* The sum of one weight.
Single(k, v) == [n \in NodeId |-> IF n = k THEN v ELSE 0]

LEMMA TotalSingle ==
  ASSUME NEW k \in NodeId, NEW v \in Nat
  PROVE  Single(k, v) \in Weights /\ Total(Single(k, v)) = v
<1> DEFINE w == Single(k, v)
<1>1. w \in Weights /\ \A n \in NodeId : w[n] = IF n = k THEN v ELSE 0
  BY DEF Single, Weights
<1> HIDE DEF w
<1>2. PICK f : Sums(w, f) /\ Total(w) = f[MaxTotalNodes]
  BY <1>1, TotalSums
<1> DEFINE X == {i \in Nat : i <= MaxTotalNodes => f[i] = IF i > k THEN v ELSE 0}
<1>3. 0 \in X
  BY <1>2, TreeLimits DEF Sums
<1>4. ASSUME NEW i \in Nat, i \in X PROVE i + 1 \in X
  <2> SUFFICES ASSUME i + 1 <= MaxTotalNodes PROVE f[i + 1] = IF i + 1 > k THEN v ELSE 0
    OBVIOUS
  <2>1. i + 1 \in 1..MaxTotalNodes /\ (i + 1) - 1 = i /\ i \in NodeId /\ i \in 0..MaxTotalNodes
    BY TreeLimits
  <2>2. f[i + 1] = f[i] + w[i]
    BY <1>2, <2>1 DEF Sums
  <2>3. f[i] = IF i > k THEN v ELSE 0
    BY <1>4, <2>1
  <2>4. k \in Nat
    BY TreeLimits
  <2> QED BY <1>1, <2>1, <2>2, <2>3, <2>4
<1>5. f[MaxTotalNodes] = v
  <2>1. MaxTotalNodes \in X
    <3> HIDE DEF X
    <3> QED BY <1>3, <1>4, TreeLimits, Induction
  <2> QED BY <2>1, TreeLimits
<1> QED BY <1>1, <1>2, <1>5 DEF w

------------------------------------------------------------------------------
(***************************************************************************)
(* Trees.                                                                  *)
(***************************************************************************)
Typed(tree) == DOMAIN tree \subseteq NodeId /\ tree \in [DOMAIN tree -> Nodes]

\* A node has one place, and no entry leads back to the root.
Unique(tree) ==
  \A m, n \in DOMAIN tree : \A x \in Entries(tree, m), y \in Entries(tree, n) :
    tree[m].children[x] = tree[n].children[y] => m = n /\ x = y

Rootless(tree) == \A m \in DOMAIN tree : \A x \in Entries(tree, m) : tree[m].children[x] # Root

TreeOK(tree) ==
  /\ Typed(tree)
  /\ Root \in DOMAIN tree /\ tree[Root].isDir
  /\ Closed(tree, DOMAIN tree)
  /\ \A n \in DOMAIN tree : ~tree[n].isDir => Entries(tree, n) = {}
  /\ Unique(tree) /\ Rootless(tree)

LEMMA FolderParts ==
  /\ \A c \in Folders : /\ DOMAIN c \subseteq Names
                        /\ \A x \in DOMAIN c : c[x] \in NodeId
  /\ \A S \in SUBSET Names : [S -> NodeId] \subseteq Folders
BY DEF Folders

LEMMA NodeParts ==
  ASSUME NEW r \in Nodes
  PROVE  /\ r.isDir \in BOOLEAN /\ r.children \in Folders /\ r.size \in 0..MaxFileSize
         /\ r.size \in Nat /\ r.writable \in BOOLEAN /\ r.attrs \in SUBSET Attrs
BY TreeLimits DEF Nodes

LEMMA NodeEdits ==
  ASSUME NEW r \in Nodes
  PROVE  /\ \A c \in Folders : LET q == [r EXCEPT !.children = c] IN
              /\ q \in Nodes /\ q.children = c
              /\ q.isDir = r.isDir /\ q.size = r.size /\ q.writable = r.writable /\ q.attrs = r.attrs
         /\ \A v \in 0..MaxFileSize : LET q == [r EXCEPT !.size = v] IN
              /\ q \in Nodes /\ q.size = v
              /\ q.isDir = r.isDir /\ q.children = r.children /\ q.writable = r.writable
              /\ q.attrs = r.attrs
         /\ \A v \in BOOLEAN : LET q == [r EXCEPT !.writable = v] IN
              /\ q \in Nodes /\ q.writable = v
              /\ q.isDir = r.isDir /\ q.children = r.children /\ q.size = r.size
              /\ q.attrs = r.attrs
         /\ \A v \in SUBSET Attrs : LET q == [r EXCEPT !.attrs = v] IN
              /\ q \in Nodes /\ q.attrs = v
              /\ q.isDir = r.isDir /\ q.children = r.children /\ q.size = r.size
              /\ q.writable = r.writable
BY DEF Nodes

LEMMA NewNodes ==
  /\ NewDir \in Nodes /\ NewDir.isDir /\ DOMAIN NewDir.children = {} /\ NewDir.size = 0
  /\ \A len \in 0..MaxFileSize :
       /\ NewFile(len) \in Nodes /\ ~NewFile(len).isDir /\ DOMAIN NewFile(len).children = {}
       /\ NewFile(len).size = len
<1>1. <<>> \in [{} -> NodeId] /\ DOMAIN <<>> = {}
  OBVIOUS
<1>2. <<>> \in Folders
  BY <1>1, FolderParts
<1>3. 0 \in 0..MaxFileSize
  BY TreeLimits
<1>4. NewDir \in Nodes /\ NewDir.isDir /\ NewDir.children = <<>> /\ NewDir.size = 0
  BY <1>2, <1>3 DEF NewDir, Nodes
<1>5. ASSUME NEW r \in Nodes, NEW len \in 0..MaxFileSize
      PROVE  LET q == [r EXCEPT !.isDir = FALSE, !.size = len] IN
             q \in Nodes /\ ~q.isDir /\ q.children = r.children /\ q.size = len
  BY <1>5 DEF Nodes
<1>6. ASSUME NEW len \in 0..MaxFileSize
      PROVE  /\ NewFile(len) \in Nodes /\ ~NewFile(len).isDir
             /\ NewFile(len).children = <<>> /\ NewFile(len).size = len
  BY <1>4, <1>5 DEF NewFile
<1> QED
  BY <1>1, <1>4, <1>6

------------------------------------------------------------------------------
(***************************************************************************)
(* What a tree weighs.                                                     *)
(***************************************************************************)
Weight(tree, S) == [n \in NodeId |-> IF n \in S THEN tree[n].size ELSE 0]

LEMMA WeightType ==
  ASSUME NEW tree, Typed(tree), NEW S \in SUBSET DOMAIN tree
  PROVE  /\ Weight(tree, S) \in Weights /\ Bytes(tree, S) = Total(Weight(tree, S))
         /\ Bytes(tree, S) \in Nat
         /\ \A n \in NodeId : Weight(tree, S)[n] = IF n \in S THEN tree[n].size ELSE 0
<1>1. \A n \in S : tree[n].size \in Nat
  BY NodeParts DEF Typed
<1>2. Weight(tree, S) \in Weights
  BY <1>1 DEF Weight, Weights
<1>3. Bytes(tree, S) = Total(Weight(tree, S))
  BY DEF Bytes, Weight
<1> QED BY <1>2, <1>3, TotalType DEF Weight

\* Two trees that differ at one node at most.
LEMMA BytesChange ==
  ASSUME NEW tree, Typed(tree), NEW g, Typed(g), NEW k \in NodeId,
         \A n \in NodeId \ {k} : /\ n \in DOMAIN tree <=> n \in DOMAIN g
                                 /\ n \in DOMAIN tree => tree[n].size = g[n].size
  PROVE  Bytes(g, DOMAIN g) + Weight(tree, DOMAIN tree)[k]
           = Bytes(tree, DOMAIN tree) + Weight(g, DOMAIN g)[k]
<1> DEFINE a == Weight(g, DOMAIN g)
           c == Weight(tree, DOMAIN tree)
<1>1. /\ a \in Weights /\ c \in Weights
      /\ Bytes(g, DOMAIN g) = Total(a) /\ Bytes(tree, DOMAIN tree) = Total(c)
  BY WeightType
<1>2. \A n \in NodeId \ {k} : a[n] = c[n]
  BY DEF Weight
<1> HIDE DEF a, c
<1>3. a[k] \in Nat /\ c[k] \in Nat
  BY <1>1 DEF Weights
<1> DEFINE b == Single(k, c[k])
           d == Single(k, a[k])
<1>4. b \in Weights /\ Total(b) = c[k] /\ d \in Weights /\ Total(d) = a[k]
  BY <1>3, TotalSingle
<1>5. \A n \in NodeId : b[n] = (IF n = k THEN c[k] ELSE 0) /\ d[n] = (IF n = k THEN a[k] ELSE 0)
  BY DEF Single
<1> HIDE DEF b, d
<1>6. \A n \in NodeId : a[n] + b[n] = c[n] + d[n]
  <2> TAKE n \in NodeId
  <2>1. a[n] \in Nat /\ c[n] \in Nat
    BY <1>1 DEF Weights
  <2> QED BY <1>2, <1>3, <1>5, <2>1
<1>7. Total(a) + Total(b) = Total(c) + Total(d)
  BY <1>1, <1>4, <1>6, TotalsBalance
<1> QED BY <1>1, <1>4, <1>7 DEF a, c

\* A part of a tree taken out of it.
LEMMA BytesSplit ==
  ASSUME NEW tree, Typed(tree), NEW S \in SUBSET DOMAIN tree,
         NEW g, Typed(g), DOMAIN g = DOMAIN tree \ S,
         \A n \in DOMAIN g : g[n].size = tree[n].size
  PROVE  Bytes(tree, DOMAIN tree) = Bytes(g, DOMAIN g) + Bytes(tree, S)
<1> DEFINE a == Weight(g, DOMAIN g)
           b == Weight(tree, S)
           c == Weight(tree, DOMAIN tree)
           d == Single(Root, 0)
<1>1. /\ a \in Weights /\ b \in Weights /\ c \in Weights
      /\ Bytes(g, DOMAIN g) = Total(a) /\ Bytes(tree, S) = Total(b)
      /\ Bytes(tree, DOMAIN tree) = Total(c)
  BY WeightType
<1>2. d \in Weights /\ Total(d) = 0
  BY TotalSingle, TreeLimits
<1>3. \A n \in NodeId : d[n] = 0
  BY DEF Single
<1>4. \A n \in NodeId : a[n] + b[n] = c[n] + d[n]
  <2> TAKE n \in NodeId
  <2>1. /\ a[n] = (IF n \in DOMAIN g THEN g[n].size ELSE 0)
        /\ b[n] = (IF n \in S THEN tree[n].size ELSE 0)
        /\ c[n] = (IF n \in DOMAIN tree THEN tree[n].size ELSE 0)
    BY DEF Weight
  <2>2. b[n] \in Nat /\ c[n] \in Nat /\ a[n] \in Nat
    BY <1>1 DEF Weights
  <2> HIDE DEF a, b, c, d
  <2>3. CASE n \in S
    <3>1. a[n] = 0 /\ b[n] = c[n]
      BY <2>1, <2>3
    <3> QED BY <1>3, <2>2, <3>1
  <2>4. CASE n \notin S
    <3>1. b[n] = 0 /\ a[n] = c[n]
      BY <2>1, <2>4
    <3> QED BY <1>3, <2>2, <3>1
  <2> QED BY <2>3, <2>4
<1> HIDE DEF a, b, c, d
<1>5. Total(a) + Total(b) = Total(c) + Total(d)
  BY <1>1, <1>2, <1>4, TotalsBalance
<1>6. Total(c) \in Nat
  BY <1>1, TotalType
<1> QED BY <1>1, <1>2, <1>5, <1>6

------------------------------------------------------------------------------
(***************************************************************************)
(* What an operation does to a tree.                                       *)
(***************************************************************************)
\* A name entered in the folder of a node.
Entered(r, name, id) ==
  [r EXCEPT !.children = [x \in DOMAIN @ \union {name} |-> IF x = name THEN id ELSE @[x]]]

LEMMA EnteredParts ==
  ASSUME NEW r \in Nodes, NEW name \in Names, NEW id \in NodeId,
         NEW q, q = Entered(r, name, id)
  PROVE  /\ q \in Nodes /\ q.isDir = r.isDir /\ q.size = r.size /\ q.writable = r.writable
         /\ q.attrs = r.attrs
         /\ DOMAIN q.children = DOMAIN r.children \union {name}
         /\ q.children[name] = id
         /\ \A x \in DOMAIN r.children \ {name} : q.children[x] = r.children[x]
<1> DEFINE c == [x \in DOMAIN r.children \union {name} |-> IF x = name THEN id ELSE r.children[x]]
<1>1. DOMAIN r.children \in SUBSET Names /\ \A x \in DOMAIN r.children : r.children[x] \in NodeId
  BY NodeParts, FolderParts
<1>2. c \in [DOMAIN r.children \union {name} -> NodeId]
  BY <1>1
<1>3. c \in Folders
  <2> HIDE DEF c
  <2>1. DOMAIN r.children \union {name} \in SUBSET Names
    BY <1>1
  <2> QED BY <1>2, <2>1, FolderParts
<1>4. q = [r EXCEPT !.children = c]
  BY DEF Entered
<1>5. /\ DOMAIN c = DOMAIN r.children \union {name} /\ c[name] = id
      /\ \A x \in DOMAIN r.children \ {name} : c[x] = r.children[x]
  OBVIOUS
<1> HIDE DEF c
<1> QED BY <1>3, <1>4, <1>5, NodeEdits

\* g is the tree with a new node under parent.
IsGrown(g, tree, parent, name, new, id) ==
  /\ id \in NodeId \ DOMAIN tree
  /\ DOMAIN g = DOMAIN tree \union {id}
  /\ g = [n \in DOMAIN g |-> g[n]]
  /\ g[id] = new
  /\ g[parent] = Entered(tree[parent], name, id)
  /\ \A n \in DOMAIN tree \ {parent} : g[n] = tree[n]

LEMMA FreeNode ==
  ASSUME NEW tree, Typed(tree), Cardinality(DOMAIN tree) < MaxTotalNodes
  PROVE  \E n \in NodeId : n \notin DOMAIN tree
<1>1. IsFiniteSet(NodeId) /\ Cardinality(NodeId) = MaxTotalNodes
  <2>1. /\ 0 \in Int /\ MaxTotalNodes - 1 \in Int
        /\ ~(0 > MaxTotalNodes - 1) /\ (MaxTotalNodes - 1) - 0 + 1 = MaxTotalNodes
    BY TreeLimits
  <2> QED BY <2>1, FS_Interval, TreeLimits
<1>2. DOMAIN tree # NodeId
  BY <1>1, TreeLimits
<1> QED BY <1>2 DEF Typed

LEMMA FiniteTree ==
  ASSUME NEW tree, Typed(tree)
  PROVE  IsFiniteSet(DOMAIN tree) /\ Cardinality(DOMAIN tree) \in Nat
<1>1. IsFiniteSet(NodeId)
  <2>1. 0 \in Int /\ MaxTotalNodes - 1 \in Int
    BY TreeLimits
  <2> QED BY <2>1, FS_Interval, TreeLimits
<1>2. IsFiniteSet(DOMAIN tree)
  BY <1>1, FS_Subset DEF Typed
<1> QED BY <1>2, FS_CardinalityType

LEMMA GrowIs ==
  ASSUME NEW tree, Typed(tree), NEW parent \in DOMAIN tree, NEW name, NEW new,
         Cardinality(DOMAIN tree) < MaxTotalNodes
  PROVE  \E id : IsGrown(Grow(tree, parent, name, new), tree, parent, name, new, id)
<1> DEFINE id == CHOOSE n \in NodeId : n \notin DOMAIN tree
<1>1. id \in NodeId /\ id \notin DOMAIN tree
  BY FreeNode
<1> DEFINE f(n) == IF n = id THEN new
                   ELSE IF n # parent THEN tree[n] ELSE Entered(tree[n], name, id)
           g == [n \in DOMAIN tree \union {id} |-> f(n)]
<1>2. Grow(tree, parent, name, new) = g
  BY DEF Grow, Entered
<1> HIDE DEF id
<1>3. /\ DOMAIN g = DOMAIN tree \union {id} /\ g = [n \in DOMAIN g |-> g[n]]
      /\ g[id] = new /\ \A n \in DOMAIN tree : g[n] = f(n)
  BY <1>1
<1> HIDE DEF g
<1>4. g[parent] = Entered(tree[parent], name, id) /\ \A n \in DOMAIN tree \ {parent} : g[n] = tree[n]
  BY <1>1, <1>3
<1>5. IsGrown(g, tree, parent, name, new, id)
  BY <1>1, <1>3, <1>4 DEF IsGrown
<1> QED BY <1>2, <1>5

LEMMA GrowOK ==
  ASSUME NEW tree, TreeOK(tree), NEW parent \in DOMAIN tree, tree[parent].isDir,
         NEW name \in Names, name \notin Entries(tree, parent),
         NEW new \in Nodes, DOMAIN new.children = {},
         NEW g, NEW id, IsGrown(g, tree, parent, name, new, id)
  PROVE  /\ TreeOK(g)
         /\ Cardinality(DOMAIN g) = Cardinality(DOMAIN tree) + 1
         /\ Bytes(g, DOMAIN g) = Bytes(tree, DOMAIN tree) + new.size
<1>1. /\ Typed(tree) /\ id \in NodeId /\ id \notin DOMAIN tree
      /\ DOMAIN g = DOMAIN tree \union {id} /\ g[id] = new
      /\ \A n \in DOMAIN tree \ {parent} : g[n] = tree[n]
  BY DEF TreeOK, IsGrown
<1>2. tree[parent] \in Nodes
  BY <1>1 DEF Typed
<1>3. /\ g[parent] \in Nodes
      /\ g[parent].isDir = tree[parent].isDir /\ g[parent].size = tree[parent].size
      /\ DOMAIN g[parent].children = Entries(tree, parent) \union {name}
      /\ g[parent].children[name] = id
      /\ \A x \in Entries(tree, parent) : g[parent].children[x] = tree[parent].children[x]
  <2>1. g[parent] = Entered(tree[parent], name, id)
    BY DEF IsGrown
  <2>2. DOMAIN tree[parent].children = Entries(tree, parent)
    BY DEF Entries
  <2> DEFINE r == tree[parent]
             q == g[parent]
  <2>3. r \in Nodes /\ q = Entered(r, name, id)
    BY <1>2, <2>1
  <2> HIDE DEF r, q
  <2>4. /\ q \in Nodes /\ q.isDir = r.isDir /\ q.size = r.size
        /\ DOMAIN q.children = DOMAIN r.children \union {name}
        /\ q.children[name] = id
        /\ \A x \in DOMAIN r.children \ {name} : q.children[x] = r.children[x]
    BY <1>1, <2>3, EnteredParts
  <2>5. \A x \in DOMAIN r.children : q.children[x] = r.children[x]
    BY <2>2, <2>4 DEF r
  <2> QED BY <2>2, <2>4, <2>5 DEF r, q
<1>4. Typed(g)
  <2>1. \A n \in DOMAIN g : g[n] \in Nodes
    BY <1>1, <1>3 DEF Typed
  <2>2. g \in [DOMAIN g -> Nodes]
    BY <2>1 DEF IsGrown
  <2> QED BY <1>1, <2>2 DEF Typed
\* What the entries of g are.
<1>5. /\ Entries(g, id) = {}
      /\ \A n \in DOMAIN tree \ {parent} : Entries(g, n) = Entries(tree, n)
      /\ Entries(g, parent) = Entries(tree, parent) \union {name}
  BY <1>1, <1>3 DEF Entries
<1>6. \A n \in DOMAIN tree : \A x \in Entries(tree, n) : g[n].children[x] = tree[n].children[x]
  BY <1>1, <1>3
<1>7. \A n \in DOMAIN g : \A x \in Entries(g, n) :
        \/ n \in DOMAIN tree /\ x \in Entries(tree, n)
        \/ n = parent /\ x = name
  BY <1>1, <1>5
<1>8. \A n \in DOMAIN tree : \A x \in Entries(tree, n) : tree[n].children[x] \in DOMAIN tree
  BY DEF TreeOK, Closed
<1>9. Closed(g, DOMAIN g)
  <2> SUFFICES ASSUME NEW n \in DOMAIN g, NEW x \in Entries(g, n)
               PROVE  g[n].children[x] \in DOMAIN g
    BY DEF Closed
  <2> QED BY <1>1, <1>3, <1>6, <1>7, <1>8
<1>10. Root \in DOMAIN g /\ g[Root].isDir
  BY <1>1, <1>3 DEF TreeOK
<1>11. \A n \in DOMAIN g : ~g[n].isDir => Entries(g, n) = {}
  BY <1>1, <1>3, <1>5 DEF TreeOK
<1>12. Unique(g)
  <2> SUFFICES ASSUME NEW m \in DOMAIN g, NEW n \in DOMAIN g,
                      NEW x \in Entries(g, m), NEW y \in Entries(g, n),
                      g[m].children[x] = g[n].children[y]
               PROVE  m = n /\ x = y
    BY DEF Unique
  <2>1. CASE m \in DOMAIN tree /\ x \in Entries(tree, m) /\ n \in DOMAIN tree /\ y \in Entries(tree, n)
    BY <1>6, <2>1 DEF TreeOK, Unique
  <2>2. CASE m \in DOMAIN tree /\ x \in Entries(tree, m) /\ n = parent /\ y = name
    BY <1>1, <1>3, <1>6, <1>8, <2>2
  <2>3. CASE m = parent /\ x = name /\ n \in DOMAIN tree /\ y \in Entries(tree, n)
    BY <1>1, <1>3, <1>6, <1>8, <2>3
  <2> QED BY <1>7, <2>1, <2>2, <2>3
<1>13. Rootless(g)
  <2> SUFFICES ASSUME NEW n \in DOMAIN g, NEW x \in Entries(g, n) PROVE g[n].children[x] # Root
    BY DEF Rootless
  <2>1. Root \in DOMAIN tree /\ id # Root
    BY <1>1 DEF TreeOK
  <2>2. CASE n \in DOMAIN tree /\ x \in Entries(tree, n)
    BY <1>6, <2>2 DEF TreeOK, Rootless
  <2> QED BY <1>3, <1>7, <2>1, <2>2
<1>14. Cardinality(DOMAIN g) = Cardinality(DOMAIN tree) + 1
  BY <1>1, FiniteTree, FS_AddElement
<1>15. Bytes(g, DOMAIN g) = Bytes(tree, DOMAIN tree) + new.size
  <2>1. /\ Weight(tree, DOMAIN tree)[id] = 0 /\ Weight(g, DOMAIN g)[id] = new.size
        /\ Bytes(g, DOMAIN g) \in Nat /\ Bytes(tree, DOMAIN tree) \in Nat
    BY <1>1, <1>4, WeightType
  <2>2. \A n \in NodeId \ {id} : /\ n \in DOMAIN tree <=> n \in DOMAIN g
                                 /\ n \in DOMAIN tree => tree[n].size = g[n].size
    BY <1>1, <1>3
  <2> QED BY <1>1, <1>4, <2>1, <2>2, BytesChange
<1> QED BY <1>4, <1>9, <1>10, <1>11, <1>12, <1>13, <1>14, <1>15 DEF TreeOK

\* One node of the tree changed, but not its place or its entries.
Edited(tree, k, r) == [tree EXCEPT ![k] = r]

LEMMA EditOK ==
  ASSUME NEW tree, TreeOK(tree), NEW k \in DOMAIN tree, NEW r \in Nodes,
         r.isDir = tree[k].isDir, r.children = tree[k].children,
         NEW g, g = Edited(tree, k, r)
  PROVE  /\ TreeOK(g) /\ DOMAIN g = DOMAIN tree
         /\ g[k] = r /\ \A n \in DOMAIN tree \ {k} : g[n] = tree[n]
         /\ Bytes(g, DOMAIN g) + tree[k].size = Bytes(tree, DOMAIN tree) + r.size
<1>1. /\ DOMAIN g = DOMAIN tree /\ g[k] = r /\ \A n \in DOMAIN tree \ {k} : g[n] = tree[n]
      /\ g = [n \in DOMAIN g |-> g[n]]
  BY DEF Edited
<1>2. Typed(tree) /\ \A n \in DOMAIN tree : tree[n] \in Nodes
  BY DEF TreeOK, Typed
<1>3. Typed(g)
  <2>1. \A n \in DOMAIN g : g[n] \in Nodes
    BY <1>1, <1>2
  <2> QED BY <1>1, <1>2, <2>1 DEF Typed
<1>4. \A n \in DOMAIN tree : g[n].isDir = tree[n].isDir /\ g[n].children = tree[n].children
  BY <1>1
<1>5. \A n \in DOMAIN tree : Entries(g, n) = Entries(tree, n)
  BY <1>4 DEF Entries
<1>6. TreeOK(g)
  BY <1>1, <1>3, <1>4, <1>5 DEF TreeOK, Closed, Unique, Rootless
<1>7. Bytes(g, DOMAIN g) + tree[k].size = Bytes(tree, DOMAIN tree) + r.size
  <2>1. k \in NodeId
    BY <1>2 DEF Typed
  <2>2. Weight(tree, DOMAIN tree)[k] = tree[k].size /\ Weight(g, DOMAIN g)[k] = r.size
    BY <1>1, <1>2, <1>3, <2>1, WeightType
  <2>3. \A n \in NodeId \ {k} : /\ n \in DOMAIN tree <=> n \in DOMAIN g
                                /\ n \in DOMAIN tree => tree[n].size = g[n].size
    BY <1>1
  <2>4. Bytes(g, DOMAIN g) + Weight(tree, DOMAIN tree)[k]
           = Bytes(tree, DOMAIN tree) + Weight(g, DOMAIN g)[k]
    BY <1>2, <1>3, <2>1, <2>3, BytesChange
  <2> QED BY <2>2, <2>4
<1> QED BY <1>1, <1>6, <1>7

\* A name taken out of the folder of a node.
Left(r, name) == [r EXCEPT !.children = WithoutEntry(@, name)]

LEMMA LeftParts ==
  ASSUME NEW r \in Nodes, NEW name, NEW q, q = Left(r, name)
  PROVE  /\ q \in Nodes /\ q.isDir = r.isDir /\ q.size = r.size /\ q.writable = r.writable
         /\ q.attrs = r.attrs
         /\ DOMAIN q.children = DOMAIN r.children \ {name}
         /\ \A x \in DOMAIN q.children : q.children[x] = r.children[x]
<1> DEFINE c == [x \in DOMAIN r.children \ {name} |-> r.children[x]]
<1>1. DOMAIN r.children \in SUBSET Names /\ \A x \in DOMAIN r.children : r.children[x] \in NodeId
  BY NodeParts, FolderParts
<1>2. c \in [DOMAIN r.children \ {name} -> NodeId]
  BY <1>1
<1>3. c \in Folders
  <2> HIDE DEF c
  <2>1. DOMAIN r.children \ {name} \in SUBSET Names
    BY <1>1
  <2> QED BY <1>2, <2>1, FolderParts
<1>4. q = [r EXCEPT !.children = c]
  BY DEF Left, WithoutEntry
<1>5. /\ DOMAIN c = DOMAIN r.children \ {name}
      /\ \A x \in DOMAIN c : c[x] = r.children[x]
  OBVIOUS
<1> HIDE DEF c
<1> QED BY <1>3, <1>4, <1>5, NodeEdits

\* Below is what it says it is.
LEMMA BelowLeast ==
  ASSUME NEW tree, Closed(tree, DOMAIN tree), NEW n \in DOMAIN tree
  PROVE  /\ Below(tree, n) \subseteq DOMAIN tree
         /\ n \in Below(tree, n)
         /\ Closed(tree, Below(tree, n))
         /\ \A S \in SUBSET DOMAIN tree : n \in S /\ Closed(tree, S) => Below(tree, n) \subseteq S
<1>1. Below(tree, n) \subseteq DOMAIN tree /\ n \in Below(tree, n)
  BY DEF Below
<1>2. \A S \in SUBSET DOMAIN tree : n \in S /\ Closed(tree, S) => Below(tree, n) \subseteq S
  BY DEF Below
<1>3. ASSUME NEW m \in Below(tree, n), NEW x \in Entries(tree, m)
      PROVE  tree[m].children[x] \in Below(tree, n)
  <2>1. tree[m].children[x] \in DOMAIN tree
    BY <1>1 DEF Closed
  <2>2. ASSUME NEW S \in SUBSET DOMAIN tree, n \in S, Closed(tree, S)
        PROVE  tree[m].children[x] \in S
    <3>1. m \in S
      BY <1>2, <2>2
    <3> QED BY <2>2, <3>1 DEF Closed
  <2> QED BY <2>1, <2>2 DEF Below
<1> QED BY <1>1, <1>2, <1>3 DEF Closed

\* The only way into a subtree is the entry of its top, and the root is in none.
LEMMA OneWayIn ==
  ASSUME NEW tree, TreeOK(tree), NEW parent \in DOMAIN tree, NEW name \in Entries(tree, parent),
         NEW top, top = tree[parent].children[name], NEW gone, gone = Below(tree, top)
  PROVE  /\ top \in gone /\ gone \subseteq DOMAIN tree
         /\ Root \notin gone
         /\ \A m \in DOMAIN tree \ gone : \A x \in Entries(tree, m) :
              tree[m].children[x] \in gone => m = parent /\ x = name
<1>1. Closed(tree, DOMAIN tree) /\ top \in DOMAIN tree
  BY DEF TreeOK, Closed
<1>2. /\ gone \subseteq DOMAIN tree /\ top \in gone /\ Closed(tree, gone)
      /\ \A S \in SUBSET DOMAIN tree : top \in S /\ Closed(tree, S) => gone \subseteq S
  BY <1>1, BelowLeast
\* Whatever is in the subtree and is not its top has a parent there.
<1>3. ASSUME NEW c \in gone, c # top
      PROVE  \E m \in gone : \E x \in Entries(tree, m) : tree[m].children[x] = c
  <2> SUFFICES ASSUME \A m \in gone : \A x \in Entries(tree, m) : tree[m].children[x] # c
               PROVE  FALSE
    OBVIOUS
  <2>1. Closed(tree, gone \ {c})
    BY <1>2 DEF Closed
  <2>2. top \in gone \ {c} /\ gone \ {c} \in SUBSET DOMAIN tree
    BY <1>2, <1>3
  <2> QED BY <1>2, <2>1, <2>2
<1>4. Root \notin gone
  <2>1. top # Root
    BY DEF TreeOK, Rootless
  <2> QED BY <1>2, <1>3, <2>1 DEF TreeOK, Rootless
<1>5. ASSUME NEW m \in DOMAIN tree \ gone, NEW x \in Entries(tree, m), tree[m].children[x] \in gone
      PROVE  m = parent /\ x = name
  <2>1. CASE tree[m].children[x] = top
    BY <2>1 DEF TreeOK, Unique
  <2>2. CASE tree[m].children[x] # top
    <3>1. PICK k \in gone : \E y \in Entries(tree, k) : tree[k].children[y] = tree[m].children[x]
      BY <1>3, <1>5, <2>2
    <3>2. k \in DOMAIN tree /\ k # m
      BY <1>2
    <3> QED BY <3>1, <3>2 DEF TreeOK, Unique
  <2> QED BY <2>1, <2>2
<1> QED BY <1>2, <1>4, <1>5

\* g is the tree without the subtree under an entry, and without the entry.
IsPruned(g, tree, parent, name, gone) ==
  g = [n \in DOMAIN tree \ gone |-> IF n = parent THEN Left(tree[n], name) ELSE tree[n]]

LEMMA PruneOK ==
  ASSUME NEW tree, TreeOK(tree), NEW parent \in DOMAIN tree, NEW name \in Entries(tree, parent),
         NEW gone, gone = Below(tree, tree[parent].children[name]),
         NEW g, IsPruned(g, tree, parent, name, gone)
  PROVE  /\ TreeOK(g)
         /\ Cardinality(gone) \in Nat
         /\ Cardinality(DOMAIN tree) = Cardinality(DOMAIN g) + Cardinality(gone)
         /\ Bytes(tree, DOMAIN tree) = Bytes(g, DOMAIN g) + Bytes(tree, gone)
<1>1. /\ gone \subseteq DOMAIN tree /\ Root \notin gone
      /\ \A m \in DOMAIN tree \ gone : \A x \in Entries(tree, m) :
           tree[m].children[x] \in gone => m = parent /\ x = name
  BY OneWayIn
<1>2. Typed(tree) /\ \A n \in DOMAIN tree : tree[n] \in Nodes
  BY DEF TreeOK, Typed
<1>3. /\ DOMAIN g = DOMAIN tree \ gone /\ g = [n \in DOMAIN g |-> g[n]]
      /\ \A n \in DOMAIN g : n # parent => g[n] = tree[n]
      /\ parent \in DOMAIN g => g[parent] = Left(tree[parent], name)
  BY DEF IsPruned
<1>4. ASSUME NEW n \in DOMAIN g
      PROVE  /\ g[n] \in Nodes /\ g[n].isDir = tree[n].isDir /\ g[n].size = tree[n].size
             /\ Entries(g, n) = IF n = parent THEN Entries(tree, n) \ {name} ELSE Entries(tree, n)
             /\ \A x \in Entries(g, n) : g[n].children[x] = tree[n].children[x]
  <2> DEFINE r == tree[n]
             q == g[n]
  <2>1. CASE n = parent
    <3>1. r \in Nodes /\ q = Left(r, name)
      BY <1>2, <1>3, <2>1
    <3> HIDE DEF r, q
    <3>2. /\ q \in Nodes /\ q.isDir = r.isDir /\ q.size = r.size
          /\ DOMAIN q.children = DOMAIN r.children \ {name}
          /\ \A x \in DOMAIN q.children : q.children[x] = r.children[x]
      BY <3>1, LeftParts
    <3> QED BY <2>1, <3>2 DEF r, q, Entries
  <2>2. CASE n # parent
    BY <1>2, <1>3, <2>2 DEF Entries
  <2> QED BY <2>1, <2>2
<1>5. Typed(g)
  BY <1>2, <1>3, <1>4 DEF Typed
<1>6. ASSUME NEW n \in DOMAIN g, NEW x \in Entries(g, n)
      PROVE  x \in Entries(tree, n) /\ g[n].children[x] = tree[n].children[x]
  BY <1>4
<1>7. Closed(g, DOMAIN g)
  <2> SUFFICES ASSUME NEW n \in DOMAIN g, NEW x \in Entries(g, n)
               PROVE  g[n].children[x] \in DOMAIN g
    BY DEF Closed
  <2>1. tree[n].children[x] \in DOMAIN tree /\ n \in DOMAIN tree \ gone /\ x \in Entries(tree, n)
    BY <1>3, <1>6 DEF TreeOK, Closed
  <2>2. ~(n = parent /\ x = name)
    BY <1>4
  <2> QED BY <1>1, <1>3, <1>6, <2>1, <2>2
<1>8. Root \in DOMAIN g /\ g[Root].isDir
  BY <1>1, <1>3, <1>4 DEF TreeOK
<1>9. \A n \in DOMAIN g : ~g[n].isDir => Entries(g, n) = {}
  BY <1>3, <1>4 DEF TreeOK
<1>10. Unique(g) /\ Rootless(g)
  <2>1. Unique(g)
    BY <1>3, <1>6 DEF TreeOK, Unique
  <2>2. Rootless(g)
    BY <1>3, <1>6 DEF TreeOK, Rootless
  <2> QED BY <2>1, <2>2
<1>11. /\ Cardinality(gone) \in Nat
       /\ Cardinality(DOMAIN tree) = Cardinality(DOMAIN g) + Cardinality(gone)
  <2>1. IsFiniteSet(DOMAIN tree) /\ IsFiniteSet(DOMAIN g) /\ Cardinality(DOMAIN g) \in Nat
    BY <1>2, <1>5, FiniteTree
  <2>2. IsFiniteSet(gone) /\ Cardinality(gone) \in Nat
    BY <1>1, <2>1, FS_Subset, FS_CardinalityType
  <2>3. DOMAIN tree = DOMAIN g \union gone /\ DOMAIN g \cap gone = {}
    BY <1>1, <1>3
  <2>4. Cardinality(DOMAIN g \cap gone) = 0
    BY <2>3, FS_EmptySet
  <2>5. Cardinality(DOMAIN g \union gone)
          = Cardinality(DOMAIN g) + Cardinality(gone) - Cardinality(DOMAIN g \cap gone)
    BY <2>1, <2>2, FS_Union
  <2> QED BY <2>1, <2>2, <2>3, <2>4, <2>5
<1>12. Bytes(tree, DOMAIN tree) = Bytes(g, DOMAIN g) + Bytes(tree, gone)
  BY <1>1, <1>2, <1>3, <1>4, <1>5, BytesSplit
<1> QED BY <1>5, <1>7, <1>8, <1>9, <1>10, <1>11, <1>12 DEF TreeOK

\* g is the tree with an entry moved to another place.
IsMoved(g, tree, p, a, q, b) ==
  \E cut : /\ cut = [tree EXCEPT ![p] = Left(tree[p], a)]
           /\ g = [cut EXCEPT ![q] = Entered(cut[q], b, tree[p].children[a])]

LEMMA MoveOK ==
  ASSUME NEW tree, TreeOK(tree), NEW p \in DOMAIN tree, NEW a \in Entries(tree, p),
         NEW q \in DOMAIN tree, tree[q].isDir, NEW b \in Names, b \notin Entries(tree, q),
         NEW g, IsMoved(g, tree, p, a, q, b)
  PROVE  /\ TreeOK(g) /\ DOMAIN g = DOMAIN tree
         /\ Bytes(g, DOMAIN g) = Bytes(tree, DOMAIN tree)
         /\ \A n \in DOMAIN tree : /\ n \notin {p, q} => g[n] = tree[n]
                                   /\ g[n].isDir = tree[n].isDir /\ g[n].size = tree[n].size
                                   /\ g[n].writable = tree[n].writable /\ g[n].attrs = tree[n].attrs
                                   /\ n # p => \A x \in Entries(tree, n) :
                                        x \in Entries(g, n) /\ g[n].children[x] = tree[n].children[x]
<1> DEFINE t == tree[p].children[a]
<1>1. PICK cut : /\ cut = [tree EXCEPT ![p] = Left(tree[p], a)]
                 /\ g = [cut EXCEPT ![q] = Entered(cut[q], b, t)]
  BY DEF IsMoved
<1>2. Typed(tree) /\ (\A n \in DOMAIN tree : tree[n] \in Nodes) /\ t \in DOMAIN tree /\ t \in NodeId
  BY DEF TreeOK, Typed, Closed
<1>3. /\ \A n \in DOMAIN tree : \A x \in Entries(tree, n) :
           tree[n].children[x] \in DOMAIN tree /\ (tree[n].children[x] = t => n = p /\ x = a)
      /\ t # Root
  BY DEF TreeOK, Closed, Unique, Rootless
<1> HIDE DEF t
<1>4. /\ DOMAIN cut = DOMAIN tree /\ cut[p] = Left(tree[p], a)
      /\ \A n \in DOMAIN tree \ {p} : cut[n] = tree[n]
      /\ DOMAIN g = DOMAIN tree /\ g[q] = Entered(cut[q], b, t)
      /\ \A n \in DOMAIN tree \ {q} : g[n] = cut[n]
      /\ g = [n \in DOMAIN g |-> g[n]]
  BY <1>1
<1>5. ASSUME NEW n \in DOMAIN tree
      PROVE  /\ cut[n] \in Nodes /\ cut[n].isDir = tree[n].isDir /\ cut[n].size = tree[n].size
             /\ cut[n].writable = tree[n].writable /\ cut[n].attrs = tree[n].attrs
             /\ DOMAIN cut[n].children = IF n = p THEN Entries(tree, n) \ {a} ELSE Entries(tree, n)
             /\ \A x \in DOMAIN cut[n].children : cut[n].children[x] = tree[n].children[x]
  <2> DEFINE r == tree[n]
             s == cut[n]
  <2>1. CASE n = p
    <3>1. r \in Nodes /\ s = Left(r, a)
      BY <1>2, <1>4, <2>1
    <3> HIDE DEF r, s
    <3>2. /\ s \in Nodes /\ s.isDir = r.isDir /\ s.size = r.size
          /\ s.writable = r.writable /\ s.attrs = r.attrs
          /\ DOMAIN s.children = DOMAIN r.children \ {a}
          /\ \A x \in DOMAIN s.children : s.children[x] = r.children[x]
      BY <3>1, LeftParts
    <3> QED BY <2>1, <3>2 DEF r, s, Entries
  <2>2. CASE n # p
    BY <1>2, <1>4, <2>2 DEF Entries
  <2> QED BY <2>1, <2>2
<1>6. ASSUME NEW n \in DOMAIN tree
      PROVE  /\ g[n] \in Nodes /\ g[n].isDir = tree[n].isDir /\ g[n].size = tree[n].size
             /\ g[n].writable = tree[n].writable /\ g[n].attrs = tree[n].attrs
             /\ Entries(g, n) = DOMAIN cut[n].children \union (IF n = q THEN {b} ELSE {})
             /\ n = q => g[n].children[b] = t
             /\ \A x \in DOMAIN cut[n].children : ~(n = q /\ x = b) =>
                  g[n].children[x] = tree[n].children[x]
  <2> DEFINE r == cut[n]
             s == g[n]
  <2>1. CASE n = q
    <3>1. r \in Nodes /\ s = Entered(r, b, t)
      BY <1>4, <1>5, <2>1
    <3> HIDE DEF r, s
    <3>2. /\ s \in Nodes /\ s.isDir = r.isDir /\ s.size = r.size
          /\ s.writable = r.writable /\ s.attrs = r.attrs
          /\ DOMAIN s.children = DOMAIN r.children \union {b} /\ s.children[b] = t
          /\ \A x \in DOMAIN r.children \ {b} : s.children[x] = r.children[x]
      BY <1>2, <3>1, EnteredParts
    <3>3. /\ r.isDir = tree[n].isDir /\ r.size = tree[n].size
          /\ r.writable = tree[n].writable /\ r.attrs = tree[n].attrs
          /\ \A x \in DOMAIN r.children : r.children[x] = tree[n].children[x]
      BY <1>5 DEF r, Entries
    <3>4. \A x \in DOMAIN r.children : x # b => s.children[x] = tree[n].children[x]
      BY <3>2, <3>3
    <3>5. DOMAIN s.children = DOMAIN r.children \union {b} /\ s.children[b] = t
      BY <3>2
    <3> QED BY <2>1, <3>2, <3>3, <3>4, <3>5 DEF r, s, Entries
  <2>2. CASE n # q
    <3>1. s = r
      BY <1>4, <2>2
    <3>2. Entries(g, n) = DOMAIN s.children
      BY DEF Entries
    <3>3. /\ r \in Nodes /\ r.isDir = tree[n].isDir /\ r.size = tree[n].size
          /\ r.writable = tree[n].writable /\ r.attrs = tree[n].attrs
          /\ \A x \in DOMAIN r.children : r.children[x] = tree[n].children[x]
      BY <1>5
    <3> HIDE DEF r, s
    <3> QED BY <2>2, <3>1, <3>2, <3>3 DEF r, s
  <2> QED BY <2>1, <2>2
\* An entry of g is the new one or an old one that was not moved.
<1>7. ASSUME NEW n \in DOMAIN tree, NEW x \in Entries(g, n)
      PROVE  \/ n = q /\ x = b /\ g[n].children[x] = t
             \/ /\ x \in Entries(tree, n) /\ g[n].children[x] = tree[n].children[x]
                /\ g[n].children[x] # t
  <2>1. CASE n = q /\ x = b
    BY <1>6, <2>1
  <2>2. CASE ~(n = q /\ x = b)
    <3>1. x \in DOMAIN cut[n].children
      BY <1>6, <2>2
    <3>2. x \in Entries(tree, n) /\ ~(n = p /\ x = a)
      BY <1>5, <3>1
    <3> QED BY <1>3, <1>6, <2>2, <3>1, <3>2
  <2> QED BY <2>1, <2>2
<1>8. Typed(g)
  BY <1>2, <1>4, <1>6 DEF Typed
<1>9. Closed(g, DOMAIN g)
  BY <1>2, <1>3, <1>4, <1>7 DEF Closed
<1>10. Root \in DOMAIN g /\ g[Root].isDir
  BY <1>4, <1>6 DEF TreeOK
<1>11. ASSUME NEW n \in DOMAIN g, ~g[n].isDir PROVE Entries(g, n) = {}
  <2>1. n \in DOMAIN tree /\ ~tree[n].isDir /\ n # q
    BY <1>4, <1>6, <1>11
  <2>2. Entries(tree, n) = {}
    BY <2>1 DEF TreeOK
  <2> QED BY <1>7, <2>1, <2>2
<1>12. Unique(g)
  <2> SUFFICES ASSUME NEW m \in DOMAIN g, NEW n \in DOMAIN g,
                      NEW x \in Entries(g, m), NEW y \in Entries(g, n),
                      g[m].children[x] = g[n].children[y]
               PROVE  m = n /\ x = y
    BY DEF Unique
  <2>1. /\ \/ m = q /\ x = b /\ g[m].children[x] = t
           \/ /\ x \in Entries(tree, m) /\ g[m].children[x] = tree[m].children[x]
              /\ g[m].children[x] # t
        /\ \/ n = q /\ y = b /\ g[n].children[y] = t
           \/ /\ y \in Entries(tree, n) /\ g[n].children[y] = tree[n].children[y]
              /\ g[n].children[y] # t
        /\ m \in DOMAIN tree /\ n \in DOMAIN tree
    BY <1>4, <1>7
  <2> QED BY <2>1 DEF TreeOK, Unique
<1>13. Rootless(g)
  <2> SUFFICES ASSUME NEW n \in DOMAIN g, NEW x \in Entries(g, n) PROVE g[n].children[x] # Root
    BY DEF Rootless
  <2> QED BY <1>3, <1>4, <1>7 DEF TreeOK, Rootless
<1>14. Bytes(g, DOMAIN g) = Bytes(tree, DOMAIN tree)
  <2>1. Root \in NodeId /\ Root \in DOMAIN tree
    BY TreeLimits DEF TreeOK
  <2>2. /\ Weight(tree, DOMAIN tree)[Root] = tree[Root].size
        /\ Weight(g, DOMAIN g)[Root] = g[Root].size
        /\ Bytes(g, DOMAIN g) \in Nat /\ Bytes(tree, DOMAIN tree) \in Nat
    BY <1>2, <1>4, <1>8, <2>1, WeightType
  <2>3. Bytes(g, DOMAIN g) + Weight(tree, DOMAIN tree)[Root]
           = Bytes(tree, DOMAIN tree) + Weight(g, DOMAIN g)[Root]
    BY <1>2, <1>4, <1>6, <1>8, <2>1, BytesChange
  <2>4. tree[Root].size \in Nat /\ g[Root].size = tree[Root].size
    BY <1>2, <1>6, <2>1, NodeParts
  <2> QED BY <2>2, <2>3, <2>4
<1>15. ASSUME NEW n \in DOMAIN tree
       PROVE  /\ n \notin {p, q} => g[n] = tree[n]
              /\ n # p => \A x \in Entries(tree, n) :
                   x \in Entries(g, n) /\ g[n].children[x] = tree[n].children[x]
  <2>1. n \notin {p, q} => g[n] = tree[n]
    BY <1>4
  <2>2. ASSUME n # p, NEW x \in Entries(tree, n)
        PROVE  x \in Entries(g, n) /\ g[n].children[x] = tree[n].children[x]
    <3>1. x \in DOMAIN cut[n].children
      BY <1>5, <2>2
    <3>2. ~(n = q /\ x = b)
      OBVIOUS
    <3> QED BY <1>6, <3>1, <3>2
  <2> QED BY <2>1, <2>2
<1> QED BY <1>4, <1>6, <1>8, <1>9, <1>10, <1>11, <1>12, <1>13, <1>14, <1>15 DEF TreeOK

------------------------------------------------------------------------------
(***************************************************************************)
(* Paths.                                                                  *)
(***************************************************************************)
Words == Names \union {".."}

LEMMA SequenceEnds ==
  ASSUME NEW S, NEW s \in Seq(S), s # <<>>
  PROVE  SX!Last(s) \in S /\ SX!Front(s) \in Seq(S)
<1>1. Len(s) \in Nat /\ Len(s) # 0
  BY EmptySeq
<1>2. SX!Last(s) \in S
  BY <1>1, ElementOfSeq DEF SX!Last
<1>3. SX!Front(s) \in Seq(S)
  <2>1. \A i \in 1..(Len(s) - 1) : s[i] \in S
    BY <1>1, ElementOfSeq
  <2>2. 1 \in Int /\ Len(s) - 1 \in Int
    BY <1>1
  <2> QED BY <2>1, <2>2, SubSeqProperties DEF SX!Front
<1> QED BY <1>2, <1>3

LEMMA PathParts ==
  ASSUME NEW path \in Paths
  PROVE  /\ path \in Seq(Words) /\ SX!Front(path) \in Seq(Words)
         /\ SX!Last(path) \in Words /\ Len(path) \in Nat
<1>1. path \in Seq(Words) /\ path # <<>>
  BY VfsAssumption DEF Words
<1> QED BY <1>1, SequenceEnds, EmptySeq

\* Where a walk may be.
Walks(D) == [at : D, stack : Seq(D), ok : BOOLEAN]

LEMMA SegmentStays ==
  ASSUME TreeOK(node), NEW dirs \in BOOLEAN, NEW D,
         D = {n \in DOMAIN node : dirs => node[n].isDir},
         NEW w \in Walks(D), NEW seg \in Words
  PROVE  Segment(w, seg, dirs) \in Walks(D)
<1>1. w.at \in D /\ w.stack \in Seq(D) /\ w.ok \in BOOLEAN
  BY DEF Walks
<1>2. \A n \in D, s \in Seq(D) : [w EXCEPT !.at = n, !.stack = s] \in Walks(D)
  BY DEF Walks
<1>3. Back(w) \in Walks(D)
  <2>1. CASE w.stack = <<>>
    BY <2>1 DEF Back
  <2>2. CASE w.stack # <<>>
    <3>1. SX!Last(w.stack) \in D /\ SX!Front(w.stack) \in Seq(D)
      BY <1>1, <2>2, SequenceEnds
    <3> QED BY <1>2, <2>2, <3>1 DEF Back
  <2> QED BY <2>1, <2>2
<1>4. ASSUME w.ok, seg \in Entries(node, w.at), dirs => node[node[w.at].children[seg]].isDir
      PROVE  [w EXCEPT !.at = node[w.at].children[seg], !.stack = Append(w.stack, w.at)] \in Walks(D)
  <2>1. node[w.at].children[seg] \in D
    BY <1>1, <1>4 DEF TreeOK, Closed
  <2>2. Append(w.stack, w.at) \in Seq(D)
    BY <1>1
  <2> QED BY <1>2, <2>1, <2>2
<1>5. [w EXCEPT !.ok = FALSE] \in Walks(D)
  BY DEF Walks
<1>6. CASE seg = ".."
  BY <1>3, <1>6 DEF Segment
<1>7. CASE /\ seg # ".." /\ w.ok /\ seg \in Entries(node, w.at)
           /\ dirs => node[node[w.at].children[seg]].isDir
  BY <1>4, <1>7 DEF Segment
<1>8. CASE /\ seg # ".."
           /\ ~(/\ w.ok /\ seg \in Entries(node, w.at)
                /\ dirs => node[node[w.at].children[seg]].isDir)
  BY <1>5, <1>8 DEF Segment
<1> QED BY <1>6, <1>7, <1>8

LEMMA WalkStays ==
  ASSUME TreeOK(node), NEW path \in Seq(Words), NEW dirs \in BOOLEAN
  PROVE  Walk(path, dirs).at \in DOMAIN node /\ (dirs => node[Walk(path, dirs).at].isDir)
<1> DEFINE N == Len(path)
           D == {n \in DOMAIN node : dirs => node[n].isDir}
           x == [at |-> Root, stack |-> <<>>, ok |-> TRUE]
           F(f) == [i \in 0..N |-> IF i = 0 THEN x ELSE Segment(f[i - 1], path[i], dirs)]
           step == [p \in Walks(D) \X Nat |->
                      IF p[2] \in 1..N THEN Segment(p[1], path[p[2]], dirs) ELSE p[1]]
<1>1. N \in Nat /\ \A i \in 1..N : path[i] \in Words
  BY ElementOfSeq, LenProperties
<1>2. x \in Walks(D)
  <2>1. Root \in D /\ <<>> \in Seq(D)
    BY EmptySeq DEF TreeOK
  <2> HIDE DEF D
  <2> QED BY <2>1 DEF Walks
<1>3. ASSUME NEW w \in Walks(D), NEW i \in 1..N PROVE Segment(w, path[i], dirs) \in Walks(D)
  BY <1>1, <1>3, SegmentStays
<1>4. step \in Steps(Walks(D))
  <2> HIDE DEF D
  <2> QED BY <1>3 DEF Steps
<1>5. \A w \in Walks(D), i \in 1..N : step[<<w, i>>] = Segment(w, path[i], dirs)
  <2> HIDE DEF D
  <2> QED BY <1>1
<1> HIDE DEF step, D, x
<1>6. PICK f : Loop(f, N, Walks(D), x, step)
  BY <1>1, <1>2, <1>4, LoopExists
<1>7. \A i \in 1..N : f[i] = Segment(f[i - 1], path[i], dirs)
  <2> TAKE i \in 1..N
  <2>1. f[i - 1] \in Walks(D)
    BY <1>1, <1>6 DEF Loop
  <2> QED BY <1>5, <1>6, <2>1 DEF Loop
<1>8. f = F(f)
  <2>1. \A i \in 0..N : f[i] = F(f)[i]
    <3> TAKE i \in 0..N
    <3>1. i = 0 \/ i \in 1..N
      BY <1>1
    <3> QED BY <1>6, <1>7, <3>1 DEF Loop
  <2>2. f = [i \in 0..N |-> f[i]]
    BY <1>6 DEF Loop
  <2> DEFINE h == F(f)
  <2>3. h = [i \in 0..N |-> h[i]]
    OBVIOUS
  <2>4. \A i \in 0..N : f[i] = h[i]
    BY <2>1
  <2> HIDE DEF h
  <2>5. f = h
    BY <2>2, <2>3, <2>4
  <2> QED BY <2>5 DEF h
<1> DEFINE t == CHOOSE g : g = F(g)
<1>9. t = F(t)
  BY <1>8
<1>10. Walk(path, dirs) = t[N]
  BY DEF Walk, x
<1> HIDE DEF t
<1>11. t[0] = x /\ \A i \in 1..N : t[i] = Segment(t[i - 1], path[i], dirs)
  BY <1>1, <1>9
<1>12. t[N] \in Walks(D)
  <2>1. \A i \in 1..N : t[i - 1] \in Walks(D) => t[i] \in Walks(D)
    BY <1>3, <1>11
  <2>2. t[0] \in Walks(D)
    BY <1>2, <1>11
  <2> HIDE DEF N
  <2>3. \A i \in 0..N : t[i] \in Walks(D)
    BY <1>1, <2>1, <2>2, LoopStays
  <2> QED BY <1>1, <2>3
<1>13. t[N].at \in D
  BY <1>12 DEF Walks
<1> QED BY <1>10, <1>13 DEF D

LEMMA Resolved ==
  ASSUME TreeOK(node), NEW path \in Paths
  PROVE  Resolve(path) \in DOMAIN node
BY PathParts, WalkStays DEF Resolve

LEMMA LocatedParts ==
  ASSUME TreeOK(node), NEW path \in Paths, Located(path)
  PROVE  /\ Parent(path) \in DOMAIN node /\ node[Parent(path)].isDir
         /\ SX!Last(path) \in Names
         /\ Exists(path) => Target(path) \in DOMAIN node /\ SX!Last(path) \in Entries(node, Parent(path))
<1>1. Parent(path) \in DOMAIN node /\ node[Parent(path)].isDir
  BY PathParts, WalkStays DEF Parent
<1>2. SX!Last(path) \in Names
  BY PathParts DEF Located, Words
<1>3. Exists(path) => Target(path) \in DOMAIN node /\ SX!Last(path) \in Entries(node, Parent(path))
  BY <1>1 DEF Exists, Target, TreeOK, Closed
<1> QED BY <1>1, <1>2, <1>3

------------------------------------------------------------------------------
(***************************************************************************)
(* Mkdir: directories are added one by one, and nothing else changes.      *)
(***************************************************************************)
\* b is a with nodes added; the immutable ones have nothing added to them.
Grows(a, b) ==
  \A n \in DOMAIN a :
    /\ n \in DOMAIN b
    /\ b[n].isDir = a[n].isDir /\ b[n].size = a[n].size
    /\ ~a[n].isDir => b[n].writable = a[n].writable
    /\ b[n].attrs = a[n].attrs
    /\ "i" \in a[n].attrs => b[n].children = a[n].children
    /\ \A x \in Entries(a, n) : x \in Entries(b, n) /\ b[n].children[x] = a[n].children[x]

LEMMA GrowthAdds ==
  ASSUME NEW a, NEW b, NEW c, Grows(a, b), Grows(b, c)
  PROVE  Grows(a, c)
BY DEF Grows

LEMMA GrowGrows ==
  ASSUME NEW tree, TreeOK(tree), NEW parent \in DOMAIN tree, "i" \notin tree[parent].attrs,
         NEW name \in Names, name \notin Entries(tree, parent), NEW new,
         NEW g, NEW id, IsGrown(g, tree, parent, name, new, id)
  PROVE  Grows(tree, g)
<1> SUFFICES ASSUME NEW n \in DOMAIN tree
             PROVE  /\ n \in DOMAIN g
                    /\ g[n].isDir = tree[n].isDir /\ g[n].size = tree[n].size
                    /\ g[n].writable = tree[n].writable /\ g[n].attrs = tree[n].attrs
                    /\ "i" \in tree[n].attrs => g[n].children = tree[n].children
                    /\ \A x \in Entries(tree, n) :
                         x \in Entries(g, n) /\ g[n].children[x] = tree[n].children[x]
  BY DEF Grows
<1>1. CASE n # parent
  BY <1>1 DEF IsGrown, Entries
<1>2. CASE n = parent
  <2> DEFINE r == tree[n]
             q == g[n]
  <2>1. r \in Nodes /\ q = Entered(r, name, id) /\ id \in NodeId /\ n \in DOMAIN g
    BY <1>2 DEF IsGrown, TreeOK, Typed
  <2> HIDE DEF r, q
  <2>2. /\ q.isDir = r.isDir /\ q.size = r.size /\ q.writable = r.writable /\ q.attrs = r.attrs
        /\ DOMAIN q.children = DOMAIN r.children \union {name}
        /\ \A x \in DOMAIN r.children \ {name} : q.children[x] = r.children[x]
    BY <2>1, EnteredParts
  <2>3. name \notin DOMAIN r.children /\ "i" \notin r.attrs
    BY <1>2 DEF r, Entries
  <2> QED BY <2>1, <2>2, <2>3 DEF r, q, Entries
<1> QED BY <1>1, <1>2

Dirs(tree) == {n \in DOMAIN tree : tree[n].isDir}

AnyTree == UNION {[D -> Nodes] : D \in SUBSET NodeId}

Builds == [tree : AnyTree, at : NodeId, stack : Seq(NodeId), made : Nat, ok : BOOLEAN]

\* What has been built so far.
Sound(w) ==
  /\ TreeOK(w.tree) /\ Grows(node, w.tree)
  /\ w.at \in Dirs(w.tree) /\ w.stack \in Seq(Dirs(w.tree))
  /\ totalNodes + w.made <= MaxTotalNodes
  /\ Cardinality(DOMAIN w.tree) = totalNodes + w.made
  /\ Bytes(w.tree, DOMAIN w.tree) = totalBytes

SoundBuilds == {w \in Builds : Sound(w)}

LEMMA TreesTyped ==
  ASSUME NEW tree, Typed(tree)
  PROVE  tree \in AnyTree
BY DEF Typed, AnyTree

LEMMA BuildParts ==
  ASSUME NEW w \in Builds
  PROVE  /\ w.at \in NodeId /\ w.stack \in Seq(NodeId) /\ w.made \in Nat /\ w.ok \in BOOLEAN
         /\ w.tree \in AnyTree
BY DEF Builds

LEMMA BuildFails ==
  ASSUME NEW w \in Builds, NEW v, v = [w EXCEPT !.ok = FALSE]
  PROVE  /\ v \in Builds
         /\ v.tree = w.tree /\ v.at = w.at /\ v.stack = w.stack /\ v.made = w.made
BY DEF Builds

Turned(w, n, s) == [w EXCEPT !.at = n, !.stack = s]

LEMMA BuildTurns ==
  ASSUME NEW w \in Builds, NEW n \in NodeId, NEW s \in Seq(NodeId),
         NEW v, v = Turned(w, n, s)
  PROVE  /\ v \in Builds
         /\ v.tree = w.tree /\ v.at = n /\ v.stack = s /\ v.made = w.made
BY DEF Builds, Turned

Added(w, t, n, s, m) == [w EXCEPT !.tree = t, !.at = n, !.stack = s, !.made = m]

LEMMA BuildAdds ==
  ASSUME NEW w \in Builds, NEW t \in AnyTree, NEW n \in NodeId, NEW s \in Seq(NodeId), NEW m \in Nat,
         NEW v, v = Added(w, t, n, s, m)
  PROVE  /\ v \in Builds
         /\ v.tree = t /\ v.at = n /\ v.stack = s /\ v.made = m
BY DEF Builds, Added

\* A walk that goes elsewhere in the same tree.
LEMMA TurnSound ==
  ASSUME NEW w \in SoundBuilds, NEW n \in Dirs(w.tree), NEW s \in Seq(Dirs(w.tree))
  PROVE  Turned(w, n, s) \in SoundBuilds
<1>1. w \in Builds /\ Sound(w)
  BY DEF SoundBuilds
<1>2. Dirs(w.tree) \subseteq NodeId
  BY <1>1 DEF Sound, Dirs, TreeOK, Typed
<1>3. n \in NodeId /\ s \in Seq(NodeId)
  BY <1>2, SeqMonotonic
<1> DEFINE v == Turned(w, n, s)
<1>4. v \in Builds /\ v.tree = w.tree /\ v.at = n /\ v.stack = s /\ v.made = w.made
  BY <1>1, <1>3, BuildTurns
<1> HIDE DEF v
<1>5. Sound(v)
  BY <1>1, <1>4 DEF Sound
<1>6. v \in SoundBuilds
  BY <1>4, <1>5 DEF SoundBuilds
<1> QED BY <1>6 DEF v

LEMMA MkdirSegmentSound ==
  ASSUME totalNodes \in Nat, NEW w \in SoundBuilds, NEW seg \in Words
  PROVE  MkdirSegment(w, seg) \in SoundBuilds
<1>1. w \in Builds /\ Sound(w)
  BY DEF SoundBuilds
<1>2. /\ TreeOK(w.tree) /\ w.at \in Dirs(w.tree) /\ w.stack \in Seq(Dirs(w.tree))
      /\ w.at \in DOMAIN w.tree /\ w.tree[w.at].isDir
  BY <1>1 DEF Sound, Dirs
<1>3. Back(w) \in SoundBuilds
  <2>1. CASE w.stack = <<>>
    BY <2>1 DEF Back
  <2>2. CASE w.stack # <<>>
    <3>1. SX!Last(w.stack) \in Dirs(w.tree) /\ SX!Front(w.stack) \in Seq(Dirs(w.tree))
      BY <1>2, <2>2, SequenceEnds
    <3> QED BY <2>2, <3>1, TurnSound DEF Back, Turned
  <2> QED BY <2>1, <2>2
<1>4. [w EXCEPT !.ok = FALSE] \in SoundBuilds
  <2> DEFINE v == [w EXCEPT !.ok = FALSE]
  <2>1. v \in Builds /\ v.tree = w.tree /\ v.at = w.at /\ v.stack = w.stack /\ v.made = w.made
    BY <1>1, BuildFails
  <2> HIDE DEF v
  <2>2. Sound(v)
    BY <1>1, <2>1 DEF Sound
  <2>3. v \in SoundBuilds
    BY <2>1, <2>2 DEF SoundBuilds
  <2> QED BY <2>3 DEF v
<1>5. ASSUME NEW n, seg \in Entries(w.tree, w.at), n = w.tree[w.at].children[seg], w.tree[n].isDir
      PROVE  [w EXCEPT !.at = n, !.stack = Append(w.stack, n)] \in SoundBuilds
  <2>1. n \in Dirs(w.tree)
    BY <1>2, <1>5 DEF TreeOK, Closed, Dirs
  <2>2. Append(w.stack, n) \in Seq(Dirs(w.tree))
    BY <1>2, <2>1
  <2> QED BY <2>1, <2>2, TurnSound DEF Turned
<1>6. ASSUME seg \in Names, seg \notin Entries(w.tree, w.at), "i" \notin w.tree[w.at].attrs,
             ~(totalNodes + w.made >= MaxTotalNodes),
             NEW g, g = Grow(w.tree, w.at, seg, NewDir)
      PROVE  [w EXCEPT !.tree = g, !.at = g[w.at].children[seg],
                       !.stack = Append(w.stack, w.at), !.made = w.made + 1] \in SoundBuilds
  <2>1. /\ w.made \in Nat /\ totalNodes + w.made < MaxTotalNodes
        /\ Cardinality(DOMAIN w.tree) = totalNodes + w.made
        /\ Bytes(w.tree, DOMAIN w.tree) = totalBytes
        /\ Grows(node, w.tree)
    <3>1. w.made \in Nat
      BY <1>1, BuildParts
    <3>2. totalNodes + w.made < MaxTotalNodes
      BY <1>6, <3>1, TreeLimits
    <3> QED BY <1>1, <3>1, <3>2 DEF Sound
  <2>2. PICK id : IsGrown(g, w.tree, w.at, seg, NewDir, id)
    BY <1>2, <1>6, <2>1, GrowIs DEF TreeOK
  <2>3. /\ TreeOK(g)
        /\ Cardinality(DOMAIN g) = Cardinality(DOMAIN w.tree) + 1
        /\ Bytes(g, DOMAIN g) = Bytes(w.tree, DOMAIN w.tree) + 0
    BY <1>2, <1>6, <2>2, NewNodes, GrowOK
  <2>4. Grows(w.tree, g) /\ Grows(node, g)
    BY <1>2, <1>6, <2>1, <2>2, GrowGrows, GrowthAdds
  <2>5. g[w.at].children[seg] = id /\ id \in Dirs(g)
    <3> DEFINE r == w.tree[w.at]
               q == g[w.at]
    <3>1. r \in Nodes /\ q = Entered(r, seg, id) /\ id \in NodeId
      BY <1>2, <2>2 DEF IsGrown, TreeOK, Typed
    <3> HIDE DEF r, q
    <3>2. q.children[seg] = id
      BY <1>6, <3>1, EnteredParts
    <3>3. id \in DOMAIN g /\ g[id] = NewDir
      BY <2>2 DEF IsGrown
    <3> QED BY <3>2, <3>3, NewNodes DEF q, Dirs
  <2>6. Dirs(w.tree) \subseteq Dirs(g)
    BY <2>4 DEF Grows, Dirs
  <2>7. Append(w.stack, w.at) \in Seq(Dirs(g))
    <3>1. Append(w.stack, w.at) \in Seq(Dirs(w.tree))
      BY <1>2
    <3> QED BY <2>6, <3>1, SeqMonotonic
  <2>8. Dirs(g) \subseteq NodeId /\ g \in AnyTree
    BY <2>3, TreesTyped DEF TreeOK, Typed, Dirs
  <2> DEFINE s == Append(w.stack, w.at)
             m == w.made + 1
             v == Added(w, g, id, s, m)
  <2>9. id \in NodeId /\ s \in Seq(NodeId) /\ m \in Nat
    BY <2>1, <2>5, <2>7, <2>8, SeqMonotonic
  <2>10. s \in Seq(Dirs(g)) /\ m = w.made + 1
    BY <2>7
  <2> HIDE DEF s, m
  <2>11. v \in Builds /\ v.tree = g /\ v.at = id /\ v.stack = s /\ v.made = m
    BY <1>1, <2>8, <2>9, BuildAdds
  <2> HIDE DEF v
  <2>12. totalNodes + m <= MaxTotalNodes /\ Cardinality(DOMAIN g) = totalNodes + m
    BY <2>1, <2>3, <2>10, TreeLimits
  <2>13. Bytes(g, DOMAIN g) = totalBytes
    <3>1. Bytes(w.tree, DOMAIN w.tree) \in Nat
      BY <1>2, WeightType DEF TreeOK
    <3> QED BY <2>1, <2>3, <3>1
  <2>14. Sound(v)
    BY <2>3, <2>4, <2>5, <2>10, <2>11, <2>12, <2>13 DEF Sound
  <2>15. v \in SoundBuilds
    BY <2>11, <2>14 DEF SoundBuilds
  <2> QED BY <2>5, <2>15 DEF v, s, m, Added
<1>7. CASE ~w.ok
  BY <1>7 DEF MkdirSegment
<1>8. CASE w.ok /\ seg = ".."
  BY <1>3, <1>8 DEF MkdirSegment
<1>9. CASE w.ok /\ seg # ".." /\ seg \in Entries(w.tree, w.at)
  BY <1>4, <1>5, <1>9 DEF MkdirSegment
<1>10. CASE w.ok /\ seg # ".." /\ seg \notin Entries(w.tree, w.at)
  <2>1. seg \in Names
    BY <1>10 DEF Words
  <2> QED BY <1>4, <1>6, <1>10, <2>1 DEF MkdirSegment
<1> QED BY <1>7, <1>8, <1>9, <1>10

LEMMA MkdirWalkSound ==
  ASSUME TreeOK(node), CountsExact, NEW path \in Seq(Words)
  PROVE  MkdirWalk(path) \in SoundBuilds
<1> DEFINE N == Len(path)
           x == [tree |-> node, at |-> Root, stack |-> <<>>, made |-> 0, ok |-> TRUE]
           F(f) == [i \in 0..N |-> IF i = 0 THEN x ELSE MkdirSegment(f[i - 1], path[i])]
           step == [p \in SoundBuilds \X Nat |->
                      IF p[2] \in 1..N THEN MkdirSegment(p[1], path[p[2]]) ELSE p[1]]
<1>1. N \in Nat /\ \A i \in 1..N : path[i] \in Words
  BY ElementOfSeq, LenProperties
<1>2. x \in SoundBuilds /\ totalNodes \in Nat
  <2>1. Typed(node) /\ node \in AnyTree
    BY TreesTyped DEF TreeOK
  <2>2. <<>> \in Seq(NodeId) /\ <<>> \in Seq(Dirs(node))
    BY EmptySeq
  <2>3. x \in Builds
    BY <2>1, <2>2, TreeLimits DEF Builds
  <2>4. x.tree = node /\ x.at = Root /\ x.stack = <<>> /\ x.made = 0
    OBVIOUS
  <2>5. totalNodes \in Nat
    BY <2>1, FiniteTree DEF CountsExact
  <2> HIDE DEF x
  <2>6. Grows(node, node) /\ Root \in Dirs(node)
    BY DEF Grows, TreeOK, Dirs
  <2>7. totalNodes + 0 = totalNodes
    BY <2>5
  <2>8. Sound(x)
    BY <2>2, <2>4, <2>6, <2>7 DEF Sound, CountsExact
  <2> QED BY <2>3, <2>5, <2>8 DEF SoundBuilds
<1>3. ASSUME NEW w \in SoundBuilds, NEW i \in 1..N PROVE MkdirSegment(w, path[i]) \in SoundBuilds
  BY <1>1, <1>2, <1>3, MkdirSegmentSound
<1>4. step \in Steps(SoundBuilds)
  BY <1>3 DEF Steps
<1>5. \A w \in SoundBuilds, i \in 1..N : step[<<w, i>>] = MkdirSegment(w, path[i])
  BY <1>1
<1> HIDE DEF step, x
<1>6. PICK f : Loop(f, N, SoundBuilds, x, step)
  BY <1>1, <1>2, <1>4, LoopExists
<1>7. \A i \in 1..N : f[i] = MkdirSegment(f[i - 1], path[i])
  <2> TAKE i \in 1..N
  <2>1. f[i - 1] \in SoundBuilds
    BY <1>1, <1>6 DEF Loop
  <2> QED BY <1>5, <1>6, <2>1 DEF Loop
<1>8. f = F(f)
  <2>1. \A i \in 0..N : f[i] = F(f)[i]
    <3> TAKE i \in 0..N
    <3>1. i = 0 \/ i \in 1..N
      BY <1>1
    <3> QED BY <1>6, <1>7, <3>1 DEF Loop
  <2>2. f = [i \in 0..N |-> f[i]]
    BY <1>6 DEF Loop
  <2> DEFINE h == F(f)
  <2>3. h = [i \in 0..N |-> h[i]]
    OBVIOUS
  <2>4. \A i \in 0..N : f[i] = h[i]
    BY <2>1
  <2> HIDE DEF h
  <2>5. f = h
    BY <2>2, <2>3, <2>4
  <2> QED BY <2>5 DEF h
<1> DEFINE t == CHOOSE g : g = F(g)
<1>9. t = F(t)
  BY <1>8
<1>10. MkdirWalk(path) = t[N]
  BY DEF MkdirWalk, x
<1> HIDE DEF t
<1>11. t[0] = x /\ \A i \in 1..N : t[i] = MkdirSegment(t[i - 1], path[i])
  BY <1>1, <1>9
<1>12. t[N] \in SoundBuilds
  <2>1. \A i \in 1..N : t[i - 1] \in SoundBuilds => t[i] \in SoundBuilds
    BY <1>3, <1>11
  <2>2. t[0] \in SoundBuilds
    BY <1>2, <1>11
  <2> HIDE DEF N
  <2>3. \A i \in 0..N : t[i] \in SoundBuilds
    BY <1>1, <2>1, <2>2, LoopStays
  <2> QED BY <1>1, <2>3
<1> QED BY <1>10, <1>12


------------------------------------------------------------------------------
(***************************************************************************)
(* The invariant, and what each operation does to it and to attributes.    *)
(***************************************************************************)
VfsInv == TreeOK(node) /\ CountsExact

LEMMA InvParts ==
  ASSUME VfsInv
  PROVE  /\ TreeOK(node) /\ Typed(node) /\ \A n \in DOMAIN node : node[n] \in Nodes
         /\ totalNodes = Cardinality(DOMAIN node) /\ totalNodes \in Nat
         /\ totalBytes = Bytes(node, DOMAIN node) /\ totalBytes \in Nat
         /\ totalNodes <= MaxTotalNodes /\ totalBytes <= MaxTotalBytes
<1>1. Typed(node) /\ \A n \in DOMAIN node : node[n] \in Nodes
  BY DEF VfsInv, TreeOK, Typed
<1> QED BY <1>1, FiniteTree, WeightType DEF VfsInv, CountsExact

LEMMA VfsInitInv ==
  ASSUME VfsInit
  PROVE  VfsInv
<1>1. DOMAIN node = {Root} /\ node[Root] = NewDir /\ node = [n \in DOMAIN node |-> node[n]]
  BY DEF VfsInit
<1>2. Typed(node)
  <2>1. Root \in NodeId
    BY TreeLimits
  <2> QED BY <1>1, <2>1, NewNodes DEF Typed
<1>3. TreeOK(node)
  BY <1>1, <1>2, NewNodes DEF TreeOK, Closed, Unique, Rootless, Entries
<1>4. totalNodes = Cardinality(DOMAIN node) /\ totalNodes <= MaxTotalNodes
  <2>1. Cardinality({Root}) = 1
    BY FS_Singleton
  <2> QED BY <1>1, <2>1, TreeLimits DEF VfsInit
<1>5. totalBytes = Bytes(node, DOMAIN node) /\ totalBytes <= MaxTotalBytes
  <2> DEFINE a == Weight(node, DOMAIN node)
             z == Single(Root, 0)
  <2>1. a \in Weights /\ Bytes(node, DOMAIN node) = Total(a)
        /\ \A n \in NodeId : a[n] = IF n \in DOMAIN node THEN node[n].size ELSE 0
    BY <1>2, WeightType
  <2>2. z \in Weights /\ Total(z) = 0
    BY TotalSingle, TreeLimits
  <2>3. \A n \in NodeId : z[n] = 0
    BY DEF Single
  <2> HIDE DEF a, z
  <2>4. \A n \in NodeId : a[n] = 0
    BY <1>1, <2>1, NewNodes
  <2>5. a = z
    BY <2>1, <2>2, <2>3, <2>4 DEF Weights
  <2> QED BY <2>1, <2>2, <2>5, VfsAssumption DEF VfsInit
<1> QED BY <1>3, <1>4, <1>5 DEF VfsInv, CountsExact

LEMMA GrowthRespects ==
  ASSUME NEW a, Typed(a), NEW b, Grows(a, b)
  PROVE  Respects(a, b)
<1>1. \A n \in DOMAIN a : a[n].size \in Nat
  BY NodeParts DEF Typed
<1> QED BY <1>1 DEF Grows, Respects

\* A change of one node that respects its attributes.
LEMMA EditRespects ==
  ASSUME NEW tree, Typed(tree), NEW k \in DOMAIN tree, NEW r \in Nodes,
         r.children = tree[k].children,
         "i" \in tree[k].attrs /\ "i" \in r.attrs =>
           r.size = tree[k].size /\ (~tree[k].isDir => r.writable = tree[k].writable),
         "a" \in tree[k].attrs /\ "a" \in r.attrs => r.size >= tree[k].size,
         NEW g, DOMAIN g = DOMAIN tree, g[k] = r, \A n \in DOMAIN tree \ {k} : g[n] = tree[n]
  PROVE  Respects(tree, g)
<1>1. \A n \in DOMAIN tree : tree[n].size \in Nat
  BY NodeParts DEF Typed
<1> SUFFICES ASSUME NEW n \in DOMAIN tree
             PROVE  /\ n \in DOMAIN g
                    /\ ("i" \in tree[n].attrs /\ "i" \in g[n].attrs) =>
                         /\ g[n].size = tree[n].size
                         /\ g[n].children = tree[n].children
                         /\ ~tree[n].isDir => g[n].writable = tree[n].writable
                    /\ \A x \in Entries(tree, n) :
                         x \in Entries(g, n) /\ g[n].children[x] = tree[n].children[x]
                    /\ ("a" \in tree[n].attrs /\ "a" \in g[n].attrs) => g[n].size >= tree[n].size
  BY DEF Respects
<1>2. CASE n = k
  BY <1>2 DEF Entries
<1>3. CASE n # k
  <2>1. g[n] = tree[n]
    BY <1>3
  <2> QED BY <1>1, <2>1 DEF Entries
<1> QED BY <1>2, <1>3

LEMMA CreateFileKeeps ==
  ASSUME VfsInv, NEW path \in Paths, NEW len \in Lengths, CreateFile(path, len)
  PROVE  VfsInv' /\ Respects(node, node')
<1> DEFINE p == Parent(path)
           x == SX!Last(path)
           kept == IF Fits(0, len) THEN len ELSE 0
<1>1. /\ p \in DOMAIN node /\ node[p].isDir /\ x \in Names /\ x \notin Entries(node, p)
      /\ "i" \notin node[p].attrs
  BY InvParts, LocatedParts DEF CreateFile, Exists, Immutable
<1>2. /\ node' = Grow(node, p, x, NewFile(kept)) /\ totalBytes' = totalBytes + kept
      /\ totalNodes' = totalNodes + 1 /\ totalNodes < MaxTotalNodes
  BY DEF CreateFile
<1>3. kept \in 0..MaxFileSize /\ totalBytes + kept <= MaxTotalBytes
  <2>1. len \in Nat
    BY VfsAssumption
  <2> QED BY <2>1, InvParts, TreeLimits, VfsAssumption DEF Fits
<1> HIDE DEF p, x, kept
<1>4. PICK id : IsGrown(node', node, p, x, NewFile(kept), id)
  BY <1>1, <1>2, InvParts, GrowIs
<1>5. /\ TreeOK(node')
      /\ Cardinality(DOMAIN node') = totalNodes + 1
      /\ Bytes(node', DOMAIN node') = totalBytes + kept
  BY <1>1, <1>3, <1>4, InvParts, NewNodes, GrowOK
<1>6. Respects(node, node')
  BY <1>1, <1>4, InvParts, GrowGrows, GrowthRespects
<1>7. totalNodes' <= MaxTotalNodes
  BY <1>2, InvParts, TreeLimits
<1> QED BY <1>2, <1>3, <1>5, <1>6, <1>7 DEF VfsInv, CountsExact

LEMMA CopyKeeps ==
  ASSUME VfsInv, NEW src \in Paths, NEW dst \in Paths, Copy(src, dst)
  PROVE  VfsInv' /\ Respects(node, node')
<1> DEFINE p == Parent(dst)
           x == SX!Last(dst)
           copied == node[Resolve(src)]
           new == [copied EXCEPT !.attrs = {}]
<1>1. /\ p \in DOMAIN node /\ node[p].isDir /\ x \in Names /\ x \notin Entries(node, p)
      /\ "i" \notin node[p].attrs
  BY InvParts, LocatedParts DEF Copy, Exists, Immutable
<1>2. /\ node' = Grow(node, p, x, new) /\ totalBytes' = totalBytes + copied.size
      /\ totalNodes' = totalNodes + 1 /\ totalNodes < MaxTotalNodes
      /\ totalBytes + copied.size <= MaxTotalBytes
  BY DEF Copy
<1>3. /\ copied \in Nodes /\ DOMAIN copied.children = {}
  BY InvParts, Resolved DEF Copy, TreeOK, Entries
<1> HIDE DEF p, x, copied
<1>4. new \in Nodes /\ new.children = copied.children /\ new.size = copied.size
  BY <1>3, NodeEdits
<1> HIDE DEF new
<1>5. PICK id : IsGrown(node', node, p, x, new, id)
  BY <1>1, <1>2, InvParts, GrowIs
<1>6. /\ TreeOK(node')
      /\ Cardinality(DOMAIN node') = totalNodes + 1
      /\ Bytes(node', DOMAIN node') = totalBytes + copied.size
  BY <1>1, <1>3, <1>4, <1>5, InvParts, GrowOK
<1>7. Respects(node, node')
  BY <1>1, <1>5, InvParts, GrowGrows, GrowthRespects
<1>8. totalNodes' <= MaxTotalNodes
  BY <1>2, InvParts, TreeLimits
<1> QED BY <1>2, <1>6, <1>7, <1>8 DEF VfsInv, CountsExact

\* One node is changed: what the three operations that do that have in common.
LEMMA EditKeeps ==
  ASSUME VfsInv, NEW k \in DOMAIN node, NEW r \in Nodes,
         r.isDir = node[k].isDir, r.children = node[k].children,
         "i" \in node[k].attrs /\ "i" \in r.attrs =>
           r.size = node[k].size /\ (~node[k].isDir => r.writable = node[k].writable),
         "a" \in node[k].attrs /\ "a" \in r.attrs => r.size >= node[k].size,
         node' = Edited(node, k, r), totalNodes' = totalNodes,
         totalBytes' = totalBytes + r.size - node[k].size, totalBytes' <= MaxTotalBytes
  PROVE  VfsInv' /\ Respects(node, node')
<1>1. /\ TreeOK(node') /\ DOMAIN node' = DOMAIN node
      /\ node'[k] = r /\ \A n \in DOMAIN node \ {k} : node'[n] = node[n]
      /\ Bytes(node', DOMAIN node') + node[k].size = totalBytes + r.size
  BY InvParts, EditOK
<1>2. Respects(node, node')
  BY <1>1, InvParts, EditRespects
<1>3. Bytes(node', DOMAIN node') = totalBytes'
  <2>1. r.size \in Nat /\ node[k].size \in Nat /\ totalBytes \in Nat
    BY InvParts, NodeParts
  <2>2. Bytes(node', DOMAIN node') \in Nat
    BY <1>1, WeightType DEF TreeOK
  <2> QED BY <1>1, <2>1, <2>2
<1> QED BY <1>1, <1>2, <1>3, InvParts DEF VfsInv, CountsExact

LEMMA OverwriteKeeps ==
  ASSUME VfsInv, NEW path \in Paths, NEW len \in Lengths, NEW appending \in BOOLEAN,
         Overwrite(path, len, appending)
  PROVE  VfsInv' /\ Respects(node, node')
<1> DEFINE k == Target(path)
           new == len + (IF appending THEN node[k].size ELSE 0)
           r == [node[k] EXCEPT !.size = new]
<1>1. k \in DOMAIN node /\ node[k] \in Nodes /\ len \in Nat /\ node[k].size \in Nat
  BY InvParts, LocatedParts, NodeParts, VfsAssumption DEF Overwrite
<1>2. /\ "i" \notin node[k].attrs /\ ("a" \in node[k].attrs => appending)
      /\ Fits(node[k].size, new)
      /\ node' = Edited(node, k, r)
      /\ totalBytes' = totalBytes + new - node[k].size /\ totalNodes' = totalNodes
  BY DEF Overwrite, Immutable, Edited
<1>3. /\ new \in 0..MaxFileSize /\ ("a" \in node[k].attrs => new >= node[k].size)
      /\ totalBytes + new - node[k].size <= MaxTotalBytes
  BY <1>1, <1>2, InvParts, VfsAssumption DEF Fits
<1> HIDE DEF new
<1>4. /\ r \in Nodes /\ r.size = new /\ r.isDir = node[k].isDir
      /\ r.children = node[k].children /\ r.attrs = node[k].attrs
  BY <1>1, <1>3, NodeEdits
<1> HIDE DEF k, r
<1> QED BY <1>1, <1>2, <1>3, <1>4, EditKeeps

LEMMA ChmodKeeps ==
  ASSUME VfsInv, NEW path \in Paths, NEW writable \in BOOLEAN, Chmod(path, writable)
  PROVE  VfsInv' /\ Respects(node, node')
<1> DEFINE k == Resolve(path)
           r == [node[k] EXCEPT !.writable = writable]
<1>1. k \in DOMAIN node /\ node[k] \in Nodes /\ node[k].size \in Nat
  BY InvParts, Resolved, NodeParts
<1>2. /\ "i" \notin node[k].attrs /\ node' = Edited(node, k, r)
      /\ totalBytes' = totalBytes /\ totalNodes' = totalNodes
  BY DEF Chmod, Immutable, Edited
<1>3. /\ r \in Nodes /\ r.size = node[k].size /\ r.isDir = node[k].isDir
      /\ r.children = node[k].children /\ r.attrs = node[k].attrs
  BY <1>1, NodeEdits
<1>4. totalBytes' = totalBytes + r.size - node[k].size /\ totalBytes' <= MaxTotalBytes
  BY <1>1, <1>2, <1>3, InvParts
<1> HIDE DEF k, r
<1>5. /\ "i" \in node[k].attrs /\ "i" \in r.attrs =>
           r.size = node[k].size /\ (~node[k].isDir => r.writable = node[k].writable)
      /\ "a" \in node[k].attrs /\ "a" \in r.attrs => r.size >= node[k].size
  BY <1>1, <1>2, <1>3
<1>6. r \in Nodes /\ r.isDir = node[k].isDir /\ r.children = node[k].children
  BY <1>3
<1>7. node' = Edited(node, k, r) /\ totalNodes' = totalNodes
  BY <1>2
<1> QED BY <1>1, <1>4, <1>5, <1>6, <1>7, EditKeeps

LEMMA SetAttrsKeeps ==
  ASSUME VfsInv, NEW path \in Paths, NEW attrs \in SUBSET Attrs, SetAttrs(path, attrs)
  PROVE  VfsInv' /\ Respects(node, node')
<1> DEFINE k == Resolve(path)
           r == [node[k] EXCEPT !.attrs = attrs]
<1>1. k \in DOMAIN node /\ node[k] \in Nodes /\ node[k].size \in Nat
  BY InvParts, Resolved, NodeParts
<1>2. /\ node' = Edited(node, k, r)
      /\ totalBytes' = totalBytes /\ totalNodes' = totalNodes
  BY DEF SetAttrs, Edited
<1>3. /\ r \in Nodes /\ r.size = node[k].size /\ r.isDir = node[k].isDir
      /\ r.children = node[k].children /\ r.writable = node[k].writable
  BY <1>1, NodeEdits
<1>4. totalBytes' = totalBytes + r.size - node[k].size /\ totalBytes' <= MaxTotalBytes
  BY <1>1, <1>2, <1>3, InvParts
<1> HIDE DEF k, r
<1>5. /\ "i" \in node[k].attrs /\ "i" \in r.attrs =>
           r.size = node[k].size /\ (~node[k].isDir => r.writable = node[k].writable)
      /\ "a" \in node[k].attrs /\ "a" \in r.attrs => r.size >= node[k].size
  BY <1>1, <1>2, <1>3
<1>6. r \in Nodes /\ r.isDir = node[k].isDir /\ r.children = node[k].children
  BY <1>3
<1>7. node' = Edited(node, k, r) /\ totalNodes' = totalNodes
  BY <1>2
<1> QED BY <1>1, <1>4, <1>5, <1>6, <1>7, EditKeeps

LEMMA MkdirKeeps ==
  ASSUME VfsInv, NEW path \in Paths, Mkdir(path)
  PROVE  VfsInv' /\ Respects(node, node')
<1> DEFINE w == MkdirWalk(path)
           t == w.tree
           k == w.at
           r == [t[k] EXCEPT !.writable = TRUE]
<1>1. w \in Builds /\ Sound(w)
  BY PathParts, MkdirWalkSound DEF VfsInv, SoundBuilds
<1>2. /\ node' = IF w.ok THEN Edited(t, k, r) ELSE t
      /\ totalNodes' = totalNodes + w.made /\ totalBytes' = totalBytes
  BY DEF Mkdir, Edited
<1> HIDE DEF w
<1>3. /\ TreeOK(t) /\ Typed(t) /\ Grows(node, t) /\ k \in DOMAIN t /\ t[k].isDir
      /\ totalNodes' <= MaxTotalNodes /\ Cardinality(DOMAIN t) = totalNodes'
      /\ Bytes(t, DOMAIN t) = totalBytes
  BY <1>1, <1>2 DEF Sound, Dirs, TreeOK
<1> HIDE DEF t, k
<1>4. t[k] \in Nodes /\ t[k].size \in Nat
  BY <1>3, NodeParts DEF Typed
<1>5. /\ r \in Nodes /\ r.size = t[k].size /\ r.isDir = t[k].isDir
      /\ r.children = t[k].children /\ r.attrs = t[k].attrs
  BY <1>4, NodeEdits
<1> HIDE DEF r
<1>6. CASE ~w.ok
  <2>1. node' = t
    BY <1>2, <1>6
  <2>2. Respects(node, node')
    BY <1>3, <2>1, InvParts, GrowthRespects
  <2> QED BY <1>2, <1>3, <2>1, <2>2, InvParts DEF VfsInv, CountsExact
<1>7. CASE w.ok
  <2>1. node' = Edited(t, k, r)
    BY <1>2, <1>7
  <2>2. /\ TreeOK(node') /\ DOMAIN node' = DOMAIN t
        /\ node'[k] = r /\ \A n \in DOMAIN t \ {k} : node'[n] = t[n]
        /\ Bytes(node', DOMAIN node') + t[k].size = totalBytes + t[k].size
    <3>1. r \in Nodes /\ r.isDir = t[k].isDir /\ r.children = t[k].children
      BY <1>5
    <3>2. TreeOK(t) /\ k \in DOMAIN t
      BY <1>3
    <3>3. /\ TreeOK(node') /\ DOMAIN node' = DOMAIN t
          /\ node'[k] = r /\ \A n \in DOMAIN t \ {k} : node'[n] = t[n]
          /\ Bytes(node', DOMAIN node') + t[k].size = Bytes(t, DOMAIN t) + r.size
      BY <2>1, <3>1, <3>2, EditOK
    <3> QED BY <1>3, <1>5, <3>3
  <2>3. Bytes(node', DOMAIN node') = totalBytes
    <3>1. Bytes(node', DOMAIN node') \in Nat
      BY <2>2, WeightType DEF TreeOK
    <3> QED BY <1>4, <2>2, <3>1, InvParts
  <2>4. Grows(t, node')
    <3> SUFFICES ASSUME NEW n \in DOMAIN t
                 PROVE  /\ node'[n].isDir = t[n].isDir /\ node'[n].size = t[n].size
                        /\ ~t[n].isDir => node'[n].writable = t[n].writable
                        /\ node'[n].attrs = t[n].attrs
                        /\ node'[n].children = t[n].children
      BY <2>2 DEF Grows, Entries
    <3>1. CASE n = k
      BY <1>3, <1>5, <2>2, <3>1
    <3>2. CASE n # k
      BY <2>2, <3>2
    <3> QED BY <3>1, <3>2
  <2>5. Respects(node, node')
    BY <1>3, <2>4, InvParts, GrowthAdds, GrowthRespects
  <2> QED BY <1>2, <1>3, <2>2, <2>3, <2>5, InvParts DEF VfsInv, CountsExact
<1> QED BY <1>6, <1>7

LEMMA DetachKeeps ==
  ASSUME VfsInv, NEW path \in Paths, Located(path), Exists(path), ~Protected(Parent(path)),
         \A n \in Below(node, Target(path)) : ~Protected(n), Detach(path)
  PROVE  VfsInv' /\ Respects(node, node')
<1> DEFINE p == Parent(path)
           x == SX!Last(path)
           gone == Below(node, node[p].children[x])
<1>1. p \in DOMAIN node /\ x \in Entries(node, p)
  BY InvParts, LocatedParts
<1>2. gone = Below(node, Target(path))
  BY DEF Target
<1>3. /\ IsPruned(node', node, p, x, gone)
      /\ totalNodes' = totalNodes - Cardinality(gone)
      /\ totalBytes' = totalBytes - Bytes(node, gone)
  BY <1>2 DEF Detach, IsPruned, Left
<1>4. node[p].attrs = {} /\ \A n \in gone : node[n].attrs = {}
  BY <1>2 DEF Protected
<1>5. gone \subseteq DOMAIN node
  BY DEF Below
<1> HIDE DEF p, x
<1>6. /\ TreeOK(node')
      /\ Cardinality(gone) \in Nat
      /\ totalNodes = Cardinality(DOMAIN node') + Cardinality(gone)
      /\ totalBytes = Bytes(node', DOMAIN node') + Bytes(node, gone)
  <2> HIDE DEF gone
  <2>1. gone = Below(node, node[p].children[x])
    BY DEF gone
  <2> QED BY <1>1, <1>3, <2>1, InvParts, PruneOK
<1> HIDE DEF gone
<1>7. /\ totalNodes' = Cardinality(DOMAIN node') /\ totalNodes' <= MaxTotalNodes
  <2>1. Cardinality(DOMAIN node') \in Nat
    BY <1>6, FiniteTree DEF TreeOK
  <2> QED BY <1>3, <1>6, <2>1, InvParts, TreeLimits
<1>8. /\ totalBytes' = Bytes(node', DOMAIN node') /\ totalBytes' <= MaxTotalBytes
  <2>1. Bytes(node', DOMAIN node') \in Nat /\ Bytes(node, gone) \in Nat
    BY <1>5, <1>6, InvParts, WeightType DEF TreeOK
  <2> QED BY <1>3, <1>6, <2>1, InvParts, VfsAssumption
<1>9. Respects(node, node')
  <2> SUFFICES ASSUME NEW n \in DOMAIN node, node[n].attrs # {}
               PROVE  n \in DOMAIN node' /\ node'[n] = node[n] /\ node[n].size \in Nat
    BY DEF Respects, Entries
  <2>1. n \notin gone /\ n # p
    BY <1>4
  <2> QED BY <1>3, <2>1, InvParts, NodeParts DEF IsPruned
<1> QED BY <1>6, <1>7, <1>8, <1>9 DEF VfsInv, CountsExact

LEMMA RemoveKeeps ==
  ASSUME VfsInv, NEW path \in Paths, Remove(path)
  PROVE  VfsInv' /\ Respects(node, node')
<1>1. Target(path) \in DOMAIN node
  BY InvParts, LocatedParts DEF Remove
<1>2. Below(node, Target(path)) \subseteq {Target(path)}
  <2>1. Closed(node, {Target(path)})
    BY DEF Remove, Closed
  <2>2. Closed(node, DOMAIN node)
    BY InvParts DEF TreeOK
  <2> QED BY <1>1, <2>1, <2>2, BelowLeast
<1>3. \A n \in Below(node, Target(path)) : ~Protected(n)
  BY <1>2 DEF Remove
<1> QED BY <1>3, DetachKeeps DEF Remove

LEMMA RenameKeeps ==
  ASSUME VfsInv, NEW old \in Paths, NEW new \in Paths, Rename(old, new)
  PROVE  VfsInv' /\ Respects(node, node')
<1> DEFINE p == Parent(old)
           a == SX!Last(old)
           q == Parent(new)
           b == SX!Last(new)
<1>1. p \in DOMAIN node /\ a \in Entries(node, p)
  BY InvParts, LocatedParts DEF Rename
<1>2. q \in DOMAIN node /\ node[q].isDir /\ b \in Names /\ b \notin Entries(node, q)
  BY InvParts, LocatedParts DEF Rename, Exists
<1>3. node[p].attrs = {} /\ "i" \notin node[q].attrs
  BY DEF Rename, Protected, Immutable
<1>4. IsMoved(node', node, p, a, q, b)
  BY DEF Rename, IsMoved, Left, Entered, Target
<1>5. totalNodes' = totalNodes /\ totalBytes' = totalBytes
  BY DEF Rename
<1> HIDE DEF p, a, q, b
<1>6. /\ TreeOK(node') /\ DOMAIN node' = DOMAIN node
      /\ Bytes(node', DOMAIN node') = Bytes(node, DOMAIN node)
      /\ \A n \in DOMAIN node : /\ n \notin {p, q} => node'[n] = node[n]
                                /\ node'[n].isDir = node[n].isDir /\ node'[n].size = node[n].size
                                /\ node'[n].writable = node[n].writable
                                /\ node'[n].attrs = node[n].attrs
                                /\ n # p => \A x \in Entries(node, n) :
                                     x \in Entries(node', n)
                                       /\ node'[n].children[x] = node[n].children[x]
  BY <1>1, <1>2, <1>4, InvParts, MoveOK
<1>7. Respects(node, node')
  <2> SUFFICES ASSUME NEW n \in DOMAIN node, node[n].attrs # {}
               PROVE  /\ n \in DOMAIN node'
                      /\ "i" \in node[n].attrs => node'[n] = node[n]
                      /\ node'[n].size = node[n].size /\ node[n].size \in Nat
                      /\ \A x \in Entries(node, n) :
                           x \in Entries(node', n) /\ node'[n].children[x] = node[n].children[x]
    BY DEF Respects
  <2>1. n # p
    BY <1>3
  <2>2. "i" \in node[n].attrs => n \notin {p, q}
    BY <1>3
  <2> QED BY <1>6, <2>1, <2>2, InvParts, NodeParts
<1> QED BY <1>5, <1>6, <1>7, InvParts DEF VfsInv, CountsExact

LEMMA VfsStep ==
  ASSUME VfsInv, VfsNext
  PROVE  VfsInv' /\ Respects(node, node')
<1> PICK path \in Paths :
      \/ \E len \in Lengths : CreateFile(path, len)
      \/ \E len \in Lengths, appending \in BOOLEAN : Overwrite(path, len, appending)
      \/ Mkdir(path)
      \/ \E writable \in BOOLEAN : Chmod(path, writable)
      \/ Remove(path)
      \/ RemoveAll(path)
      \/ \E new \in Paths : Rename(path, new) \/ Copy(path, new)
      \/ \E attrs \in SUBSET Attrs : SetAttrs(path, attrs)
  BY DEF VfsNext
<1>1. CASE \E len \in Lengths : CreateFile(path, len)
  BY <1>1, CreateFileKeeps
<1>2. CASE \E len \in Lengths, appending \in BOOLEAN : Overwrite(path, len, appending)
  BY <1>2, OverwriteKeeps
<1>3. CASE Mkdir(path)
  BY <1>3, MkdirKeeps
<1>4. CASE \E writable \in BOOLEAN : Chmod(path, writable)
  BY <1>4, ChmodKeeps
<1>5. CASE Remove(path)
  BY <1>5, RemoveKeeps
<1>6. CASE RemoveAll(path)
  BY <1>6, DetachKeeps DEF RemoveAll
<1>7. CASE \E new \in Paths : Rename(path, new)
  BY <1>7, RenameKeeps
<1>8. CASE \E new \in Paths : Copy(path, new)
  BY <1>8, CopyKeeps
<1>9. CASE \E attrs \in SUBSET Attrs : SetAttrs(path, attrs)
  BY <1>9, SetAttrsKeeps
<1> QED BY <1>1, <1>2, <1>3, <1>4, <1>5, <1>6, <1>7, <1>8, <1>9

LEMMA VfsKeeps ==
  ASSUME VfsInv, [VfsNext]_vfsVars
  PROVE  VfsInv'
<1>1. CASE VfsNext
  BY <1>1, VfsStep
<1>2. CASE UNCHANGED vfsVars
  BY <1>2 DEF vfsVars, VfsInv, CountsExact
<1> QED BY <1>1, <1>2

\* The file system is a tree that the budgets know: after any operations, for any limits and
\* names, totalNodes and totalBytes are the number of nodes that exist and the sum of their
\* sizes, they are within their maxima, no entry leads to the root and no two to one node.
THEOREM TreeStaysCounted == VfsSpec => []TreeCounted
<1>1. VfsInit => VfsInv
  BY VfsInitInv
<1>2. VfsInv /\ [VfsNext]_vfsVars => VfsInv'
  BY VfsKeeps
<1>3. VfsInv => TreeCounted
  <2> SUFFICES ASSUME VfsInv PROVE TreeShape
    BY DEF VfsInv, TreeCounted
  <2>1. Reachable \subseteq DOMAIN node
    BY DEF Reachable, Below
  <2> QED BY <2>1, InvParts DEF TreeShape, TreeOK, Unique, Rootless
<1> QED BY <1>1, <1>2, <1>3, PTL DEF VfsSpec

\* The types of the variables: every entry of a directory leads to a node that exists, files
\* have no entries, and the counters are in their ranges.
THEOREM VfsTypes == VfsSpec => []VfsTypeOK
<1>1. VfsInit => VfsInv
  BY VfsInitInv
<1>2. VfsInv /\ [VfsNext]_vfsVars => VfsInv'
  BY VfsKeeps
<1>3. VfsInv => VfsTypeOK
  <2> SUFFICES ASSUME VfsInv PROVE VfsTypeOK
    OBVIOUS
  <2>1. totalNodes # 0
    <3>1. IsFiniteSet(DOMAIN node) /\ DOMAIN node # {}
      BY InvParts, FiniteTree DEF TreeOK
    <3> QED BY <3>1, InvParts, FS_EmptySet
  <2>2. totalNodes \in 1..MaxTotalNodes /\ totalBytes \in 0..MaxTotalBytes
    BY <2>1, InvParts, TreeLimits, VfsAssumption
  <2> QED BY <2>2, InvParts DEF VfsTypeOK, TreeOK, Typed
<1> QED BY <1>1, <1>2, <1>3, PTL DEF VfsSpec

\* chattr means what it says: in any step of any behaviour a node with i is neither changed
\* nor moved, a node with i or a is not removed and loses no entry, and a file with a does
\* not get shorter, unless the step is the one that takes the attribute away.
THEOREM AttributesAreKept == VfsSpec => AttributesHold
<1>1. VfsInit => VfsInv
  BY VfsInitInv
<1>2. VfsInv /\ [VfsNext]_vfsVars => VfsInv'
  BY VfsKeeps
<1>3. VfsInv /\ [VfsNext]_vfsVars => [Respects(node, node')]_vfsVars
  BY VfsStep
<1> QED BY <1>1, <1>2, <1>3, PTL DEF VfsSpec, AttributesHold
=============================================================================
