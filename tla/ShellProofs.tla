----------------------------- MODULE ShellProofs -----------------------------
(***************************************************************************)
(* Proofs about what sessions do to the machine they share: the lines that *)
(* module Shell runs, and in the last part the account commands, of which  *)
(* module Accounts has the steps.                                          *)
(*                                                                         *)
(* Of the interpreter: that no line changes a locked file, that the        *)
(* history is the end of what was typed, that nesting stays bounded and    *)
(* that a session is another user only inside sudo, for any number of      *)
(* sessions, any lines, any files and any limits.  All four follow from    *)
(* one invariant, ShellInv: in every session, the stack of calls that have *)
(* not returned fits the context the session runs in (StackFits).  Every   *)
(* method is shown to leave such a machine whatever it is called with;     *)
(* those that push no frames are the first part, those that do the second. *)
(***************************************************************************)
EXTENDS Accounts, Shell, Integers, FiniteSetTheorems, SequenceTheorems,
        WellFoundedInduction, TLAPS

---------------------------------------------------------------------------
(* Machines. *)

IsContext(c) == c = [user |-> c.user, depth |-> c.depth, last |-> c.last]
MachineFields ==
  {"user", "cwd", "last", "snap", "history", "ctx", "code", "out", "args", "ok", "events", "steps",
   "todo", "file"}
IsMachine(m) == m = [f \in MachineFields |-> m[f]]

---------------------------------------------------------------------------
(* Stacks of calls. *)

IsList(t) == t \in Seq(Range(t))

\* The nestings that have not returned, below the frame at i.
Leaving == {"leave", "return"}
Beneath(t, i) == Cardinality({j \in DOMAIN t : j > i /\ t[j].do \in Leaving})
Sudos(t, i) == \E j \in DOMAIN t : j > i /\ t[j].do = "sudoRan"
Answers == {"addHistory", "close"}

\* A frame that goes back to a context restores the depth of what is below it,
\* and a foreign user only above a sudo; a sudo waits below such a frame; what
\* answers the client is at the bottom.
FrameFits(u, t, i) ==
  /\ t[i].do = "return" =>
       /\ IsContext(t[i].with)
       /\ t[i].with.depth = Beneath(t, i)
       /\ t[i].with.user # u => Sudos(t, i + 1)
  /\ t[i].do = "sudoRan" /\ i > 1 => t[i - 1].do = "return"
  /\ t[i].do \in Answers <=> i = Len(t)
  /\ t[i].do = "addHistory" => t[i].with.line \in DOMAIN Tree

StackFits(u, c, t) ==
  /\ IsList(t) /\ IsContext(c)
  /\ c.depth = Beneath(t, 0) /\ c.depth <= MaxDepth
  /\ c.user # u => Sudos(t, 1)
  /\ \A i \in DOMAIN t : FrameFits(u, t, i)

\* No sudo is about to go on.
Steady(t) == t # <<>> /\ t[1].do # "sudoRan"

\* What is a sequence of something is a list.
LEMMA SeqIsList ==
  ASSUME NEW S, NEW l \in Seq(S)
  PROVE  IsList(l)
<1>1. Len(l) \in Nat /\ l \in [1 .. Len(l) -> S] /\ DOMAIN l = 1 .. Len(l)
  BY LenProperties
<1>2. l \in [1 .. Len(l) -> Range(l)]
  BY <1>1 DEF Range
<1>3. l \in UNION {[1 .. n -> Range(l)] : n \in Nat}
  BY <1>1, <1>2
<1> QED BY <1>3, SeqDef, Zenon DEF IsList

LEMMA ListFacts ==
  ASSUME NEW l, IsList(l)
  PROVE  /\ Len(l) \in Nat /\ DOMAIN l = 1 .. Len(l) /\ (l = <<>>) = (Len(l) = 0)
         /\ l = [i \in 1 .. Len(l) |-> l[i]]
<1>1. l \in Seq(Range(l))
  BY DEF IsList
<1>2. Len(l) \in Nat /\ l \in [1 .. Len(l) -> Range(l)] /\ DOMAIN l = 1 .. Len(l)
  BY <1>1, LenProperties
<1> QED BY <1>1, <1>2

\* A list with one more element in front, and one less.
LEMMA FrontList ==
  ASSUME NEW t, NEW f, IsList(t)
  PROVE  /\ IsList(<<f>> \o t) /\ Len(<<f>> \o t) = Len(t) + 1
         /\ (<<f>> \o t)[1] = f /\ DOMAIN (<<f>> \o t) = 1 .. Len(t) + 1
         /\ \A i \in 1 .. Len(t) : (<<f>> \o t)[i + 1] = t[i]
<1> DEFINE S == Range(t) \cup {f}
           n == <<f>> \o t
<1>1. t \in Seq(S) /\ <<f>> \in Seq(S)
  BY DEF IsList
<1>2. n \in Seq(S) /\ Len(n) = Len(t) + 1 /\ Len(t) \in Nat
  BY <1>1
<1>3. n[1] = f /\ \A i \in 1 .. Len(t) : n[i + 1] = t[i]
  BY <1>1
<1>4. IsList(n)
  BY <1>2, SeqIsList
<1>5. DOMAIN n = 1 .. Len(t) + 1
  BY <1>2
<1> QED BY <1>2, <1>3, <1>4, <1>5

LEMMA TailList ==
  ASSUME NEW t, IsList(t), t # <<>>
  PROVE  IsList(Tail(t)) /\ t = <<Head(t)>> \o Tail(t) /\ Head(t) = t[1]
<1> DEFINE S == Range(t)
<1>1. t \in Seq(S)
  BY DEF IsList
<1> HIDE DEF S
<1>2. Tail(t) \in Seq(S) /\ <<Head(t)>> \in Seq(S) /\ Head(t) = t[1]
  BY <1>1
<1>3. IsList(Tail(t))
  BY <1>2, SeqIsList
<1>4. Len(<<Head(t)>> \o Tail(t)) = Len(t) /\ <<Head(t)>> \o Tail(t) \in Seq(S)
  BY <1>1, <1>2
<1>5. \A i \in 1 .. Len(t) : (<<Head(t)>> \o Tail(t))[i] = t[i]
  BY <1>1, <1>2
<1>6. t = <<Head(t)>> \o Tail(t)
  BY <1>1, <1>4, <1>5, SeqEqual
<1> QED BY <1>2, <1>3, <1>6

\* Appending keeps a list one.
LEMMA AppendList ==
  ASSUME NEW l, NEW x, IsList(l)
  PROVE  /\ IsList(Append(l, x)) /\ Len(l) \in Nat /\ DOMAIN l = 1 .. Len(l)
         /\ Len(Append(l, x)) = Len(l) + 1
         /\ DOMAIN Append(l, x) = 1 .. Len(l) + 1 /\ Append(l, x)[Len(l) + 1] = x
         /\ \A i \in 1 .. Len(l) : Append(l, x)[i] = l[i]
<1> DEFINE S == Range(l) \cup {x}
<1>1. l \in Seq(S) /\ x \in S
  BY DEF IsList
<1> HIDE DEF S
<1>2. Append(l, x) \in Seq(S) /\ Len(Append(l, x)) = Len(l) + 1 /\ Len(l) \in Nat
  BY <1>1
<1>3. IsList(Append(l, x))
  BY <1>2, SeqIsList
<1> QED BY <1>1, <1>2, <1>3

\* Counting the nestings below a frame when one more is put on top.
LEMMA BeneathFront ==
  ASSUME NEW t, NEW f, IsList(t)
  PROVE  /\ \A i \in Nat : Beneath(t, i) \in Nat
         /\ \A i \in Nat : Beneath(<<f>> \o t, i + 1) = Beneath(t, i)
         /\ Beneath(<<f>> \o t, 0) =
              IF f.do \in Leaving THEN Beneath(t, 0) + 1 ELSE Beneath(t, 0)
<1> DEFINE n == <<f>> \o t
           L == Len(t)
           In(i) == {j \in 1 .. L : j > i /\ t[j].do \in Leaving}
           Out(i) == {j \in 1 .. L + 1 : j > i /\ n[j].do \in Leaving}
<1>1. /\ L \in Nat /\ DOMAIN t = 1 .. L /\ DOMAIN n = 1 .. L + 1 /\ n[1] = f
      /\ \A i \in 1 .. L : n[i + 1] = t[i]
  BY FrontList, ListFacts
<1>2. \A i \in Nat : Beneath(t, i) = Cardinality(In(i)) /\ Beneath(n, i) = Cardinality(Out(i))
  BY <1>1 DEF Beneath
<1> HIDE DEF n, L
<1>3. \A i \in Nat : IsFiniteSet(In(i)) /\ IsFiniteSet(Out(i)) /\ Cardinality(In(i)) \in Nat
  <2> TAKE i \in Nat
  <2>1. IsFiniteSet(1 .. L) /\ IsFiniteSet(1 .. L + 1)
    BY <1>1, FS_Interval
  <2>2. In(i) \in SUBSET (1 .. L) /\ Out(i) \in SUBSET (1 .. L + 1)
    OBVIOUS
  <2>3. IsFiniteSet(In(i)) /\ IsFiniteSet(Out(i))
    BY <2>1, <2>2, FS_Subset
  <2> QED BY <2>3, FS_CardinalityType
<1>4. \A i \in Nat : Cardinality(Out(i + 1)) = Cardinality(In(i))
  <2> TAKE i \in Nat
  <2> DEFINE g == [j \in In(i) |-> j + 1]
  <2>1. \A j \in In(i) : j + 1 \in Out(i + 1)
    BY <1>1
  <2>2. \A k \in Out(i + 1) : k - 1 \in In(i)
    BY <1>1
  <2>3. g \in Bijection(In(i), Out(i + 1))
    <3>1. g \in [In(i) -> Out(i + 1)]
      BY <2>1
    <3>2. \A a, b \in In(i) : g[a] = g[b] => a = b
      OBVIOUS
    <3>3. \A k \in Out(i + 1) : \E j \in In(i) : g[j] = k
      BY <2>2
    <3> QED BY <3>1, <3>2, <3>3 DEF Bijection, Injection, Surjection, IsInjective
  <2>4. ExistsBijection(In(i), Out(i + 1))
    BY <2>3 DEF ExistsBijection
  <2> HIDE DEF In, Out
  <2> QED BY <1>3, <2>4, FS_Bijection
<1>5. Cardinality(Out(0)) = IF f.do \in Leaving THEN Cardinality(In(0)) + 1 ELSE Cardinality(In(0))
  <2>1. CASE f.do \in Leaving
    <3>1. Out(0) = Out(0 + 1) \cup {1} /\ 1 \notin Out(0 + 1)
      BY <1>1, <2>1
    <3> HIDE DEF In, Out
    <3> QED BY <2>1, <3>1, <1>3, <1>4, FS_AddElement
  <2>2. CASE f.do \notin Leaving
    <3>1. Out(0) = Out(0 + 1)
      BY <1>1, <2>2
    <3> HIDE DEF In, Out
    <3> QED BY <2>2, <3>1, <1>4
  <2> QED BY <2>1, <2>2
<1> HIDE DEF In, Out
<1> QED BY <1>2, <1>3, <1>4, <1>5 DEF n

\* What fits on a stack.
CanPush(u, f, t) ==
  /\ f.do \notin Answers
  /\ t[1].do = "sudoRan" => f.do = "return"
  /\ f.do = "return" =>
       IsContext(f.with) /\ f.with.depth = Beneath(t, 0) /\ (f.with.user # u => Sudos(t, 1))

AllFit(u, t) == \A i \in DOMAIN t : FrameFits(u, t, i)

LEMMA SudosFront ==
  ASSUME NEW t, NEW f, IsList(t)
  PROVE  \A i \in Nat : Sudos(<<f>> \o t, i + 1) = Sudos(t, i)
<1> DEFINE n == <<f>> \o t
           L == Len(t)
<1>1. /\ L \in Nat /\ DOMAIN t = 1 .. L /\ DOMAIN n = 1 .. L + 1
      /\ \A i \in 1 .. L : n[i + 1] = t[i]
  BY FrontList, ListFacts
<1> HIDE DEF n, L
<1> TAKE i \in Nat
<1>2. ASSUME Sudos(t, i) PROVE Sudos(n, i + 1)
  <2>1. PICK j \in 1 .. L : j > i /\ t[j].do = "sudoRan"
    BY <1>1, <1>2 DEF Sudos
  <2>2. j + 1 \in 1 .. L + 1 /\ j + 1 > i + 1 /\ n[j + 1].do = "sudoRan"
    BY <1>1, <2>1
  <2> QED BY <1>1, <2>2 DEF Sudos
<1>3. ASSUME Sudos(n, i + 1) PROVE Sudos(t, i)
  <2>1. PICK j \in 1 .. L + 1 : j > i + 1 /\ n[j].do = "sudoRan"
    BY <1>1, <1>3 DEF Sudos
  <2>2. j - 1 \in 1 .. L /\ j - 1 > i /\ n[(j - 1) + 1] = t[j - 1] /\ (j - 1) + 1 = j
    BY <1>1, <2>1
  <2> QED BY <1>1, <2>1, <2>2 DEF Sudos
<1>4. Sudos(n, i + 1) \in BOOLEAN /\ Sudos(t, i) \in BOOLEAN
  BY DEF Sudos
<1> QED BY <1>2, <1>3, <1>4 DEF n

LEMMA FrontFits ==
  ASSUME NEW u, NEW t, NEW f, IsList(t), t # <<>>
  PROVE  AllFit(u, <<f>> \o t) <=> AllFit(u, t) /\ CanPush(u, f, t)
<1> DEFINE n == <<f>> \o t
           L == Len(t)
<1>1. /\ L \in Nat \ {0} /\ DOMAIN t = 1 .. L /\ DOMAIN n = 1 .. L + 1 /\ n[1] = f
      /\ Len(n) = L + 1 /\ L = Len(t)
      /\ \A i \in 1 .. L : n[i + 1] = t[i]
  BY FrontList, ListFacts
<1>2. \A i \in Nat : Beneath(n, i + 1) = Beneath(t, i) /\ Sudos(n, i + 1) = Sudos(t, i)
  BY BeneathFront, SudosFront
<1> HIDE DEF n, L
<1>3. FrameFits(u, n, 1) <=>
        /\ f.do = "return" => /\ IsContext(f.with) /\ f.with.depth = Beneath(t, 0)
                              /\ f.with.user # u => Sudos(t, 1)
        /\ f.do \notin Answers
  <2>1. Beneath(n, 1) = Beneath(t, 0) /\ Sudos(n, 1 + 1) = Sudos(t, 1)
    <3>1. Beneath(n, 0 + 1) = Beneath(t, 0)
      BY <1>2
    <3> QED BY <1>2, <3>1
  <2>2. n[1] = f /\ 1 # Len(n)
    BY <1>1
  <2> QED BY <2>1, <2>2 DEF FrameFits, Answers
<1>4. \A i \in 1 .. L : FrameFits(u, n, i + 1) <=>
        FrameFits(u, t, i) /\ (i = 1 /\ t[1].do = "sudoRan" => f.do = "return")
  <2> TAKE i \in 1 .. L
  <2>1. /\ n[i + 1] = t[i] /\ Beneath(n, i + 1) = Beneath(t, i)
        /\ Sudos(n, (i + 1) + 1) = Sudos(t, i + 1) /\ (i + 1 = Len(n) <=> i = Len(t))
        /\ i + 1 > 1 /\ (i + 1) - 1 = i
    <3>1. i + 1 \in Nat /\ i \in Nat
      OBVIOUS
    <3>2. Sudos(n, (i + 1) + 1) = Sudos(t, i + 1) /\ Beneath(n, i + 1) = Beneath(t, i)
      BY <1>2, <3>1
    <3>3. i + 1 = L + 1 <=> i = L
      <4>1. i \in Int /\ L \in Int
        BY <1>1
      <4> QED BY <4>1
    <3>4. n[i + 1] = t[i] /\ i + 1 > 1 /\ (i + 1) - 1 = i
      BY <1>1
    <3> QED BY <1>1, <3>2, <3>3, <3>4
  <2>2. i # 1 => n[i] = t[i - 1] /\ i > 1
    <3>1. i # 1 => i - 1 \in 1 .. L /\ n[(i - 1) + 1] = t[i - 1] /\ (i - 1) + 1 = i /\ i > 1
      BY <1>1
    <3> QED BY <3>1
  <2>3. i = 1 => n[i] = f
    BY <1>1
  <2>4. (t[i].do = "sudoRan" /\ i + 1 > 1 => n[(i + 1) - 1].do = "return") <=>
          /\ t[i].do = "sudoRan" /\ i > 1 => t[i - 1].do = "return"
          /\ i = 1 /\ t[1].do = "sudoRan" => f.do = "return"
    <3>1. CASE i = 1
      BY <2>1, <2>3, <3>1
    <3>2. CASE i # 1
      BY <2>1, <2>2, <3>2
    <3> QED BY <3>1, <3>2
  <2> QED BY <2>1, <2>4 DEF FrameFits
<1>5. AllFit(u, n) <=> FrameFits(u, n, 1) /\ \A i \in 1 .. L : FrameFits(u, n, i + 1)
  <2>1. AllFit(u, n) => FrameFits(u, n, 1) /\ \A i \in 1 .. L : FrameFits(u, n, i + 1)
    BY <1>1 DEF AllFit
  <2>2. ASSUME FrameFits(u, n, 1), \A i \in 1 .. L : FrameFits(u, n, i + 1)
        PROVE  AllFit(u, n)
    <3> SUFFICES ASSUME NEW j \in 1 .. L + 1 PROVE FrameFits(u, n, j)
      BY <1>1 DEF AllFit
    <3>1. CASE j = 1
      BY <3>1, <2>2
    <3>2. CASE j # 1
      <4>1. j - 1 \in 1 .. L /\ (j - 1) + 1 = j
        BY <1>1, <3>2
      <4> QED BY <4>1, <2>2
    <3> QED BY <3>1, <3>2
  <2> QED BY <2>1, <2>2
<1>6. (\A i \in 1 .. L : i = 1 /\ t[1].do = "sudoRan" => f.do = "return")
        <=> (t[1].do = "sudoRan" => f.do = "return")
  BY <1>1
<1>7. AllFit(u, t) <=> \A i \in 1 .. L : FrameFits(u, t, i)
  BY <1>1 DEF AllFit
<1> QED BY <1>3, <1>4, <1>5, <1>6, <1>7 DEF n, CanPush

---------------------------------------------------------------------------
(* Machines in the middle of a step.  h is what the history is unless the      *)
(* line has cleared it.                                                        *)

KeepsLocked(f) == \A p \in Locked : p \in DOMAIN f /\ f[p] = Files0[p]

Fits(m, h) ==
  /\ IsMachine(m)
  /\ IsList(m.steps)
  /\ m.history = IF Clears(m) THEN <<>> ELSE h
  /\ StackFits(m.user, m.ctx, m.todo)

Proper(m, h) == Fits(m, h) /\ Steady(m.todo) /\ KeepsLocked(m.file)

\* n is m but for what the properties do not look at.
Alike(m, n) ==
  /\ IsMachine(n)
  /\ n.user = m.user /\ n.ctx = m.ctx /\ n.todo = m.todo
  /\ n.file = m.file /\ n.history = m.history /\ n.steps = m.steps

LEMMA AlikeProper ==
  ASSUME NEW h, NEW m, NEW n, Proper(m, h), Alike(m, n)
  PROVE  Proper(n, h)
<1>1. Clears(n) <=> Clears(m)
  BY DEF Alike, Clears
<1> QED BY <1>1, Zenon DEF Alike, Proper, Fits

LEMMA SoundMachine ==
  ASSUME NEW h, NEW m, Proper(m, h)
  PROVE  IsMachine(m) /\ IsList(m.todo) /\ m.todo # <<>>
BY DEF Proper, Fits, StackFits, Steady

LEMMA ReturnProper ==
  ASSUME NEW h, NEW m, Proper(m, h), NEW code
  PROVE  Proper(Return(m, code), h)
<1>1. IsMachine(m)
  BY SoundMachine
<1>2. Alike(m, Return(m, code))
  BY <1>1 DEF Alike, IsMachine, MachineFields, Return
<1> QED BY <1>2, AlikeProper

LEMMA EmitProper ==
  ASSUME NEW h, NEW m, Proper(m, h), NEW lines
  PROVE  Proper(Emit(m, lines), h)
<1>1. IsMachine(m)
  BY SoundMachine
<1>2. Alike(m, Emit(m, lines))
  BY <1>1 DEF Alike, IsMachine, MachineFields, Emit
<1> QED BY <1>2, AlikeProper

LEMMA PublishProper ==
  ASSUME NEW h, NEW m, Proper(m, h), NEW e
  PROVE  Proper(Publish(m, e), h)
<1>1. IsMachine(m)
  BY SoundMachine
<1>2. Alike(m, Publish(m, e))
  BY <1>1 DEF Alike, IsMachine, MachineFields, Publish
<1> QED BY <1>2, AlikeProper

LEMMA CapOutProper ==
  ASSUME NEW h, NEW m, Proper(m, h)
  PROVE  Proper(CapOut(m), h)
<1>1. IsMachine(m)
  BY SoundMachine
<1>2. Alike(m, CapOut(m))
  BY <1>1 DEF Alike, IsMachine, MachineFields, CapOut
<1> QED BY <1>2, AlikeProper

LEMMA FlipProper ==
  ASSUME NEW h, NEW m, Proper(m, h)
  PROVE  Proper(FlipCode(m), h)
BY ReturnProper DEF FlipCode

\* A call is pushed on the stack.
Plain == {"ast", "stmt", "stmts", "cap", "flip", "second", "pipe", "pipeCall", "piped", "invoke",
          "redirects", "redirect", "words", "subst", "substituted", "sudo", "interpreted",
          "sequence", "andOr", "token", "pipeline", "lineEnds"}

LEMMA PushedMachine ==
  ASSUME NEW m, NEW do, NEW with, IsMachine(m)
  PROVE  LET n == Push(m, do, with)
         IN  /\ IsMachine(n) /\ n.todo = <<Frame(do, with)>> \o m.todo
             /\ n.user = m.user /\ n.ctx = m.ctx /\ n.file = m.file
             /\ n.history = m.history /\ n.steps = m.steps /\ n.last = m.last
             /\ n.cwd = m.cwd
<1> DEFINE t == <<Frame(do, with)>> \o m.todo
<1>1. Push(m, do, with) = [m EXCEPT !.todo = t]
  BY DEF Push
<1> HIDE DEF t
<1>2. /\ IsMachine([m EXCEPT !.todo = t]) /\ [m EXCEPT !.todo = t].todo = t
      /\ [m EXCEPT !.todo = t].user = m.user /\ [m EXCEPT !.todo = t].ctx = m.ctx
      /\ [m EXCEPT !.todo = t].file = m.file /\ [m EXCEPT !.todo = t].history = m.history
      /\ [m EXCEPT !.todo = t].steps = m.steps /\ [m EXCEPT !.todo = t].last = m.last
      /\ [m EXCEPT !.todo = t].cwd = m.cwd
  BY DEF IsMachine, MachineFields
<1> QED BY <1>1, <1>2 DEF t

\* The stack of a proper machine with one more frame.
LEMMA PushFits ==
  ASSUME NEW u, NEW c, NEW d, NEW t, NEW f,
         StackFits(u, c, t), t # <<>>, CanPush(u, f, t), IsContext(d),
         d.depth = Beneath(<<f>> \o t, 0), d.depth <= MaxDepth,
         d.user # u => Sudos(t, 0)
  PROVE  StackFits(u, d, <<f>> \o t)
<1>1. IsList(t) /\ AllFit(u, t)
  BY DEF StackFits, AllFit
<1>2. IsList(<<f>> \o t)
  BY <1>1, FrontList
<1>3. AllFit(u, <<f>> \o t)
  BY <1>1, FrontFits
<1>4. Sudos(<<f>> \o t, 0 + 1) = Sudos(t, 0)
  BY <1>1, SudosFront
<1> QED BY <1>2, <1>3, <1>4 DEF StackFits, AllFit

LEMMA SudosLess ==
  ASSUME NEW t, IsList(t), Sudos(t, 1)
  PROVE  Sudos(t, 0)
<1>1. PICK j \in DOMAIN t : j > 1 /\ t[j].do = "sudoRan"
  BY DEF Sudos
<1>2. j \in Nat
  BY <1>1, ListFacts
<1> QED BY <1>1, <1>2 DEF Sudos

LEMMA FrontFirst ==
  ASSUME NEW t, NEW f, IsList(t)
  PROVE  <<f>> \o t # <<>> /\ (<<f>> \o t)[1] = f
BY FrontList, ListFacts

LEMMA PushProper ==
  ASSUME NEW h, NEW m, Proper(m, h), NEW do \in Plain, NEW with
  PROVE  Proper(Push(m, do, with), h)
<1> DEFINE f == Frame(do, with)
           n == Push(m, do, with)
           t == m.todo
<1>1. /\ IsMachine(m) /\ IsList(t) /\ t # <<>> /\ t[1].do # "sudoRan"
      /\ StackFits(m.user, m.ctx, t)
  BY DEF Proper, Fits, StackFits, Steady
<1>2. f.do = do /\ do \notin Answers /\ do \notin Leaving /\ do # "sudoRan"
  BY DEF Frame, Plain, Answers, Leaving
<1>3. /\ IsMachine(n) /\ n.todo = <<f>> \o t /\ n.user = m.user /\ n.ctx = m.ctx
      /\ n.file = m.file /\ n.history = m.history /\ n.steps = m.steps
  BY <1>1, PushedMachine
<1> HIDE DEF f, n
<1>4. CanPush(m.user, f, t)
  BY <1>1, <1>2 DEF CanPush, Leaving
<1>5. m.ctx.depth = Beneath(<<f>> \o t, 0)
  <2>1. Beneath(<<f>> \o t, 0) = Beneath(t, 0)
    BY <1>1, <1>2, BeneathFront
  <2> QED BY <2>1, <1>1 DEF StackFits
<1>6. StackFits(m.user, m.ctx, <<f>> \o t)
  <2>1. /\ IsContext(m.ctx) /\ m.ctx.depth <= MaxDepth
        /\ m.ctx.user # m.user => Sudos(t, 1)
    BY <1>1 DEF StackFits
  <2>2. m.ctx.user # m.user => Sudos(t, 0)
    BY <1>1, <2>1, SudosLess
  <2> QED BY <1>1, <1>4, <1>5, <2>1, <2>2, PushFits
<1>7. Clears(n) <=> Clears(m)
  BY <1>3 DEF Clears
<1>8. Steady(n.todo)
  BY <1>1, <1>2, <1>3, FrontFirst DEF Steady
<1> QED BY <1>1, <1>3, <1>6, <1>7, <1>8, Zenon DEF Proper, Fits, n

\* The stack when the frame on top is taken.
LEMMA PopFits ==
  ASSUME NEW u, NEW c, NEW t, StackFits(u, c, t), t # <<>>, t[1].do \notin Answers
  PROVE  LET r == Tail(t)
         IN  /\ IsList(r) /\ r # <<>> /\ AllFit(u, r) /\ CanPush(u, t[1], r)
             /\ Beneath(r, 0) \in Nat
             /\ c.depth = IF t[1].do \in Leaving THEN Beneath(r, 0) + 1 ELSE Beneath(r, 0)
             /\ t[1].do # "return" => r[1].do # "sudoRan" /\ (c.user # u => Sudos(r, 1))
<1> DEFINE r == Tail(t)
           f == t[1]
<1>1. IsList(t) /\ IsList(r) /\ t = <<f>> \o r
  BY TailList DEF StackFits
<1>2. AllFit(u, t)
  BY DEF StackFits, AllFit
<1>3. r # <<>>
  <2>1. 1 \in DOMAIN t
    BY <1>1, ListFacts
  <2>2. Len(t) # 1
    BY <1>2, <2>1 DEF AllFit, FrameFits
  <2>3. Len(t) = Len(r) + 1 /\ Len(r) \in Nat
    BY <1>1, FrontList, ListFacts
  <2> QED BY <1>1, <2>2, <2>3, ListFacts
<1>4. AllFit(u, r) /\ CanPush(u, f, r)
  BY <1>1, <1>2, <1>3, FrontFits, Zenon
<1>5. /\ Beneath(r, 0) \in Nat
      /\ c.depth = IF f.do \in Leaving THEN Beneath(r, 0) + 1 ELSE Beneath(r, 0)
  <2>1. c.depth = Beneath(t, 0)
    BY DEF StackFits
  <2>2. Beneath(<<f>> \o r, 0) = IF f.do \in Leaving THEN Beneath(r, 0) + 1 ELSE Beneath(r, 0)
    BY <1>1, BeneathFront
  <2>3. Beneath(r, 0) \in Nat
    BY <1>1, BeneathFront
  <2> QED BY <1>1, <2>1, <2>2, <2>3, Zenon
<1>6. f.do # "return" => r[1].do # "sudoRan" /\ (c.user # u => Sudos(r, 1))
  <2> SUFFICES ASSUME f.do # "return" PROVE r[1].do # "sudoRan" /\ (c.user # u => Sudos(r, 1))
    OBVIOUS
  <2>1. r[1].do # "sudoRan"
    BY <1>4 DEF CanPush
  <2>2. Sudos(t, 0 + 1) = Sudos(r, 0) /\ Sudos(r, 0) \in BOOLEAN
    <3>1. Sudos(<<f>> \o r, 0 + 1) = Sudos(r, 0)
      BY <1>1, SudosFront
    <3> QED BY <1>1, <3>1, Zenon DEF Sudos
  <2>3. c.user # u => Sudos(r, 0)
    BY <2>2 DEF StackFits
  <2>4. ASSUME Sudos(r, 0) PROVE Sudos(r, 1)
    <3>1. PICK j \in DOMAIN r : j > 0 /\ r[j].do = "sudoRan"
      BY <2>4 DEF Sudos
    <3>2. j \in Nat /\ j # 1
      BY <1>1, <2>1, <3>1, ListFacts
    <3> QED BY <3>1, <3>2 DEF Sudos
  <2> QED BY <2>1, <2>3, <2>4
<1> QED BY <1>1, <1>3, <1>4, <1>5, <1>6

\* A machine with the frame on top taken, in the file system f.
Taken(m, f) == [[m EXCEPT !.file = f] EXCEPT !.todo = Tail(@)]

LEMMA TakenMachine ==
  ASSUME NEW m, NEW f, IsMachine(m)
  PROVE  LET n == Taken(m, f)
         IN  /\ IsMachine(n) /\ n.todo = Tail(m.todo) /\ n.file = f
             /\ n.user = m.user /\ n.ctx = m.ctx /\ n.history = m.history /\ n.steps = m.steps
<1> DEFINE t == Tail(m.todo)
           k == [m EXCEPT !.file = f]
<1>0. k.todo = m.todo
  BY DEF IsMachine, MachineFields
<1>1. Taken(m, f) = [[m EXCEPT !.file = f] EXCEPT !.todo = t]
  BY <1>0, Zenon DEF Taken
<1> HIDE DEF t
<1>2. /\ IsMachine(Taken(m, f)) /\ Taken(m, f).todo = t /\ Taken(m, f).file = f
      /\ Taken(m, f).user = m.user /\ Taken(m, f).ctx = m.ctx
      /\ Taken(m, f).history = m.history /\ Taken(m, f).steps = m.steps
  BY <1>1 DEF IsMachine, MachineFields
<1> QED BY <1>2 DEF t

LEMMA TakenProper ==
  ASSUME NEW h, NEW m, Fits(m, h), m.todo # <<>>, NEW f, KeepsLocked(f),
         m.todo[1].do \notin Answers, m.todo[1].do \notin Leaving
  PROVE  Proper(Taken(m, f), h)
<1> DEFINE t == m.todo
           n == Taken(m, f)
<1>1. IsMachine(m) /\ StackFits(m.user, m.ctx, t)
  BY DEF Fits
<1>2. /\ IsMachine(n) /\ n.todo = Tail(t) /\ n.file = f
      /\ n.user = m.user /\ n.ctx = m.ctx /\ n.history = m.history /\ n.steps = m.steps
  BY <1>1, TakenMachine
<1> HIDE DEF n
<1>3. StackFits(m.user, m.ctx, Tail(t)) /\ Steady(Tail(t))
  <2>1. t[1].do # "return" /\ t[1].do \notin Leaving
    BY DEF Leaving
  <2>2. /\ IsList(Tail(t)) /\ Tail(t) # <<>> /\ AllFit(m.user, Tail(t))
        /\ m.ctx.depth = Beneath(Tail(t), 0)
        /\ Tail(t)[1].do # "sudoRan" /\ (m.ctx.user # m.user => Sudos(Tail(t), 1))
    BY <1>1, <2>1, PopFits
  <2>3. IsContext(m.ctx) /\ m.ctx.depth <= MaxDepth
    BY <1>1 DEF StackFits
  <2> QED BY <2>2, <2>3 DEF StackFits, AllFit, Steady
<1>4. Clears(n) <=> Clears(m)
  BY <1>2 DEF Clears
<1> QED BY <1>2, <1>3, <1>4, Zenon DEF Proper, Fits, n

\* The depth goes up and down with the frames that keep it.
LEMMA ContextMachine ==
  ASSUME NEW m, NEW c, IsMachine(m)
  PROVE  LET n == [m EXCEPT !.ctx = c]
         IN  /\ IsMachine(n) /\ n.todo = m.todo /\ n.file = m.file
             /\ n.user = m.user /\ n.ctx = c /\ n.history = m.history /\ n.steps = m.steps
BY DEF IsMachine, MachineFields

LEMMA DepthContext ==
  ASSUME NEW c, IsContext(c), NEW d
  PROVE  /\ IsContext([c EXCEPT !.depth = d]) /\ [c EXCEPT !.depth = d].depth = d
         /\ [c EXCEPT !.depth = d].user = c.user
BY DEF IsContext

LEMMA DeeperProper ==
  ASSUME NEW h, NEW m, Proper(m, h), ~TooDeep(m)
  PROVE  Proper(Deeper(m), h)
<1> DEFINE d == m.ctx.depth + 1
           c == [m.ctx EXCEPT !.depth = d]
           k == [m EXCEPT !.ctx = c]
           f == Frame("leave", <<>>)
           n == Deeper(m)
           t == m.todo
<1>1. /\ IsMachine(m) /\ IsList(t) /\ t # <<>> /\ t[1].do # "sudoRan"
      /\ StackFits(m.user, m.ctx, t)
  BY DEF Proper, Fits, StackFits, Steady
<1>2. IsContext(c) /\ c.depth = d /\ c.user = m.ctx.user
  BY <1>1, DepthContext DEF StackFits
<1>3. n = Push(k, "leave", <<>>)
  <2>1. [m EXCEPT !.ctx.depth = @ + 1] = k
    BY <1>1 DEF IsMachine, MachineFields
  <2> HIDE DEF k
  <2> QED BY <2>1, Zenon DEF Deeper
<1> HIDE DEF c
<1>4. /\ IsMachine(k) /\ k.todo = t /\ k.file = m.file /\ k.user = m.user /\ k.ctx = c
      /\ k.history = m.history /\ k.steps = m.steps
  BY <1>1, ContextMachine
<1> HIDE DEF k
<1>5. /\ IsMachine(n) /\ n.todo = <<f>> \o t /\ n.user = m.user /\ n.ctx = c
      /\ n.file = m.file /\ n.history = m.history /\ n.steps = m.steps
  BY <1>3, <1>4, PushedMachine
<1>6. f.do = "leave"
  BY DEF Frame
<1> HIDE DEF f, n
<1>7. CanPush(m.user, f, t)
  BY <1>1, <1>6 DEF CanPush, Answers
<1>8. c.depth = Beneath(<<f>> \o t, 0) /\ c.depth <= MaxDepth
  <2>1. Beneath(<<f>> \o t, 0) = Beneath(t, 0) + 1 /\ Beneath(t, 0) \in Nat
    BY <1>1, <1>6, BeneathFront DEF Leaving
  <2>2. m.ctx.depth = Beneath(t, 0) /\ MaxDepth \in Nat
    BY <1>1, ShellAssumption DEF StackFits
  <2> QED BY <1>2, <2>1, <2>2 DEF TooDeep
<1>9. StackFits(m.user, c, <<f>> \o t)
  <2>1. m.ctx.user # m.user => Sudos(t, 1)
    BY <1>1 DEF StackFits
  <2>2. c.user # m.user => Sudos(t, 0)
    BY <1>1, <1>2, <2>1, SudosLess
  <2> QED BY <1>1, <1>2, <1>7, <1>8, <2>2, PushFits
<1>10. Clears(n) <=> Clears(m)
  BY <1>5 DEF Clears
<1>11. Steady(n.todo)
  BY <1>1, <1>5, <1>6, FrontFirst DEF Steady
<1> QED BY <1>5, <1>9, <1>10, <1>11, Zenon DEF Proper, Fits, n

LEMMA LeaveProper ==
  ASSUME NEW h, NEW m, Fits(m, h), m.todo # <<>>, NEW f, KeepsLocked(f),
         m.todo[1].do = "leave"
  PROVE  Proper(Leave(Taken(m, f)), h)
<1> DEFINE t == m.todo
           k == Taken(m, f)
           d == m.ctx.depth - 1
           c == [m.ctx EXCEPT !.depth = d]
           n == Leave(k)
<1>1. IsMachine(m) /\ StackFits(m.user, m.ctx, t)
  BY DEF Fits
<1>2. /\ IsMachine(k) /\ k.todo = Tail(t) /\ k.file = f
      /\ k.user = m.user /\ k.ctx = m.ctx /\ k.history = m.history /\ k.steps = m.steps
  BY <1>1, TakenMachine
<1>3. IsContext(c) /\ c.depth = d /\ c.user = m.ctx.user
  BY <1>1, DepthContext DEF StackFits
<1>4. n = [k EXCEPT !.ctx = c]
  <2>1. IsMachine(k) /\ k.ctx = m.ctx
    BY <1>2
  <2> HIDE DEF k
  <2> QED BY <2>1 DEF Leave, IsMachine, MachineFields
<1> HIDE DEF c, k, n
<1>5. /\ IsMachine(n) /\ n.todo = Tail(t) /\ n.file = f /\ n.ctx = c
      /\ n.user = m.user /\ n.history = m.history /\ n.steps = m.steps
  <2>1. IsMachine(k)
    BY <1>2
  <2>2. /\ IsMachine(n) /\ n.todo = k.todo /\ n.file = k.file /\ n.ctx = c
        /\ n.user = k.user /\ n.history = k.history /\ n.steps = k.steps
    BY <1>4, <2>1 DEF IsMachine, MachineFields
  <2> QED BY <1>2, <2>2
<1>6. StackFits(m.user, c, Tail(t)) /\ Steady(Tail(t))
  <2>1. t[1].do # "return" /\ t[1].do \in Leaving /\ t[1].do \notin Answers
    BY DEF Leaving, Answers
  <2>2. /\ IsList(Tail(t)) /\ Tail(t) # <<>> /\ AllFit(m.user, Tail(t))
        /\ Beneath(Tail(t), 0) \in Nat
        /\ m.ctx.depth = Beneath(Tail(t), 0) + 1
        /\ Tail(t)[1].do # "sudoRan" /\ (m.ctx.user # m.user => Sudos(Tail(t), 1))
    BY <1>1, <2>1, PopFits
  <2>3. m.ctx.depth <= MaxDepth /\ MaxDepth \in Nat
    BY <1>1, ShellAssumption DEF StackFits
  <2>4. c.depth = Beneath(Tail(t), 0) /\ c.depth <= MaxDepth
    BY <1>3, <2>2, <2>3
  <2> QED BY <1>3, <2>2, <2>4 DEF StackFits, AllFit, Steady
<1>7. Clears(n) <=> Clears(m)
  BY <1>5 DEF Clears
<1> QED BY <1>5, <1>6, <1>7, Zenon DEF Proper, Fits, n, k

\* The context is put back: a sudo may go on now.
LEMMA GoBackFits ==
  ASSUME NEW h, NEW m, Fits(m, h), m.todo # <<>>, NEW f, KeepsLocked(f),
         m.todo[1].do = "return"
  PROVE  LET n == GoBack(Taken(m, f), m.todo[1].with)
         IN  Fits(n, h) /\ n.todo # <<>> /\ KeepsLocked(n.file)
<1> DEFINE t == m.todo
           k == Taken(m, f)
           c == m.todo[1].with
           n == GoBack(k, c)
<1>1. IsMachine(m) /\ StackFits(m.user, m.ctx, t)
  BY DEF Fits
<1>2. /\ IsMachine(k) /\ k.todo = Tail(t) /\ k.file = f
      /\ k.user = m.user /\ k.ctx = m.ctx /\ k.history = m.history /\ k.steps = m.steps
  BY <1>1, TakenMachine
<1>3. n = [k EXCEPT !.ctx = c]
  BY DEF GoBack
<1> HIDE DEF c, k, n
<1>4. /\ IsMachine(n) /\ n.todo = Tail(t) /\ n.file = f /\ n.ctx = c
      /\ n.user = m.user /\ n.history = m.history /\ n.steps = m.steps
  <2>1. /\ IsMachine(n) /\ n.todo = k.todo /\ n.file = k.file /\ n.ctx = c
        /\ n.user = k.user /\ n.history = k.history /\ n.steps = k.steps
    BY <1>2, <1>3 DEF IsMachine, MachineFields
  <2> QED BY <1>2, <2>1
<1>5. StackFits(m.user, c, Tail(t)) /\ Tail(t) # <<>>
  <2>1. t[1].do \in Leaving /\ t[1].do \notin Answers
    BY DEF Leaving, Answers
  <2>2. /\ IsList(Tail(t)) /\ Tail(t) # <<>> /\ AllFit(m.user, Tail(t))
        /\ CanPush(m.user, t[1], Tail(t))
        /\ Beneath(Tail(t), 0) \in Nat
        /\ m.ctx.depth = Beneath(Tail(t), 0) + 1
    BY <1>1, <2>1, PopFits
  <2>3. m.ctx.depth <= MaxDepth /\ MaxDepth \in Nat
    BY <1>1, ShellAssumption DEF StackFits
  <2>4. /\ IsContext(c) /\ c.depth = Beneath(Tail(t), 0)
        /\ c.user # m.user => Sudos(Tail(t), 1)
    BY <2>2 DEF CanPush, c
  <2>5. c.depth <= MaxDepth
    BY <2>2, <2>3, <2>4
  <2> QED BY <2>2, <2>4, <2>5 DEF StackFits, AllFit
<1>6. Clears(n) <=> Clears(m)
  BY <1>4 DEF Clears
<1> QED BY <1>4, <1>5, <1>6, Zenon DEF Fits, n, k, c

\* A nested line: its caller waits, its context is one deeper, and it is
\* another user's only below a sudo.
LEMMA NestedProper ==
  ASSUME NEW h, NEW m, Proper(m, h), ~TooDeep(m),
         NEW then \in {"interpreted", "sudoRan"},
         NEW c, IsContext(c), c.depth = m.ctx.depth + 1,
         then = "interpreted" => c.user = m.ctx.user
  PROVE  Proper([Reentered(m, then) EXCEPT !.ctx = c], h)
<1> DEFINE u == m.user
           t == m.todo
           f == Frame(then, Kept(m))
           g == Frame("return", m.ctx)
           tf == <<f>> \o t
           tg == <<g>> \o tf
           k == Reentered(m, then)
           n == [k EXCEPT !.ctx = c]
<1>1. /\ IsMachine(m) /\ IsList(t) /\ t # <<>> /\ t[1].do # "sudoRan"
      /\ StackFits(u, m.ctx, t) /\ AllFit(u, t) /\ IsContext(m.ctx)
      /\ m.ctx.depth = Beneath(t, 0) /\ (m.ctx.user # u => Sudos(t, 1))
  BY DEF Proper, Fits, StackFits, Steady, AllFit
<1>2. f.do = then /\ g.do = "return" /\ g.with = m.ctx
  BY DEF Frame
<1>3. /\ IsMachine(k) /\ k.todo = tg /\ k.user = u /\ k.file = m.file
      /\ k.history = m.history /\ k.steps = m.steps
  <2> DEFINE p == Push(m, then, Kept(m))
  <2>1. /\ IsMachine(p) /\ p.todo = tf /\ p.user = u /\ p.file = m.file
        /\ p.history = m.history /\ p.steps = m.steps
    BY <1>1, PushedMachine
  <2>2. k = Push(p, "return", m.ctx)
    BY DEF Reentered
  <2> HIDE DEF p
  <2> DEFINE q == Push(p, "return", m.ctx)
  <2>3. /\ IsMachine(q) /\ q.todo = <<g>> \o p.todo /\ q.user = p.user /\ q.file = p.file
        /\ q.history = p.history /\ q.steps = p.steps
    BY <2>1, PushedMachine
  <2> HIDE DEF q
  <2> QED BY <2>1, <2>2, <2>3 DEF q
<1> HIDE DEF f, g, k
<1>4. CanPush(u, f, t)
  BY <1>1, <1>2 DEF CanPush, Answers
<1>5. /\ IsList(tf) /\ tf # <<>> /\ tf[1] = f /\ AllFit(u, tf)
      /\ Beneath(tf, 0) = Beneath(t, 0) /\ Beneath(t, 0) \in Nat
  <2>1. Beneath(tf, 0) = Beneath(t, 0) /\ Beneath(t, 0) \in Nat
    BY <1>1, <1>2, BeneathFront DEF Leaving
  <2>2. IsList(tf) /\ tf # <<>> /\ tf[1] = f
    BY <1>1, FrontList, FrontFirst
  <2>3. AllFit(u, tf)
    BY <1>1, <1>4, FrontFits
  <2> QED BY <2>1, <2>2, <2>3
<1>6. Sudos(tf, 1) = Sudos(t, 0) /\ Sudos(tg, 1) = Sudos(tf, 0)
  <2>1. Sudos(tf, 0 + 1) = Sudos(t, 0)
    BY <1>1, SudosFront
  <2>2. Sudos(tg, 0 + 1) = Sudos(tf, 0)
    BY <1>5, SudosFront
  <2> QED BY <2>1, <2>2
<1> HIDE DEF tf
<1>7. CanPush(u, g, tf)
  <2>1. m.ctx.user # u => Sudos(tf, 1)
    BY <1>1, <1>6, SudosLess
  <2> QED BY <1>1, <1>2, <1>5, <2>1 DEF CanPush, Answers
<1>8. IsList(tg) /\ tg # <<>> /\ tg[1] = g /\ AllFit(u, tg) /\ Beneath(tg, 0) = Beneath(tf, 0) + 1
  <2>1. Beneath(tg, 0) = Beneath(tf, 0) + 1
    BY <1>2, <1>5, BeneathFront DEF Leaving
  <2>2. IsList(tg) /\ tg # <<>> /\ tg[1] = g
    BY <1>5, FrontList, FrontFirst
  <2>3. AllFit(u, tg)
    BY <1>5, <1>7, FrontFits
  <2> QED BY <2>1, <2>2, <2>3
<1>9. c.user # u => Sudos(tg, 1)
  <2>1. CASE then = "sudoRan"
    <3>1. 1 \in DOMAIN tf
      BY <1>5, ListFacts
    <3>2. Sudos(tf, 0)
      BY <1>2, <1>5, <2>1, <3>1 DEF Sudos
    <3> QED BY <1>6, <3>2
  <2>2. CASE then = "interpreted"
    <3>1. c.user # u => Sudos(t, 0)
      BY <1>1, <2>2, SudosLess
    <3>2. c.user # u => Sudos(tf, 0)
      BY <1>5, <1>6, <3>1, SudosLess
    <3> QED BY <1>6, <3>2
  <2> QED BY <2>1, <2>2
<1> HIDE DEF tg
<1>10. StackFits(u, c, tg) /\ Steady(tg)
  <2>1. c.depth = Beneath(tg, 0)
    BY <1>1, <1>5, <1>8
  <2>2. c.depth <= MaxDepth
    BY <1>1, <1>5, ShellAssumption DEF TooDeep
  <2> QED BY <1>2, <1>8, <1>9, <2>1, <2>2 DEF StackFits, AllFit, Steady
<1>11. /\ IsMachine(n) /\ n.todo = tg /\ n.user = u /\ n.file = m.file /\ n.ctx = c
       /\ n.history = m.history /\ n.steps = m.steps
  BY <1>3 DEF IsMachine, MachineFields
<1> HIDE DEF n
<1>12. Clears(n) <=> Clears(m)
  BY <1>11 DEF Clears
<1>13. Fits(n, h)
  <2>1. IsList(m.steps) /\ m.history = IF Clears(m) THEN <<>> ELSE h
    BY DEF Proper, Fits
  <2> QED BY <1>10, <1>11, <1>12, <2>1, Zenon DEF Fits
<1> QED BY <1>10, <1>11, <1>13, Zenon DEF Proper, n, k

\* Where a line starts.
LEMMA ExecuteAsProper ==
  ASSUME NEW h, NEW m, IsMachine(m), NEW as, NEW depth, NEW raw,
         Proper([m EXCEPT !.ctx = [user |-> as, depth |-> depth, last |-> m.last]], h)
  PROVE  Proper(ExecuteAs(m, as, depth, raw), h)
<1> DEFINE c == [user |-> as, depth |-> depth, last |-> m.last]
           k == [m EXCEPT !.ctx = c]
           n == [m EXCEPT !.snap = m.cwd, !.out = <<>>, !.code = 0, !.ctx = c]
           line == Push(n, "lineEnds", m.cwd)
<1> HIDE DEF c
<1>1. Alike(k, n)
  <2>1. IsMachine(n)
    BY DEF IsMachine, MachineFields
  <2>2. /\ n.user = k.user /\ n.todo = k.todo /\ n.file = k.file
        /\ n.history = k.history /\ n.steps = k.steps
    BY DEF IsMachine, MachineFields
  <2>3. n.ctx = c /\ k.ctx = c
    BY DEF IsMachine, MachineFields
  <2> QED BY <2>1, <2>2, <2>3 DEF Alike
<1>2. Proper(k, h)
  BY Zenon DEF c
<1> HIDE DEF k, n
<1>3. Proper(n, h)
  BY <1>1, <1>2, AlikeProper
<1>4. Proper(line, h)
  BY <1>3, PushProper DEF Plain
<1> HIDE DEF line
<1>5. Proper(Push(line, "ast", raw), h) /\ Proper(Push(line, "sequence", raw[1].segments), h)
  BY <1>4, PushProper DEF Plain
<1>6. ExecuteAs(m, as, depth, raw) =
        IF Parses(raw) THEN Push(line, "ast", raw) ELSE Push(line, "sequence", raw[1].segments)
  BY Zenon DEF ExecuteAs, line, n, c
<1> QED BY <1>5, <1>6

LEMMA ReenteredProper ==
  ASSUME NEW h, NEW m, Proper(m, h), ~TooDeep(m), NEW raw
  PROVE  /\ Proper(ExecuteAs(Reentered(m, "sudoRan"), "root", m.ctx.depth + 1, raw), h)
         /\ Proper(ExecuteAs(Reentered(m, "interpreted"), m.ctx.user, m.ctx.depth + 1, raw), h)
<1> DEFINE d == m.ctx.depth + 1
           a == Reentered(m, "sudoRan")
           b == Reentered(m, "interpreted")
           ca == [user |-> "root", depth |-> d, last |-> a.last]
           cb == [user |-> m.ctx.user, depth |-> d, last |-> b.last]
<1>1. IsContext(ca) /\ ca.depth = d /\ IsContext(cb) /\ cb.depth = d /\ cb.user = m.ctx.user
  BY DEF IsContext
<1> HIDE DEF ca, cb
<1>2. Proper([a EXCEPT !.ctx = ca], h)
  BY <1>1, NestedProper
<1>3. Proper([b EXCEPT !.ctx = cb], h)
  BY <1>1, NestedProper
<1>4. IsMachine(a) /\ IsMachine(b)
  <2>1. IsMachine(m)
    BY SoundMachine
  <2>2. IsMachine(Push(m, "sudoRan", Kept(m))) /\ IsMachine(Push(m, "interpreted", Kept(m)))
    BY <2>1, PushedMachine
  <2> QED BY <2>2, PushedMachine DEF Reentered
<1> HIDE DEF a, b
<1>5. Proper(ExecuteAs(a, "root", d, raw), h)
  BY <1>2, <1>4, ExecuteAsProper, Zenon DEF ca
<1>6. Proper(ExecuteAs(b, m.ctx.user, d, raw), h)
  BY <1>3, <1>4, ExecuteAsProper, Zenon DEF cb
<1> QED BY <1>5, <1>6 DEF a, b

---------------------------------------------------------------------------
(* The methods. *)

\* A command in the trace clears the history or not.
Clearing(args) == args[1].text = "history" /\ Has(args, "-c")

LEMMA RanClears ==
  ASSUME NEW m, IsMachine(m), IsList(m.steps), NEW args
  PROVE  LET n == Ran(m, args)
         IN  /\ IsMachine(n) /\ IsList(n.steps) /\ n.user = m.user /\ n.ctx = m.ctx
             /\ n.todo = m.todo /\ n.file = m.file /\ n.history = m.history
             /\ Clears(n) <=> Clears(m) \/ Clearing(args)
<1> DEFINE x == [user |-> m.ctx.user, args |-> args]
           l == Append(m.steps, x)
           n == Ran(m, args)
<1>1. /\ IsMachine(n) /\ n.steps = l /\ n.user = m.user /\ n.ctx = m.ctx
      /\ n.todo = m.todo /\ n.file = m.file /\ n.history = m.history
  <2>1. n = [m EXCEPT !.steps = l]
    BY Zenon DEF Ran
  <2> HIDE DEF n, l
  <2> QED BY <2>1 DEF IsMachine, MachineFields
<1>2. x.args = args
  OBVIOUS
<1> HIDE DEF x, n
<1>3. /\ IsList(l) /\ Len(m.steps) \in Nat /\ DOMAIN m.steps = 1 .. Len(m.steps)
      /\ DOMAIN l = 1 .. Len(m.steps) + 1 /\ l[Len(m.steps) + 1] = x
      /\ \A i \in 1 .. Len(m.steps) : l[i] = m.steps[i]
  BY AppendList
<1> HIDE DEF l
<1>4. Clears(n) <=> \E i \in DOMAIN l : Clearing(l[i].args)
  BY <1>1 DEF Clears, Clearing
<1>5. Clears(m) <=> \E i \in DOMAIN m.steps : Clearing(m.steps[i].args)
  BY DEF Clears, Clearing
<1>6. (\E i \in DOMAIN l : Clearing(l[i].args))
        <=> (\E i \in DOMAIN m.steps : Clearing(m.steps[i].args)) \/ Clearing(args)
  <2>1. ASSUME NEW i \in DOMAIN l, Clearing(l[i].args)
        PROVE  (\E j \in DOMAIN m.steps : Clearing(m.steps[j].args)) \/ Clearing(args)
    <3>1. CASE i = Len(m.steps) + 1
      BY <1>2, <1>3, <2>1, <3>1
    <3>2. CASE i # Len(m.steps) + 1
      <4>1. i \in 1 .. Len(m.steps)
        BY <1>3, <3>2
      <4> QED BY <1>3, <2>1, <4>1
    <3> QED BY <3>1, <3>2
  <2>2. ASSUME NEW i \in DOMAIN m.steps, Clearing(m.steps[i].args)
        PROVE  \E j \in DOMAIN l : Clearing(l[j].args)
    <3>1. i \in DOMAIN l /\ l[i] = m.steps[i]
      BY <1>3
    <3> QED BY <2>2, <3>1
  <2>3. ASSUME Clearing(args) PROVE \E j \in DOMAIN l : Clearing(l[j].args)
    <3>1. Len(m.steps) + 1 \in DOMAIN l
      BY <1>3
    <3> QED BY <1>2, <1>3, <2>3, <3>1
  <2> QED BY <2>1, <2>2, <2>3
<1> QED BY <1>1, <1>3, <1>4, <1>5, <1>6 DEF n

LEMMA RanProper ==
  ASSUME NEW h, NEW m, Proper(m, h), NEW args, ~Clearing(args)
  PROVE  Proper(Ran(m, args), h)
<1> DEFINE n == Ran(m, args)
<1>1. IsMachine(m) /\ IsList(m.steps)
  BY DEF Proper, Fits
<1>2. /\ IsMachine(n) /\ IsList(n.steps) /\ n.user = m.user /\ n.ctx = m.ctx
      /\ n.todo = m.todo /\ n.file = m.file /\ n.history = m.history
      /\ Clears(n) <=> Clears(m)
  BY <1>1, RanClears
<1> HIDE DEF n
<1> QED BY <1>2, Zenon DEF Proper, Fits, n

LEMMA HistoryProper ==
  ASSUME NEW h, NEW m, Proper(m, h), NEW args, args[1].text = "history"
  PROVE  Proper(History(Ran(m, args), args), h)
<1> DEFINE n == Ran(m, args)
           k == [n EXCEPT !.history = <<>>]
<1>1. CASE ~Has(args, "-c")
  <2>1. Proper(n, h)
    BY <1>1, RanProper DEF Clearing
  <2> HIDE DEF n
  <2>2. \A lines : Proper(Return(Emit(n, lines), 0), h)
    BY <2>1, EmitProper, ReturnProper
  <2>3. \E lines : History(n, args) = Return(Emit(n, lines), 0)
    BY <1>1, Zenon DEF History
  <2> QED BY <2>2, <2>3 DEF n
<1>2. CASE Has(args, "-c")
  <2>1. IsMachine(m) /\ IsList(m.steps)
    BY DEF Proper, Fits
  <2>2. /\ IsMachine(n) /\ IsList(n.steps) /\ n.user = m.user /\ n.ctx = m.ctx
        /\ n.todo = m.todo /\ n.file = m.file
        /\ Clears(n)
    BY <1>2, <2>1, RanClears DEF Clearing
  <2> HIDE DEF n
  <2>3. /\ IsMachine(k) /\ k.steps = n.steps /\ k.user = n.user /\ k.ctx = n.ctx
        /\ k.todo = n.todo /\ k.file = n.file /\ k.history = <<>>
    BY <2>2 DEF IsMachine, MachineFields
  <2> HIDE DEF k
  <2>4. Clears(k)
    BY <2>2, <2>3 DEF Clears
  <2>5. Proper(k, h)
    BY <2>2, <2>3, <2>4, Zenon DEF Proper, Fits
  <2>6. Proper(Return(k, 0), h)
    BY <2>5, ReturnProper
  <2> QED BY <1>2, <2>6, Zenon DEF History, n, k
<1> QED BY <1>1, <1>2

\* Files.
LEMMA FileProper ==
  ASSUME NEW h, NEW m, Proper(m, h), NEW f, KeepsLocked(f)
  PROVE  Proper([m EXCEPT !.file = f], h)
<1> DEFINE n == [m EXCEPT !.file = f]
<1>1. IsMachine(m)
  BY SoundMachine
<1>2. /\ IsMachine(n) /\ n.user = m.user /\ n.ctx = m.ctx /\ n.todo = m.todo /\ n.file = f
      /\ n.history = m.history /\ n.steps = m.steps
  BY <1>1 DEF IsMachine, MachineFields
<1> HIDE DEF n
<1>3. Clears(n) <=> Clears(m)
  BY <1>2 DEF Clears
<1> QED BY <1>2, <1>3, Zenon DEF Proper, Fits, n

LEMMA WriteProper ==
  ASSUME NEW h, NEW m, Proper(m, h), NEW p, NEW lines
  PROVE  Proper(WriteFile(m, p, lines), h)
<1>1. CASE ~Writable(p)
  BY <1>1 DEF WriteFile
<1>2. CASE Writable(p)
  <2> DEFINE f == [q \in DOMAIN m.file \cup {p} |-> IF q = p THEN lines ELSE m.file[q]]
  <2>1. KeepsLocked(f)
    BY <1>2 DEF KeepsLocked, Proper, Writable
  <2>2. WriteFile(m, p, lines) = [m EXCEPT !.file = f]
    BY <1>2, Zenon DEF WriteFile
  <2> HIDE DEF f
  <2> QED BY <2>1, <2>2, FileProper
<1> QED BY <1>1, <1>2

LEMMA AppendFileProper ==
  ASSUME NEW h, NEW m, Proper(m, h), NEW p, NEW lines
  PROVE  Proper(AppendFile(m, p, lines), h)
BY WriteProper DEF AppendFile

LEMMA RemoveProper ==
  ASSUME NEW h, NEW m, Proper(m, h), NEW p, Writable(p)
  PROVE  Proper(RemoveFile(m, p), h)
<1> DEFINE f == Restrict(m.file, DOMAIN m.file \ {p})
<1>1. KeepsLocked(f)
  BY DEF KeepsLocked, Proper, Writable, Restrict
<1>2. RemoveFile(m, p) = [m EXCEPT !.file = f]
  BY Zenon DEF RemoveFile
<1> HIDE DEF f
<1> QED BY <1>1, <1>2, FileProper

LEMMA TeeProper ==
  ASSUME NEW h, NEW m, Proper(m, h), NEW args, NEW lines
  PROVE  Proper(Tee(m, args, lines), h)
<1>1. CASE args[1].text # "tee"
  BY <1>1 DEF Tee
<1>2. CASE args[1].text = "tee"
  <2> DEFINE to == {Path(m, Operands(args)[i].text) : i \in DOMAIN Operands(args)} \ Locked
             f == [q \in DOMAIN m.file \cup to |-> IF q \in to THEN lines ELSE m.file[q]]
  <2>1. Tee(m, args, lines) = [m EXCEPT !.file = f]
    BY <1>2, Zenon DEF Tee
  <2>2. to \cap Locked = {}
    OBVIOUS
  <2> HIDE DEF to
  <2>3. KeepsLocked(f)
    BY <2>2 DEF KeepsLocked, Proper
  <2> HIDE DEF f
  <2> QED BY <2>1, <2>3, FileProper
<1> QED BY <1>1, <1>2

\* Commands.
LEMMA CwdProper ==
  ASSUME NEW h, NEW m, Proper(m, h), NEW d
  PROVE  Proper([m EXCEPT !.cwd = d], h)
<1>1. IsMachine(m)
  BY SoundMachine
<1>2. Alike(m, [m EXCEPT !.cwd = d])
  BY <1>1 DEF Alike, IsMachine, MachineFields
<1> QED BY <1>2, AlikeProper

LEMMA OutProper ==
  ASSUME NEW h, NEW m, Proper(m, h), NEW lines
  PROVE  Proper([m EXCEPT !.out = lines], h)
<1>1. IsMachine(m)
  BY SoundMachine
<1>2. Alike(m, [m EXCEPT !.out = lines])
  BY <1>1 DEF Alike, IsMachine, MachineFields
<1> QED BY <1>2, AlikeProper

LEMMA CdProper ==
  ASSUME NEW h, NEW m, Proper(m, h), NEW rest
  PROVE  Proper(Cd(m, rest), h)
<1>1. \A d : Proper([m EXCEPT !.cwd = d], h)
  BY CwdProper
<1>2. \A d : Proper(Return([m EXCEPT !.cwd = d], 0), h)
  BY <1>1, ReturnProper
<1>3. Proper(Return(m, 0), h)
  BY ReturnProper
<1>4. \A lines : Proper(Return(Emit(m, lines), 1), h)
  BY EmitProper, ReturnProper
<1> DEFINE home == Home[m.ctx.user]
<1>5. CASE rest = <<>>
  <2>1. Cd(m, rest) = Return(IF home \in Dirs THEN [m EXCEPT !.cwd = home] ELSE m, 0)
    BY <1>5 DEF Cd
  <2> HIDE DEF home
  <2> QED BY <1>2, <1>3, <2>1
<1>6. CASE rest # <<>> /\ rest[1].text \in Dirs
  <2>1. Cd(m, rest) = Return([m EXCEPT !.cwd = rest[1].text], 0)
    BY <1>6 DEF Cd
  <2> QED BY <1>2, <2>1
<1>7. CASE rest # <<>> /\ rest[1].text \notin Dirs
  <2>1. Cd(m, rest) = Return(Emit(m, << <<"No such file or directory">> >>), 1)
    BY <1>7 DEF Cd
  <2> QED BY <1>4, <2>1
<1> QED BY <1>5, <1>6, <1>7

LEMMA CatProper ==
  ASSUME NEW h, NEW m, Proper(m, h), NEW rest
  PROVE  Proper(Cat(m, rest), h)
<1>1. \A lines, code : Proper(Return(Emit(m, lines), code), h)
  BY EmitProper, ReturnProper
<1>2. \E lines, code : Cat(m, rest) = Return(Emit(m, lines), code)
  BY Zenon DEF Cat
<1> QED BY <1>1, <1>2

LEMMA FilterCmdProper ==
  ASSUME NEW h, NEW m, Proper(m, h), NEW args
  PROVE  Proper(FilterCmd(m, args), h)
<1>1. \A data, lines : Proper(Return(Emit(Tee(m, args, data), lines), 0), h)
  BY TeeProper, EmitProper, ReturnProper
<1>2. \E data, lines : FilterCmd(m, args) = Return(Emit(Tee(m, args, data), lines), 0)
  BY Zenon DEF FilterCmd
<1> QED BY <1>1, <1>2

LEMMA RunFilterProper ==
  ASSUME NEW h, NEW m, Proper(m, h), NEW args, IsFilter(args[1].text)
  PROVE  Proper(RunFilter(m, args), h)
<1>1. ~Clearing(args)
  BY DEF Clearing, IsFilter, Filters
<1>2. Proper(Ran(m, args), h)
  BY <1>1, RanProper
<1>3. Proper(Tee(Ran(m, args), args, m.out), h)
  BY <1>2, TeeProper
<1> DEFINE n == Tee(Ran(m, args), args, m.out)
           lines == Filtered(args, m.out)
<1>4. RunFilter(m, args) = [n EXCEPT !.out = lines]
  BY Zenon DEF RunFilter
<1> HIDE DEF n, lines
<1> QED BY <1>3, <1>4, OutProper DEF n

LEMMA TryProper ==
  ASSUME NEW h, NEW m, Proper(m, h), NEW possible, NEW after, possible => Proper(after, h)
  PROVE  Proper(Try(m, possible, after), h)
<1>1. Proper(Emit(m, << <<"cannot">> >>), h)
  BY EmitProper
<1>2. Proper(IF possible THEN after ELSE Emit(m, << <<"cannot">> >>), h)
  BY <1>1
<1> HIDE <1>1
<1> QED BY <1>2, ReturnProper DEF Try

LEMMA FileCommandsProper ==
  ASSUME NEW h, NEW m, Proper(m, h), NEW p, NEW q
  PROVE  Proper(Touch(m, p), h) /\ Proper(Rm(m, p), h) /\ Proper(Cp(m, p, q), h) /\ Proper(Mv(m, p, q), h)
<1>1. Proper(Touch(m, p), h)
  BY WriteProper, TryProper DEF Touch
<1>2. Proper(Rm(m, p), h)
  BY RemoveProper, TryProper DEF Rm
<1>3. Proper(Cp(m, p, q), h)
  BY WriteProper, TryProper DEF Cp
<1>4. Proper(Mv(m, p, q), h)
  <2> DEFINE n == WriteFile(m, q, Text(m, p))
  <2>1. Proper(n, h)
    BY WriteProper
  <2> HIDE DEF n
  <2>2. Writable(p) => Proper(RemoveFile(n, p), h)
    BY <2>1, RemoveProper
  <2> QED BY <2>2, TryProper DEF Mv, n
<1> QED BY <1>1, <1>2, <1>3, <1>4

LEMMA NetworkProper ==
  ASSUME NEW h, NEW m, Proper(m, h)
  PROVE  /\ \A rest : Proper(Wget(m, rest), h) /\ Proper(Nc(m, rest), h)
         /\ \A args : Proper(Curl(m, args), h)
<1>1. ASSUME NEW tool, NEW name PROVE Proper(Download(m, tool, name), h)
  <2> DEFINE told == Publish(m, [type |-> "download.attempt", tool |-> tool])
  <2>1. Proper(told, h)
    BY PublishProper
  <2> HIDE DEF told
  <2>2. \A lines : Proper(Emit(told, lines), h)
    BY <2>1, EmitProper
  <2>3. \A path, lines, said : Proper(Emit(WriteFile(told, path, lines), said), h)
    BY <2>1, WriteProper, EmitProper
  <2>4. \/ \E lines : Download(m, tool, name) = Emit(told, lines)
        \/ \E path, lines, said : Download(m, tool, name) = Emit(WriteFile(told, path, lines), said)
    BY Zenon DEF Download, told
  <2> QED BY <2>2, <2>3, <2>4
<1>2. \A tool, name : Proper(Return(Download(m, tool, name), 0), h)
  BY <1>1, ReturnProper
<1>3. ASSUME NEW rest PROVE Proper(Wget(m, rest), h)
  <2>1. \E name : Wget(m, rest) = Return(Download(m, "wget", name), 0)
    BY Zenon DEF Wget
  <2> QED BY <1>2, <2>1
<1>4. ASSUME NEW args PROVE Proper(Curl(m, args), h)
  <2>1. \E name : Curl(m, args) = Return(Download(m, "curl", name), 0)
    BY Zenon DEF Curl
  <2> QED BY <1>2, <2>1
<1>5. ASSUME NEW rest PROVE Proper(Nc(m, rest), h)
  <2>1. \A e, lines : Proper(Return(Emit(Publish(m, e), lines), 1), h)
    BY PublishProper, EmitProper, ReturnProper
  <2> QED BY <2>1, Zenon DEF Nc
<1> QED BY <1>3, <1>4, <1>5

\* Commands that run a line.
LEMMA SudoProper ==
  ASSUME NEW h, NEW m, Proper(m, h), NEW line
  PROVE  Proper(Sudo(m, line), h)
<1>1. \A l : Proper(Push(m, "sudo", l), h)
  BY PushProper DEF Plain
<1>2. Proper(Return(m, 0), h)
  BY ReturnProper
<1>3. \A lines : Proper(Return(Emit(m, lines), 0), h)
  BY EmitProper, ReturnProper
<1>4. ~TooDeep(m) => Proper(ExecuteAs(Reentered(m, "sudoRan"), "root", m.ctx.depth + 1, line), h)
  BY ReenteredProper
<1> DEFINE leading == line # <<>> /\ line[1].op = "call" /\ ~line[1].neg
                        /\ line[1].words[1].text = "sudo"
           more == leading /\ Len(line[1].words) > 1
           nothing == line = <<>> \/ line = <<Call(<<Word("sudo")>>)>>
           a == Push(m, "sudo", line[1].words[2].body \o Tail(line))
           b == Return(Emit(m, << <<"too many levels of nested sudo">> >>), 0)
           c == ExecuteAs(Reentered(m, "sudoRan"), "root", m.ctx.depth + 1, line)
<1>5. Sudo(m, line) = CASE more -> a [] ~more /\ nothing -> Return(m, 0)
                        [] ~more /\ ~nothing /\ TooDeep(m) -> b [] OTHER -> c
  BY DEF Sudo
<1>6. Proper(a, h) /\ Proper(b, h) /\ (~TooDeep(m) => Proper(c, h))
  BY <1>1, <1>3, <1>4
<1> HIDE DEF more, nothing, a, b, c
<1> QED BY <1>2, <1>5, <1>6

LEMMA BackProper ==
  ASSUME NEW h, NEW m, Proper(m, h), NEW kept
  PROVE  Proper(SudoRan(m, kept), h) /\ Proper(Interpreted(m, kept), h) /\ Proper(Substituted(m, kept), h)
<1>1. IsMachine(m)
  BY SoundMachine
<1>2. Alike(m, SudoRan(m, kept))
  BY <1>1 DEF Alike, IsMachine, MachineFields, SudoRan
<1>3. Alike(m, Interpreted(m, kept))
  BY <1>1 DEF Alike, IsMachine, MachineFields, Interpreted
<1>4. Alike(m, Substituted(m, kept))
  <2> DEFINE words == FlattenSeq(m.out)
             args == kept.args \o [i \in DOMAIN words |-> [text |-> words[i], body |-> <<>>]]
  <2>1. Substituted(m, kept) = [m EXCEPT !.args = args, !.ok = TRUE, !.cwd = kept.cwd,
                                         !.code = kept.code, !.out = kept.out]
    BY Zenon DEF Substituted
  <2> HIDE DEF args
  <2> QED BY <1>1, <2>1 DEF Alike, IsMachine, MachineFields
<1> QED BY <1>2, <1>3, <1>4, AlikeProper

LEMMA InterpreterProper ==
  ASSUME NEW h, NEW m, Proper(m, h), NEW rest
  PROVE  Proper(RunInterpreter(m, rest), h)
<1> DEFINE inline == Len(rest) > 1 /\ rest[1].text = "-c" /\ rest[2].body # <<>>
           b == Return(Emit(m, << <<"too many nested interpreter levels">> >>), 1)
           c == ExecuteAs(Reentered(m, "interpreted"), m.ctx.user, m.ctx.depth + 1, rest[2].body)
<1>1. RunInterpreter(m, rest) = CASE ~inline -> Return(m, 0) [] inline /\ TooDeep(m) -> b [] OTHER -> c
  BY DEF RunInterpreter
<1>2. Proper(Return(m, 0), h) /\ Proper(b, h)
  BY ReturnProper, EmitProper
<1>3. ~TooDeep(m) => Proper(c, h)
  BY ReenteredProper
<1> HIDE DEF inline, b, c
<1> QED BY <1>1, <1>2, <1>3

LEMMA ExecOneProper ==
  ASSUME NEW h, NEW before, Proper(before, h), NEW args
  PROVE  Proper(ExecOne(before, args), h)
<1> DEFINE bin == args[1].text
           rest == Tail(args)
           m == Ran(before, args)
           on(i) == Path(m, rest[i].text)
<1>1. CASE bin = "history"
  <2>1. ExecOne(before, args) = History(m, args)
    BY <1>1 DEF ExecOne, Filters
  <2> QED BY <1>1, <2>1, HistoryProper
<1>2. CASE bin # "history"
  <2>1. Proper(m, h)
    BY <1>2, RanProper DEF Clearing
  <2> DEFINE pwd == Return(Emit(m, << <<m.cwd>> >>), 0)
             echo == Return(Emit(m, << [i \in DOMAIN rest |-> rest[i].text] >>), 0)
             whoami == Return(Emit(m, << <<m.ctx.user>> >>), 0)
             usage == Return(Emit(m, << <<"usage: sudo">> >>), 0)
             unknown == Return(Emit(m, << <<"command not found">> >>), 127)
             touch == Touch(m, on(1))
             rm == Rm(m, on(1))
             cp == Cp(m, on(1), on(2))
             mv == Mv(m, on(1), on(2))
  <2>3. Proper(pwd, h) /\ Proper(echo, h) /\ Proper(whoami, h) /\ Proper(usage, h) /\ Proper(unknown, h)
    BY <2>1, EmitProper, ReturnProper
  <2>4. Proper(touch, h) /\ Proper(rm, h) /\ Proper(cp, h) /\ Proper(mv, h)
    BY <2>1, FileCommandsProper
  <2> HIDE DEF pwd, echo, whoami, usage, unknown, touch, rm, cp, mv, m, rest
  <2>5. Proper(Wget(m, rest), h) /\ Proper(Curl(m, args), h) /\ Proper(Nc(m, rest), h)
    BY <2>1, NetworkProper
  <2>6. Proper(Cd(m, rest), h) /\ Proper(Cat(m, rest), h) /\ Proper(FilterCmd(m, args), h)
    BY <2>1, CdProper, CatProper, FilterCmdProper
  <2>7. Proper(Return(m, 0), h) /\ Proper(Return(m, 1), h)
    BY <2>1, ReturnProper
  <2>8. Proper(Sudo(m, rest[1].body), h) /\ Proper(RunInterpreter(m, rest), h)
    BY <2>1, SudoProper, InterpreterProper
  <2> QED BY <1>2, <2>3, <2>4, <2>5, <2>6, <2>7, <2>8
          DEF ExecOne, pwd, echo, whoami, usage, unknown, touch, rm, cp, mv, m, rest
<1> QED BY <1>1, <1>2

\* Words.
LEMMA PushRestProper ==
  ASSUME NEW h, NEW m, Proper(m, h), NEW do \in Plain, NEW list
  PROVE  Proper(PushRest(m, do, list), h)
<1>1. Proper(Push(m, do, Tail(list)), h)
  BY PushProper
<1> QED BY <1>1 DEF PushRest

LEMMA FieldsProper ==
  ASSUME NEW h, NEW m, Proper(m, h), NEW words
  PROVE  Proper(Fields(m, words), h)
<1> DEFINE n == [m EXCEPT !.args = <<>>, !.ok = TRUE]
<1>1. IsMachine(m)
  BY SoundMachine
<1>2. Alike(m, n)
  BY <1>1 DEF Alike, IsMachine, MachineFields
<1>3. Fields(m, words) = Push(n, "words", words)
  BY Zenon DEF Fields
<1> HIDE DEF n
<1>4. Proper(n, h)
  BY <1>2, AlikeProper
<1> QED BY <1>3, <1>4, PushProper DEF Plain

LEMMA WordsProper ==
  ASSUME NEW h, NEW m, Proper(m, h), NEW words
  PROVE  Proper(Words(m, words), h)
<1>1. ASSUME NEW n, Proper(n, h), NEW w PROVE Proper(ExpandWord(n, w), h)
  <2>1. IsMachine(n)
    BY <1>1, SoundMachine
  <2>2. ASSUME NEW text, NEW body PROVE Proper(Field(n, text, body), h)
    <3>1. Alike(n, Field(n, text, body))
      BY <2>1 DEF Alike, IsMachine, MachineFields, Field
    <3> QED BY <1>1, <3>1, AlikeProper
  <2> DEFINE failed == [n EXCEPT !.ok = FALSE]
             a == Push([n EXCEPT !.out = <<>>], "substituted", Kept(n))
             b == Push(Deeper(a), "subst", [line |-> w.body, cwd |-> n.cwd])
             s == Field(n, ToString(n.ctx.last), <<>>)
             u == Field(n, n.ctx.user, <<>>)
             l == Field(n, w.text, w.body)
  <2>3. Proper(failed, h)
    <3>1. Alike(n, failed)
      BY <2>1 DEF Alike, IsMachine, MachineFields
    <3> QED BY <1>1, <3>1, AlikeProper
  <2>4. Proper(s, h) /\ Proper(u, h) /\ Proper(l, h)
    BY <2>2
  <2>5. ~TooDeep(n) => Proper(b, h)
    <3> DEFINE k == [n EXCEPT !.out = <<>>]
    <3>1. Proper(k, h) /\ k.ctx = n.ctx /\ IsMachine(k)
      <4>1. Alike(n, k)
        BY <2>1 DEF Alike, IsMachine, MachineFields
      <4> QED BY <1>1, <4>1, AlikeProper DEF Alike
    <3>2. a = Push(k, "substituted", Kept(n))
      OBVIOUS
    <3> HIDE DEF k
    <3>3. a.ctx = n.ctx
      <4>1. Push(k, "substituted", Kept(n)).ctx = k.ctx
        <5>1. IsMachine(k)
          BY <3>1
        <5> QED BY <5>1 DEF Push, IsMachine, MachineFields
      <4>2. k.ctx = n.ctx
        BY <3>1
      <4> QED BY <3>2, <4>1, <4>2, Zenon
    <3>4. Proper(a, h)
      BY <3>1, <3>2, PushProper DEF Plain
    <3> HIDE DEF a
    <3>5. ~TooDeep(n) => Proper(Deeper(a), h)
      BY <3>3, <3>4, DeeperProper DEF TooDeep
    <3> QED BY <3>5, PushProper DEF Plain
  <2>6. ExpandWord(n, w) =
          CASE ~n.ok -> n [] n.ok /\ w.kind = "lit" -> l [] n.ok /\ w.kind = "status" -> s
            [] n.ok /\ w.kind = "user" -> u
            [] n.ok /\ w.kind \notin {"lit", "status", "user"} /\ TooDeep(n) -> failed
            [] OTHER -> b
    BY DEF ExpandWord
  <2> HIDE DEF failed, a, b, s, u, l
  <2>7. ExpandWord(n, w) \in {n, l, s, u, failed} \/ (~TooDeep(n) /\ ExpandWord(n, w) = b)
    BY <2>6
  <2> QED BY <1>1, <2>3, <2>4, <2>5, <2>7
<1>2. Proper(PushRest(m, "words", words), h)
  BY PushRestProper DEF Plain
<1> QED BY <1>1, <1>2 DEF Words

LEMMA SubstRunProper ==
  ASSUME NEW h, NEW m, Proper(m, h), NEW x
  PROVE  Proper(SubstRun(m, x), h)
<1> DEFINE k == [m EXCEPT !.cwd = x.cwd]
           y == [x EXCEPT !.line = Tail(@)]
           n == Push(Push(Push(k, "subst", y), "cap", <<>>), "stmt", x.line[1])
<1>1. Proper(k, h)
  BY CwdProper
<1> HIDE DEF k, y
<1>2. Proper(n, h)
  BY <1>1, PushProper DEF Plain
<1> HIDE DEF n
<1>3. SubstRun(m, x) = m \/ SubstRun(m, x) = n
  BY Zenon DEF SubstRun, n, k, y
<1> QED BY <1>2, <1>3

LEMMA RedirectsProper ==
  ASSUME NEW h, NEW m, Proper(m, h), NEW x
  PROVE  Proper(Redirects(m, x), h)
<1> DEFINE y == [x EXCEPT !.redirs = Tail(@)]
           z == [append |-> x.redirs[1].append, prefix |-> x.prefix]
           n == Fields(Push(Push(m, "redirects", y), "redirect", z), <<x.redirs[1].word>>)
<1> HIDE DEF y, z
<1>1. Proper(n, h)
  BY PushProper, FieldsProper DEF Plain
<1> HIDE DEF n
<1>2. Redirects(m, x) = m \/ Redirects(m, x) = n
  BY Zenon DEF Redirects, n, y, z
<1> QED BY <1>1, <1>2

LEMMA RedirectProper ==
  ASSUME NEW h, NEW m, Proper(m, h), NEW x
  PROVE  Proper(Redirect(m, x), h)
<1> DEFINE path == Path(m, m.args[1].text)
           added == SubSeq(m.out, x.prefix + 1, Len(m.out))
           kept == [m EXCEPT !.out = Prefix(@, x.prefix)]
           wrote == IF x.append THEN AppendFile(kept, path, added) ELSE WriteFile(kept, path, added)
           said == IF Writable(path) THEN wrote ELSE Emit(wrote, << <<"Operation not permitted">> >>)
           n == Publish(said, [type |-> "file.written", path |-> path])
<1>1. Proper(kept, h)
  BY OutProper
<1> HIDE DEF kept, path, added
<1>2. Proper(wrote, h)
  BY <1>1, AppendFileProper, WriteProper
<1> HIDE DEF wrote
<1>3. Proper(said, h)
  BY <1>2, EmitProper
<1> HIDE DEF said
<1>4. Proper(n, h)
  BY <1>3, PublishProper
<1> HIDE DEF n
<1>5. Redirect(m, x) = m \/ Redirect(m, x) = n
  BY Zenon DEF Redirect, n, said, wrote, kept, path, added
<1> QED BY <1>4, <1>5

LEMMA CallProper ==
  ASSUME NEW h, NEW m, Proper(m, h), NEW call
  PROVE  Proper(RunCall(m, call), h) /\ Proper(Invoke(m, call), h)
<1>1. Proper(RunCall(m, call), h)
  BY PushProper, FieldsProper DEF RunCall, Plain
<1>2. Proper(Invoke(m, call), h)
  <2> DEFINE p == Push(m, "redirects", [redirs |-> call, prefix |-> Len(m.out)])
  <2>1. Proper(p, h)
    BY PushProper DEF Plain
  <2>2. Proper(Return(m, 0), h)
    BY ReturnProper
  <2> HIDE DEF p
  <2>3. Proper(ExecOne(p, m.args), h) /\ Proper(ExecOne(m, m.args), h)
    BY <2>1, ExecOneProper
  <2>4. Invoke(m, call) \in {Return(m, 0), ExecOne(p, m.args), ExecOne(m, m.args)}
    BY DEF Invoke, p
  <2> QED BY <2>2, <2>3, <2>4
<1> QED BY <1>1, <1>2

\* Statements.
LEMMA PipeProper ==
  ASSUME NEW h, NEW m, Proper(m, h), NEW x
  PROVE  Proper(RunPipeChain(m, x), h) /\ Proper(PipeCmds(m, x), h) /\ Proper(PipeCall(m, x), h) /\ Proper(Piped(m, x), h)
<1>1. IsMachine(m)
  BY SoundMachine
<1>2. Proper(RunPipeChain(m, x), h)
  <2> DEFINE k == [m EXCEPT !.out = <<>>, !.code = 0]
             y == [s |-> x, first |-> TRUE]
  <2>1. Alike(m, k)
    BY <1>1 DEF Alike, IsMachine, MachineFields
  <2>2. RunPipeChain(m, x) = Push(Push(k, "piped", m.out), "pipe", y)
    BY Zenon DEF RunPipeChain
  <2> HIDE DEF k, y
  <2>3. Proper(k, h)
    BY <2>1, AlikeProper
  <2>4. Proper(Push(k, "piped", m.out), h)
    BY <2>3, PushProper DEF Plain
  <2> QED BY <2>2, <2>4, PushProper DEF Plain
<1>3. Proper(PipeCmds(m, x), h)
  <2> DEFINE y == [s |-> x.s.y, first |-> FALSE]
             z == [x EXCEPT !.s = @.x]
             a == Push(Push(m, "pipe", y), "pipe", z)
             b == Fields(Push(m, "pipeCall", x), x.s.words)
  <2> HIDE DEF y, z
  <2>1. Proper(a, h) /\ Proper(b, h)
    BY PushProper, FieldsProper DEF Plain
  <2> HIDE DEF a, b
  <2>2. PipeCmds(m, x) = CASE x.s.op = "pipe" -> a [] x.s.op = "call" -> b [] OTHER -> m
    BY DEF PipeCmds, a, b, y, z
  <2> QED BY <2>1, <2>2
<1>4. Proper(PipeCall(m, x), h)
  <2>1. Proper(RunCall(m, x.s), h)
    BY CallProper
  <2>2. IsFilter(m.args[1].text) => Proper(RunFilter(m, m.args), h)
    BY RunFilterProper
  <2> QED BY <2>1, <2>2 DEF PipeCall
<1>5. Proper(Piped(m, x), h)
  <2> DEFINE k == [m EXCEPT !.out = x \o @]
  <2>1. Alike(m, k)
    BY <1>1 DEF Alike, IsMachine, MachineFields
  <2>2. Piped(m, x) = CapOut(k)
    BY Zenon DEF Piped
  <2> HIDE DEF k
  <2> QED BY <2>1, <2>2, AlikeProper, CapOutProper
<1> QED BY <1>2, <1>3, <1>4, <1>5

LEMMA SecondProper ==
  ASSUME NEW h, NEW m, Proper(m, h), NEW s
  PROVE  Proper(Second(m, s), h)
<1>1. Proper(Push(m, "stmt", s.y), h)
  BY PushProper DEF Plain
<1> QED BY <1>1 DEF Second

LEMMA ReturnContext ==
  ASSUME NEW m, IsMachine(m), NEW code
  PROVE  Return(m, code).ctx = m.ctx
BY DEF Return, IsMachine, MachineFields

LEMMA StmtProper ==
  ASSUME NEW h, NEW m, Proper(m, h), NEW s
  PROVE  Proper(RunStmt(m, s), h)
<1> DEFINE p == Push(m, "flip", <<>>)
           r == IF s.neg THEN p ELSE m
           a == Push(m, "stmt", s.x)
           b == RunPipeChain(r, s)
           c == Push(Push(r, "second", s), "stmt", s.x)
           d == RunCall(r, s)
           e == Push(Deeper(Return(r, 0)), "stmts", s.body)
<1>1. IsMachine(m)
  BY SoundMachine
<1>2. Proper(p, h) /\ Proper(a, h)
  BY PushProper DEF Plain
<1>3. p.ctx = m.ctx
  BY <1>1 DEF Push, IsMachine, MachineFields
<1> HIDE DEF p
<1>4. Proper(r, h) /\ r.ctx = m.ctx
  BY <1>2, <1>3
<1> HIDE DEF r
<1>5. IsMachine(r)
  BY <1>4, SoundMachine
<1>6. Proper(b, h)
  BY <1>4, PipeProper
<1>7. Proper(c, h)
  BY <1>4, PushProper DEF Plain
<1>8. Proper(d, h)
  BY <1>4, CallProper
<1>9. Proper(Return(r, 0), h) /\ Proper(Return(m, 1), h)
  BY <1>4, ReturnProper
<1>10. ~TooDeep(m) => Proper(e, h)
  <2>1. Return(r, 0).ctx = m.ctx
    BY <1>4, <1>5, ReturnContext
  <2>2. ~TooDeep(m) => Proper(Deeper(Return(r, 0)), h)
    BY <1>9, <2>1, DeeperProper DEF TooDeep
  <2> QED BY <2>2, PushProper DEF Plain
<1>11. RunStmt(m, s) =
         CASE s.op = "background" -> a [] s.op = "pipe" -> b [] s.op \in {"and", "or"} -> c
           [] s.op = "call" -> d [] s.op = "subshell" /\ TooDeep(m) -> Return(m, 1)
           [] s.op = "subshell" /\ ~TooDeep(m) -> e [] OTHER -> Return(r, 0)
  BY DEF RunStmt, r, p
<1> HIDE DEF a, b, c, d, e
<1> QED BY <1>2, <1>6, <1>7, <1>8, <1>9, <1>10, <1>11

LEMMA ListsProper ==
  ASSUME NEW h, NEW m, Proper(m, h), NEW x
  PROVE  /\ Proper(Stmts(m, x), h) /\ Proper(RunAST(m, x), h)
         /\ Proper(RunSequence(m, x), h) /\ Proper(RunAndOr(m, x), h)
         /\ Proper(AfterToken(m, x), h) /\ Proper(ExecPipeline(m, x), h)
<1>1. Proper(Stmts(m, x), h)
  <2>1. Proper(RunStmt(PushRest(m, "stmts", x), x[1]), h)
    BY PushRestProper, StmtProper DEF Plain
  <2> QED BY <2>1 DEF Stmts
<1>2. Proper(RunAST(m, x), h)
  <2>1. Proper(PushRest(m, "ast", x), h)
    BY PushRestProper DEF Plain
  <2>2. Proper(RunStmt(Push(PushRest(m, "ast", x), "cap", <<>>), x[1]), h)
    BY <2>1, PushProper, StmtProper DEF Plain
  <2> QED BY <2>2 DEF RunAST
<1>3. Proper(RunSequence(m, x), h)
  <2>1. Proper(PushRest(m, "sequence", x), h)
    BY PushRestProper DEF Plain
  <2>2. Proper(Push(PushRest(m, "sequence", x), "andOr", x[1]), h)
    BY <2>1, PushProper DEF Plain
  <2> QED BY <2>2 DEF RunSequence
<1>4. ASSUME NEW n, Proper(n, h), NEW y PROVE Proper(RunAndOr(n, y), h)
  <2>1. Proper(Push(Push(n, "token", y), "pipeline", y[1].cmds), h)
    BY <1>4, PushProper DEF Plain
  <2> QED BY <1>4, <2>1 DEF RunAndOr
<1>5. Proper(AfterToken(m, x), h)
  <2>1. Proper(CapOut(m), h)
    BY CapOutProper
  <2>2. Proper(RunAndOr(CapOut(m), Tail(x)), h)
    BY <1>4, <2>1
  <2> QED BY <2>1, <2>2 DEF AfterToken
<1>6. Proper(ExecPipeline(m, x), h)
  <2>1. Proper(PushRest(m, "pipeline", x), h)
    BY PushRestProper DEF Plain
  <2>2. Proper(ExecOne(PushRest(m, "pipeline", x), x[1]), h)
    BY <2>1, ExecOneProper
  <2> QED BY <2>2 DEF ExecPipeline
<1> QED BY <1>1, <1>2, <1>3, <1>4, <1>5, <1>6

LEMMA LineEndsProper ==
  ASSUME NEW h, NEW m, Proper(m, h), NEW cwd
  PROVE  Proper(LineEnds(m, cwd), h)
<1> DEFINE k == [m EXCEPT !.out = LimitOutput(@), !.last = m.code]
           e == [type |-> "command.executed", user |-> m.ctx.user, cwd |-> cwd, code |-> m.code]
<1>1. IsMachine(m)
  BY SoundMachine
<1>2. Alike(m, k)
  BY <1>1 DEF Alike, IsMachine, MachineFields
<1>3. LineEnds(m, cwd) = Publish(k, e)
  BY Zenon DEF LineEnds
<1> HIDE DEF k, e
<1> QED BY <1>2, <1>3, AlikeProper, PublishProper

---------------------------------------------------------------------------
(* The history: what is left of the lines typed when a line that repeats the   *)
(* one before is dropped, and then all but the last MaxHistory.                *)

Recent(lines) ==
  LET told == Uniq(lines)
      n == IF Len(told) < MaxHistory THEN Len(told) ELSE MaxHistory
  IN  SubSeq(told, Len(told) - n + 1, Len(told))

\* Induction on the naturals, for a set.
LEMMA Induction ==
  ASSUME NEW X, 0 \in X, \A i \in Nat : i \in X => i + 1 \in X
  PROVE  \A i \in Nat : i \in X
<1> DEFINE Y == Nat \ X
<1> SUFFICES ASSUME Y # {} PROVE FALSE
  OBVIOUS
<1>1. PICK m \in Y : \A y \in Y : ~ <<y, m>> \in OpToRel(<, Nat)
  <2>1. Y \subseteq Nat
    OBVIOUS
  <2> HIDE DEF Y
  <2> QED BY <2>1, NatLessThanWellFounded, WFMin
<1>2. \A y \in Y : ~ y < m
  BY <1>1 DEF OpToRel
<1>3. m - 1 \in Nat /\ m - 1 \in X /\ (m - 1) + 1 = m
  BY <1>2
<1> QED BY <1>3

\* The loop of Uniq as an iteration.
Loop(u, lines) ==
  /\ u[0] = <<>>
  /\ \A i \in 1 .. Len(lines) : u[i] = Unrepeated(u[i - 1], lines[i])

LEMMA UniqLoop ==
  ASSUME NEW lines, Len(lines) \in Nat
  PROVE  \E u : Loop(u, lines) /\ Uniq(lines) = u[Len(lines)]
<1> DEFINE F(f, n) == [i \in 0 .. n |-> IF i = 0 THEN <<>> ELSE Unrepeated(f[i - 1], lines[i])]
           X == {n \in Nat : \E f : f = F(f, n)}
<1>1. 0 \in X
  <2>1. [i \in 0 .. 0 |-> <<>>] = F([i \in 0 .. 0 |-> <<>>], 0)
    OBVIOUS
  <2> QED BY <2>1
<1>2. ASSUME NEW n \in Nat, n \in X PROVE n + 1 \in X
  <2>1. PICK f : f = F(f, n)
    BY <1>2
  <2> DEFINE last == Unrepeated(f[n], lines[n + 1])
             g == [i \in 0 .. (n + 1) |-> IF i = n + 1 THEN last ELSE f[i]]
  <2>2. \A i \in 0 .. n : g[i] = f[i]
    OBVIOUS
  <2>3. g[n + 1] = last
    OBVIOUS
  <2>4. ASSUME NEW i \in 0 .. (n + 1) PROVE g[i] = F(g, n + 1)[i]
    <3> HIDE DEF last, g
    <3>1. CASE i = 0
      <4>1. g[0] = f[0] /\ f[0] = F(f, n)[0]
        BY <2>1, <2>2
      <4> QED BY <3>1, <4>1
    <3>2. CASE i \in 1 .. n
      <4>1. g[i] = f[i] /\ f[i] = F(f, n)[i] /\ g[i - 1] = f[i - 1]
        BY <2>1, <2>2, <3>2
      <4> QED BY <3>2, <4>1
    <3>3. CASE i = n + 1
      <4>1. g[(n + 1) - 1] = f[n]
        BY <2>2
      <4> QED BY <2>3, <3>3, <4>1 DEF last
    <3> QED BY <3>1, <3>2, <3>3
  <2>5. g = F(g, n + 1)
    <3>1. g = [i \in 0 .. (n + 1) |-> g[i]]
      OBVIOUS
    <3>2. F(g, n + 1) = [i \in 0 .. (n + 1) |-> F(g, n + 1)[i]]
      OBVIOUS
    <3> DEFINE h == F(g, n + 1)
    <3> HIDE DEF h
    <3>3. h = [i \in 0 .. (n + 1) |-> h[i]] /\ \A i \in 0 .. (n + 1) : g[i] = h[i]
      BY <2>4, <3>2 DEF h
    <3> HIDE DEF g
    <3>4. g = h
      BY <3>1, <3>3
    <3> HIDE DEF F
    <3> QED BY <3>4 DEF h
  <2> HIDE DEF g
  <2> QED BY <2>5
<1>3. Len(lines) \in X
  <2> HIDE DEF X
  <2> QED BY <1>1, <1>2, Induction
<1> DEFINE u == CHOOSE f : f = F(f, Len(lines))
<1>4. u = F(u, Len(lines))
  BY <1>3
<1>5. Uniq(lines) = u[Len(lines)]
  BY DEF Uniq
<1> HIDE DEF u
<1>6. u[0] = <<>> /\ \A i \in 1 .. Len(lines) : u[i] = Unrepeated(u[i - 1], lines[i])
  BY <1>4
<1> QED BY <1>5, <1>6 DEF Loop

LEMMA UniqAppend ==
  ASSUME NEW S, NEW lines \in Seq(S), NEW x \in S
  PROVE  /\ Uniq(lines) \in Seq(S)
         /\ Uniq(Append(lines, x)) = Unrepeated(Uniq(lines), x)
<1> DEFINE L == Len(lines)
           more == Append(lines, x)
<1>1. L \in Nat /\ Len(more) = L + 1 /\ more[L + 1] = x /\ \A i \in 1 .. L : more[i] = lines[i]
  OBVIOUS
<1> HIDE DEF more
<1>2. PICK a : Loop(a, lines) /\ Uniq(lines) = a[L]
  BY <1>1, UniqLoop
<1>3. PICK b : Loop(b, more) /\ Uniq(more) = b[L + 1]
  BY <1>1, UniqLoop
<1> DEFINE X == {i \in Nat : i <= L => a[i] \in Seq(S) /\ b[i] = a[i]}
<1>4. 0 \in X
  <2>1. a[0] = <<>> /\ b[0] = <<>>
    BY <1>2, <1>3 DEF Loop
  <2>2. <<>> \in Seq(S)
    OBVIOUS
  <2> QED BY <2>1, <2>2
<1>5. ASSUME NEW i \in Nat, i \in X PROVE i + 1 \in X
  <2> SUFFICES ASSUME i + 1 <= L PROVE a[i + 1] \in Seq(S) /\ b[i + 1] = a[i + 1]
    OBVIOUS
  <2>1. /\ i + 1 \in 1 .. L /\ i + 1 \in 1 .. L + 1 /\ (i + 1) - 1 = i
        /\ a[i] \in Seq(S) /\ b[i] = a[i]
    BY <1>1, <1>5
  <2>2. a[i + 1] = Unrepeated(a[i], lines[i + 1])
    BY <1>2, <2>1 DEF Loop
  <2>3. b[i + 1] = Unrepeated(b[i], more[i + 1])
    BY <1>1, <1>3, <2>1 DEF Loop
  <2>4. lines[i + 1] \in S /\ more[i + 1] = lines[i + 1]
    BY <1>1, <2>1
  <2>5. Unrepeated(a[i], lines[i + 1]) \in Seq(S)
    BY <2>1, <2>4 DEF Unrepeated
  <2> QED BY <2>1, <2>2, <2>3, <2>4, <2>5
<1>6. L \in X
  <2> HIDE DEF X
  <2> QED BY <1>1, <1>4, <1>5, Induction
<1>7. a[L] \in Seq(S) /\ b[L] = a[L]
  BY <1>1, <1>6
<1>8. b[L + 1] = Unrepeated(b[L], x)
  BY <1>1, <1>3 DEF Loop
<1> QED BY <1>2, <1>3, <1>7, <1>8 DEF more

LEMMA UniqEmpty == Uniq(<<>>) = <<>>
<1>1. PICK u : Loop(u, <<>>) /\ Uniq(<<>>) = u[Len(<<>>)]
  <2>1. Len(<<>>) \in Nat
    OBVIOUS
  <2> QED BY <2>1, UniqLoop
<1> QED BY <1>1 DEF Loop

\* AddHistory keeps the recent lines.
LEMMA RecentAppend ==
  ASSUME NEW S, NEW lines \in Seq(S), NEW x \in S
  PROVE  Recent(Append(lines, x)) = AddHistory(Recent(lines), x)
<1> DEFINE l == Uniq(lines)
           L == Len(l)
           n == IF L < MaxHistory THEN L ELSE MaxHistory
           r == SubSeq(l, L - n + 1, L)
<1>1. l \in Seq(S) /\ Uniq(Append(lines, x)) = Unrepeated(l, x)
  BY UniqAppend
<1>2. Recent(lines) = r
  BY DEF Recent
<1>3. MaxHistory \in Nat \ {0}
  BY ShellAssumption
<1> HIDE DEF l
<1>4. L \in Nat /\ n \in 0 .. L
  BY <1>1, <1>3
<1>5. r \in Seq(S) /\ Len(r) = n /\ \A i \in 1 .. n : r[i] = l[L - n + i]
  <2> HIDE DEF n
  <2>1. L - n + 1 \in Int /\ L \in Int
    BY <1>4
  <2>2. \A i \in L - n + 1 .. L : l[i] \in S
    BY <1>1, <1>4
  <2>3. Len(r) = IF L - n + 1 <= L THEN L - (L - n + 1) + 1 ELSE 0
    BY <2>1, <2>2, SubSeqProperties
  <2>4. r \in Seq(S)
    BY <2>1, <2>2, SubSeqProperties
  <2>5. \A i \in 1 .. L - (L - n + 1) + 1 : r[i] = l[(L - n + 1) + i - 1]
    BY <2>1, <2>2, SubSeqProperties
  <2> QED BY <1>4, <2>3, <2>4, <2>5
<1>6. n > 0 => r # <<>> /\ l # <<>> /\ Last(r) = Last(l)
  <2> HIDE DEF n, r
  <2> SUFFICES ASSUME n > 0 PROVE r # <<>> /\ l # <<>> /\ Last(r) = Last(l)
    OBVIOUS
  <2>1. n \in 1 .. n /\ L - n + n = L
    BY <1>4
  <2>2. r[n] = l[L]
    BY <1>5, <2>1
  <2>3. r # <<>> /\ l # <<>>
    BY <1>1, <1>4, <1>5
  <2> QED BY <1>5, <2>2, <2>3 DEF Last
<1>7. CASE l # <<>> /\ Last(l) = x
  <2>1. n > 0
    BY <1>1, <1>3, <1>7
  <2>2. Unrepeated(l, x) = l
    BY <1>7 DEF Unrepeated
  <2>3. Recent(Append(lines, x)) = r
    BY <1>1, <2>2 DEF Recent
  <2>4. AddHistory(r, x) = r
    BY <1>6, <1>7, <2>1 DEF AddHistory
  <2> QED BY <1>2, <2>3, <2>4
<1>8. CASE ~(l # <<>> /\ Last(l) = x)
  <2> DEFINE k == Append(l, x)
             K == Len(k)
             m == IF K < MaxHistory THEN K ELSE MaxHistory
             q == SubSeq(k, K - m + 1, K)
             e == IF n = MaxHistory THEN Append(Tail(r), x) ELSE Append(r, x)
  <2>1. Unrepeated(l, x) = k
    BY <1>8 DEF Unrepeated
  <2>2. Recent(Append(lines, x)) = q
    BY <1>1, <2>1 DEF Recent
  <2>3. k \in Seq(S) /\ K = L + 1 /\ k[L + 1] = x /\ \A i \in 1 .. L : k[i] = l[i]
    BY <1>1
  <2> HIDE DEF k
  <2>4. m \in 0 .. K /\ m > 0 /\ m = IF n = MaxHistory THEN n ELSE n + 1
    BY <1>3, <1>4, <2>3
  <2>5. q \in Seq(S) /\ Len(q) = m /\ \A i \in 1 .. m : q[i] = k[K - m + i]
    <3> HIDE DEF m
    <3>1. K - m + 1 \in Int /\ K \in Int
      BY <1>4, <2>3, <2>4
    <3>2. \A i \in K - m + 1 .. K : k[i] \in S
      BY <1>4, <2>3, <2>4
    <3>3. Len(q) = IF K - m + 1 <= K THEN K - (K - m + 1) + 1 ELSE 0
      BY <3>1, <3>2, SubSeqProperties
    <3>4. q \in Seq(S)
      BY <3>1, <3>2, SubSeqProperties
    <3>5. \A i \in 1 .. K - (K - m + 1) + 1 : q[i] = k[(K - m + 1) + i - 1]
      BY <3>1, <3>2, SubSeqProperties
    <3>6. K \in Int /\ m \in Int /\ K - (K - m + 1) + 1 = m /\ K - m + 1 <= K
      BY <1>4, <2>3, <2>4
    <3>7. Len(q) = m
      BY <3>3, <3>6
    <3>8. \A i \in 1 .. m : q[i] = k[K - m + i]
      <4> TAKE i \in 1 .. m
      <4>1. (K - m + 1) + i - 1 = K - m + i
        BY <3>6
      <4>2. q[i] = k[(K - m + 1) + i - 1]
        BY <3>5, <3>6
      <4> QED BY <4>1, <4>2
    <3> QED BY <3>4, <3>7, <3>8
  <2>10. /\ n = MaxHistory => e = Append(Tail(r), x)
         /\ n # MaxHistory => e = Append(r, x)
    OBVIOUS
  <2> HIDE DEF m, q, n, r, L, e
  <2>6. e \in Seq(S) /\ Len(e) = m /\ \A i \in 1 .. m : e[i] = k[K - m + i]
    <3>1. CASE n = MaxHistory
      <4>1. r # <<>> /\ m = n /\ n > 0 /\ e = Append(Tail(r), x)
        <5>1. m = n /\ n > 0
          BY <1>3, <2>4, <3>1
        <5>2. r # <<>>
          BY <1>5, <5>1
        <5>3. e = Append(Tail(r), x)
          BY <2>10, <3>1
        <5> QED BY <5>1, <5>2, <5>3
      <4>2. Tail(r) \in Seq(S) /\ Len(Tail(r)) = n - 1 /\ \A i \in 1 .. n - 1 : Tail(r)[i] = r[i + 1]
        BY <1>5, <4>1
      <4>3. e \in Seq(S) /\ Len(e) = n /\ e[n] = x /\ \A i \in 1 .. n - 1 : e[i] = Tail(r)[i]
        <5> DEFINE y == Tail(r)
        <5>1. e = Append(y, x) /\ y \in Seq(S) /\ Len(y) = n - 1 /\ n \in Nat
          BY <1>4, <4>1, <4>2
        <5> HIDE DEF y
        <5>2. Append(y, x) \in Seq(S) /\ Len(Append(y, x)) = Len(y) + 1
          BY <5>1
        <5>3. Append(y, x)[Len(y) + 1] = x /\ \A i \in 1 .. Len(y) : Append(y, x)[i] = y[i]
          BY <5>1
        <5>4. Len(y) + 1 = n
          BY <5>1
        <5> QED BY <5>1, <5>2, <5>3, <5>4 DEF y
      <4>4. \A i \in 1 .. n - 1 : e[i] = k[K - m + i]
        <5> TAKE i \in 1 .. n - 1
        <5>1. e[i] = r[i + 1] /\ r[i + 1] = l[L - n + (i + 1)]
          BY <1>4, <1>5, <4>2, <4>3
        <5>2. L - n + (i + 1) \in 1 .. L /\ L - n + (i + 1) = K - m + i
          BY <1>4, <2>3, <4>1
        <5> QED BY <2>3, <5>1, <5>2
      <4>5. e[m] = k[K - m + m]
        BY <1>4, <2>3, <4>1, <4>3
      <4>6. \A i \in 1 .. m : e[i] = k[K - m + i]
        <5> TAKE i \in 1 .. m
        <5>1. i = m \/ i \in 1 .. n - 1
          BY <1>4, <4>1
        <5> QED BY <4>4, <4>5, <5>1
      <4> QED BY <4>1, <4>3, <4>6
    <3>2. CASE n # MaxHistory
      <4>1. m = n + 1 /\ e = Append(r, x) /\ n = L
        BY <1>3, <1>4, <2>4, <2>10, <3>2 DEF n
      <4>2. e \in Seq(S) /\ Len(e) = n + 1 /\ e[n + 1] = x /\ \A i \in 1 .. n : e[i] = r[i]
        BY <1>5, <4>1
      <4>3. \A i \in 1 .. n : e[i] = k[K - m + i]
        BY <1>4, <1>5, <2>3, <4>1, <4>2
      <4>4. e[m] = k[K - m + m]
        BY <1>4, <2>3, <4>1, <4>2
      <4>5. \A i \in 1 .. m : e[i] = k[K - m + i]
        <5> TAKE i \in 1 .. m
        <5>1. i = m \/ i \in 1 .. n
          BY <1>4, <4>1
        <5> QED BY <4>3, <4>4, <5>1
      <4> QED BY <4>1, <4>2, <4>5
    <3> QED BY <3>1, <3>2
  <2>7. q = e
    BY <2>4, <2>5, <2>6, SeqEqual
  <2>8. AddHistory(r, x) = e
    <3>1. ~(r # <<>> /\ Last(r) = x)
      <4>1. r # <<>> => n > 0
        BY <1>4, <1>5
      <4> QED BY <1>6, <1>8, <4>1
    <3>2. n = MaxHistory <=> Len(r) >= MaxHistory
      BY <1>3, <1>4, <1>5 DEF n
    <3>3. Len(r) >= MaxHistory => r # <<>>
      BY <1>3, <1>5
    <3> QED BY <3>1, <3>2, <3>3 DEF AddHistory, e
  <2> QED BY <1>2, <2>2, <2>7, <2>8
<1> QED BY <1>7, <1>8

LEMMA RecentFirst ==
  /\ Recent(<<>>) = <<>>
  /\ \A x : Recent(<<x>>) = AddHistory(<<>>, x)
<1>1. Recent(<<>>) = <<>>
  <2>1. SubSeq(<<>>, 1, 0) = <<>>
    OBVIOUS
  <2>2. Len(<<>>) = 0 /\ 0 < MaxHistory /\ 0 - 0 + 1 = 1
    BY ShellAssumption
  <2> QED BY <2>1, <2>2, UniqEmpty DEF Recent
<1>2. ASSUME NEW x PROVE Recent(<<x>>) = AddHistory(<<>>, x)
  <2>1. <<>> \in Seq({x}) /\ x \in {x} /\ Append(<<>>, x) = <<x>>
    OBVIOUS
  <2>2. Recent(Append(<<>>, x)) = AddHistory(Recent(<<>>), x)
    BY <2>1, RecentAppend
  <2> QED BY <1>1, <2>1, <2>2
<1> QED BY <1>1, <1>2

---------------------------------------------------------------------------
(* The invariant.  The files are guarded, and every session has a stack that   *)
(* fits and a history that is what it typed last.                              *)

SessionFits(m, lines) ==
  /\ Fits(m, Recent(lines))
  /\ m.todo = <<>> => m.steps = <<>>

ShellInv ==
  /\ KeepsLocked(file)
  /\ typed \in [Channels -> Seq(DOMAIN Tree)]
  /\ \A s \in Channels \ DOMAIN state : typed[s] = <<>>
  /\ state = [s \in DOMAIN state |-> state[s]] /\ DOMAIN state \subseteq Channels
  /\ \A s \in DOMAIN state : SessionFits(state[s], typed[s])

LEMMA InitInv == ShellInit => ShellInv
<1> SUFFICES ASSUME ShellInit PROVE ShellInv
  OBVIOUS
<1>1. KeepsLocked(file)
  BY ShellAssumption DEF ShellInit, KeepsLocked
<1>2. DOMAIN state = {} /\ state = [s \in DOMAIN state |-> state[s]]
  BY DEF ShellInit
<1>3. typed \in [Channels -> Seq(DOMAIN Tree)] /\ \A s \in Channels : typed[s] = <<>>
  <2>1. <<>> \in Seq(DOMAIN Tree)
    OBVIOUS
  <2> QED BY <2>1 DEF ShellInit
<1> QED BY <1>1, <1>2, <1>3 DEF ShellInv

LEMMA FileFits ==
  ASSUME NEW h, NEW m, Fits(m, h), NEW f
  PROVE  LET n == [m EXCEPT !.file = f]
         IN  Fits(n, h) /\ n.todo = m.todo /\ n.file = f
<1> DEFINE n == [m EXCEPT !.file = f]
<1>1. IsMachine(m)
  BY DEF Fits
<1>2. /\ IsMachine(n) /\ n.user = m.user /\ n.ctx = m.ctx /\ n.todo = m.todo /\ n.file = f
      /\ n.history = m.history /\ n.steps = m.steps
  BY <1>1 DEF IsMachine, MachineFields
<1> HIDE DEF n
<1>3. Clears(n) <=> Clears(m)
  BY <1>2 DEF Clears
<1>4. Fits(n, h)
  BY <1>2, <1>3, Zenon DEF Fits
<1> QED BY <1>2, <1>4 DEF n

\* One session's machine and what it typed change.
LEMMA SessionInv ==
  ASSUME ShellInv, NEW s \in DOMAIN state, NEW m, NEW lines \in Seq(DOMAIN Tree),
         SessionFits(m, lines), KeepsLocked(file'),
         state' = [state EXCEPT ![s] = m], typed' = [typed EXCEPT ![s] = lines]
  PROVE  ShellInv'
<1>1. s \in Channels
  BY DEF ShellInv
<1>2. DOMAIN state' = DOMAIN state /\ state' = [t \in DOMAIN state' |-> state'[t]]
  BY DEF ShellInv
<1>3. typed' \in [Channels -> Seq(DOMAIN Tree)]
  BY <1>1 DEF ShellInv
<1>4. state'[s] = m /\ typed'[s] = lines
  BY <1>1 DEF ShellInv
<1>5. \A t \in DOMAIN state : t # s => state'[t] = state[t] /\ typed'[t] = typed[t]
  BY <1>1 DEF ShellInv
<1>6. \A t \in DOMAIN state' : SessionFits(state'[t], typed'[t])
  BY <1>2, <1>4, <1>5 DEF ShellInv
<1>7. \A t \in Channels \ DOMAIN state' : typed'[t] = <<>>
  BY <1>1, <1>2 DEF ShellInv
<1> QED BY <1>1, <1>2, <1>3, <1>6, <1>7 DEF ShellInv

LEMMA BecomesInv ==
  ASSUME ShellInv, NEW s \in DOMAIN state, NEW m, Fits(m, Recent(typed[s])),
         m.todo # <<>>, KeepsLocked(m.file), Becomes(s, m), typed' = typed
  PROVE  ShellInv'
<1> DEFINE n == [m EXCEPT !.file = <<>>]
<1>1. Fits(n, Recent(typed[s])) /\ n.todo # <<>>
  BY FileFits
<1>2. file' = m.file /\ state' = [state EXCEPT ![s] = n]
  BY DEF Becomes
<1> HIDE DEF n
<1>3. SessionFits(n, typed[s])
  BY <1>1 DEF SessionFits
<1>4. typed[s] \in Seq(DOMAIN Tree) /\ typed' = [typed EXCEPT ![s] = typed[s]]
  BY DEF ShellInv
<1>5. KeepsLocked(file')
  BY <1>2
<1> QED BY <1>2, <1>3, <1>4, <1>5, SessionInv

\* A session that waits has an empty stack and its own context.
LEMMA EmptyFits ==
  /\ IsList(<<>>) /\ DOMAIN <<>> = {}
  /\ \A u : StackFits(u, Context(u), <<>>)
<1>1. <<>> \in Seq({}) /\ DOMAIN <<>> = {}
  OBVIOUS
<1>2. IsList(<<>>) /\ Beneath(<<>>, 0) = 0
  BY <1>1, SeqIsList, FS_EmptySet DEF Beneath
<1>3. \A u : IsContext(Context(u)) /\ Context(u).user = u /\ Context(u).depth = 0
  BY DEF IsContext, Context
<1>4. \A u : StackFits(u, Context(u), <<>>)
  BY <1>1, <1>2, <1>3, ShellAssumption DEF StackFits
<1> QED BY <1>1, <1>2, <1>4

\* Sessions come and go.
LEMMA OpenInv ==
  ASSUME ShellInv, NEW s \in Channels, NEW u, Open(s, u)
  PROVE  ShellInv'
<1> DEFINE cwd == IF Home[u] \in Dirs THEN Home[u] ELSE "/"
           m == Machine(u, cwd, 0, "", <<>>)
<1>1. /\ s \notin DOMAIN state
      /\ state' = [t \in DOMAIN state \cup {s} |-> IF t = s THEN m ELSE state[t]]
      /\ file' = file /\ typed' = typed
  BY DEF Open
<1>2. SessionFits(m, <<>>)
  <2>1. /\ IsMachine(m) /\ m.user = u /\ m.ctx = Context(u) /\ m.todo = <<>>
        /\ m.history = <<>> /\ m.steps = <<>>
    BY DEF Machine, IsMachine, MachineFields
  <2> HIDE DEF m
  <2>2. ~Clears(m) /\ IsList(m.steps) /\ StackFits(u, Context(u), <<>>)
    BY <2>1, EmptyFits DEF Clears
  <2> QED BY <2>1, <2>2, RecentFirst DEF SessionFits, Fits
<1> HIDE DEF m
<1>3. typed[s] = <<>>
  BY <1>1 DEF ShellInv
<1> QED BY <1>1, <1>2, <1>3 DEF ShellInv

LEMMA RemoveInv ==
  ASSUME ShellInv, NEW s \in DOMAIN state, RemoveSession(s), file' = file
  PROVE  ShellInv'
<1>1. /\ state' = [t \in DOMAIN state \ {s} |-> state[t]]
      /\ typed' = [typed EXCEPT ![s] = <<>>]
  <2>1. DOMAIN state \ {s} \subseteq DOMAIN state
    OBVIOUS
  <2> QED BY <2>1 DEF RemoveSession, Restrict
<1>2. <<>> \in Seq(DOMAIN Tree) /\ s \in Channels
  BY DEF ShellInv
<1>3. typed' \in [Channels -> Seq(DOMAIN Tree)] /\ typed'[s] = <<>>
      /\ \A t \in Channels : t # s => typed'[t] = typed[t]
  BY <1>1, <1>2 DEF ShellInv
<1>4. DOMAIN state' = DOMAIN state \ {s} /\ \A t \in DOMAIN state' : state'[t] = state[t]
  BY <1>1
<1>5. state' = [t \in DOMAIN state' |-> state'[t]]
  BY <1>1
<1> QED BY <1>2, <1>3, <1>4, <1>5 DEF ShellInv

\* A line starts: nothing is on the stack but what answers the client.
LEMMA ExecuteInv ==
  ASSUME ShellInv, NEW s \in Waiting, NEW raw \in DOMAIN Tree, NEW answer \in Answers,
         Execute(s, raw, answer)
  PROVE  ShellInv'
<1> DEFINE m == state[s]
           h == Recent(typed[s])
           k == Seen(s)
           x == [line |-> raw, cwd |-> state[s].cwd]
           f == Frame(answer, x)
           p == Push(k, answer, x)
           c == [user |-> m.user, depth |-> 0, last |-> p.last]
           n == [p EXCEPT !.ctx = c]
<1>1. s \in DOMAIN state /\ m.todo = <<>> /\ Fits(m, h) /\ m.steps = <<>>
  BY DEF Waiting, ShellInv, SessionFits
<1>2. /\ IsMachine(k) /\ k.user = m.user /\ k.todo = <<>> /\ k.file = file
      /\ k.history = m.history /\ k.steps = m.steps
  <2>1. IsMachine(m)
    BY <1>1 DEF Fits
  <2> HIDE DEF m
  <2>2. k = [m EXCEPT !.file = file]
    BY DEF Seen, m
  <2> HIDE DEF k
  <2> QED BY <1>1, <2>1, <2>2 DEF IsMachine, MachineFields
<1>3. <<f>> \o <<>> = <<f>>
  OBVIOUS
<1>4. f.do = answer /\ f.with.line = raw
  BY DEF Frame
<1> HIDE DEF f, k
<1>5. /\ IsMachine(p) /\ p.todo = <<f>> /\ p.user = m.user /\ p.file = file
      /\ p.history = m.history /\ p.steps = m.steps
  <2>1. /\ IsMachine(p) /\ p.todo = <<Frame(answer, x)>> \o k.todo /\ p.user = k.user
        /\ p.file = k.file /\ p.history = k.history /\ p.steps = k.steps
    <3>1. IsMachine(k)
      BY <1>2
    <3> HIDE DEF x
    <3> QED BY <3>1, PushedMachine
  <2> QED BY <1>2, <1>3, <2>1 DEF f
<1> HIDE DEF p
<1>6. /\ IsMachine(n) /\ n.todo = <<f>> /\ n.user = m.user /\ n.file = file
      /\ n.history = m.history /\ n.steps = m.steps /\ n.ctx = c
  BY <1>5 DEF IsMachine, MachineFields
<1>7. IsContext(c) /\ c.user = m.user /\ c.depth = 0
  BY DEF IsContext
<1> HIDE DEF n, c
<1>8. StackFits(m.user, c, <<f>>)
  <2>1. <<f>> \in Seq({f}) /\ DOMAIN <<f>> = {1} /\ <<f>>[1] = f /\ Len(<<f>>) = 1
    OBVIOUS
  <2>2. IsList(<<f>>)
    BY <2>1, SeqIsList
  <2>3. Beneath(<<f>>, 0) = 0
    <3>1. {j \in DOMAIN <<f>> : j > 0 /\ <<f>>[j].do \in Leaving} = {}
      BY <1>4, <2>1 DEF Answers, Leaving
    <3> QED BY <3>1, FS_EmptySet DEF Beneath
  <2>4. FrameFits(m.user, <<f>>, 1)
    BY <1>4, <2>1 DEF FrameFits, Answers
  <2> QED BY <1>7, <2>1, <2>2, <2>3, <2>4, ShellAssumption DEF StackFits
<1>9. Clears(n) <=> Clears(m)
  BY <1>6 DEF Clears
<1>10. Proper(n, h)
  <2>1. Fits(n, h)
    BY <1>1, <1>6, <1>8, <1>9, Zenon DEF Fits
  <2>2. Steady(n.todo)
    BY <1>4, <1>6 DEF Steady, Answers
  <2>3. KeepsLocked(n.file)
    BY <1>6 DEF ShellInv
  <2> QED BY <2>1, <2>2, <2>3 DEF Proper
<1>11. Proper(ExecuteAs(p, m.user, 0, Tree[raw]), h)
  BY <1>5, <1>10, ExecuteAsProper, Zenon DEF n, c
<1>12. Becomes(s, ExecuteAs(p, m.user, 0, Tree[raw])) /\ typed' = typed
  BY Zenon DEF Execute, p, k
<1> QED BY <1>1, <1>11, <1>12, BecomesInv DEF Proper, Steady

\* The frame on top is run.
LEMMA ProperInv ==
  ASSUME ShellInv, NEW s \in DOMAIN state, NEW m, Proper(m, Recent(typed[s])),
         Becomes(s, m), typed' = typed
  PROVE  ShellInv'
BY BecomesInv DEF Proper, Steady

\* The stack of an active session, and the machine that its top frame finds.
LEMMA ActiveFits ==
  ASSUME ShellInv, NEW s \in Active
  PROVE  /\ s \in DOMAIN state /\ state[s].todo # <<>> /\ Fits(state[s], Recent(typed[s]))
         /\ KeepsLocked(file) /\ Now(s) = state[s].todo[1] /\ IsList(state[s].todo)
<1>1. s \in DOMAIN state /\ state[s].todo # <<>>
  BY DEF Active, Waiting
<1>2. Fits(state[s], Recent(typed[s])) /\ KeepsLocked(file)
  BY <1>1 DEF ShellInv, SessionFits
<1>3. IsList(state[s].todo)
  BY <1>2 DEF Fits, StackFits
<1>4. Now(s) = state[s].todo[1]
  BY <1>1, <1>3, TailList DEF Now
<1> QED BY <1>1, <1>2, <1>3, <1>4

LEMMA NowProper ==
  ASSUME ShellInv, NEW s \in Active, Now(s).do \in Plain \cup {"sudoRan"}
  PROVE  Proper(Taken(state[s], file), Recent(typed[s]))
<1>1. /\ s \in DOMAIN state /\ state[s].todo # <<>> /\ Fits(state[s], Recent(typed[s]))
      /\ KeepsLocked(file) /\ Now(s) = state[s].todo[1]
  BY ActiveFits
<1>2. state[s].todo[1].do \notin Answers /\ state[s].todo[1].do \notin Leaving
  BY <1>1 DEF Plain, Answers, Leaving
<1> QED BY <1>1, <1>2, TakenProper

\* Lines, statements and pipes.
LEMMA StatementsInv ==
  ASSUME ShellInv, NEW s \in Active,
         \/ Run(s, "ast", RunAST)
         \/ Run(s, "stmt", RunStmt)
         \/ Run(s, "stmts", Stmts)
         \/ Run(s, "cap", LAMBDA m, x : CapOut(m))
         \/ Run(s, "flip", LAMBDA m, x : FlipCode(m))
         \/ Run(s, "second", Second)
         \/ Run(s, "pipe", PipeCmds)
         \/ Run(s, "pipeCall", PipeCall)
         \/ Run(s, "piped", Piped)
  PROVE  ShellInv'
<1> DEFINE n == Taken(state[s], file)
           w == Now(s).with
           h == Recent(typed[s])
<1>1. s \in DOMAIN state
  BY ActiveFits
<1>2. Now(s).do \in Plain \cup {"sudoRan"} => Proper(n, h)
  BY NowProper
<1>3. CASE Run(s, "ast", RunAST)
  <2>1. Now(s).do = "ast" /\ Becomes(s, RunAST(n, w)) /\ typed' = typed
    BY <1>3 DEF Run, Taken, Seen
  <2> HIDE DEF n, w, h
  <2>2. Proper(RunAST(n, w), h)
    BY <1>2, <2>1, ListsProper DEF Plain
  <2> QED BY <1>1, <2>1, <2>2, ProperInv DEF h
<1>4. CASE Run(s, "stmt", RunStmt)
  <2>1. Now(s).do = "stmt" /\ Becomes(s, RunStmt(n, w)) /\ typed' = typed
    BY <1>4 DEF Run, Taken, Seen
  <2> HIDE DEF n, w, h
  <2>2. Proper(RunStmt(n, w), h)
    BY <1>2, <2>1, StmtProper DEF Plain
  <2> QED BY <1>1, <2>1, <2>2, ProperInv DEF h
<1>5. CASE Run(s, "stmts", Stmts)
  <2>1. Now(s).do = "stmts" /\ Becomes(s, Stmts(n, w)) /\ typed' = typed
    BY <1>5 DEF Run, Taken, Seen
  <2> HIDE DEF n, w, h
  <2>2. Proper(Stmts(n, w), h)
    BY <1>2, <2>1, ListsProper DEF Plain
  <2> QED BY <1>1, <2>1, <2>2, ProperInv DEF h
<1>6. CASE Run(s, "cap", LAMBDA m, x : CapOut(m))
  <2>1. Now(s).do = "cap" /\ Becomes(s, CapOut(n)) /\ typed' = typed
    BY <1>6 DEF Run, Taken, Seen
  <2> HIDE DEF n, w, h
  <2>2. Proper(CapOut(n), h)
    BY <1>2, <2>1, CapOutProper DEF Plain
  <2> QED BY <1>1, <2>1, <2>2, ProperInv DEF h
<1>7. CASE Run(s, "flip", LAMBDA m, x : FlipCode(m))
  <2>1. Now(s).do = "flip" /\ Becomes(s, FlipCode(n)) /\ typed' = typed
    BY <1>7 DEF Run, Taken, Seen
  <2> HIDE DEF n, w, h
  <2>2. Proper(FlipCode(n), h)
    BY <1>2, <2>1, FlipProper DEF Plain
  <2> QED BY <1>1, <2>1, <2>2, ProperInv DEF h
<1>8. CASE Run(s, "second", Second)
  <2>1. Now(s).do = "second" /\ Becomes(s, Second(n, w)) /\ typed' = typed
    BY <1>8 DEF Run, Taken, Seen
  <2> HIDE DEF n, w, h
  <2>2. Proper(Second(n, w), h)
    BY <1>2, <2>1, SecondProper DEF Plain
  <2> QED BY <1>1, <2>1, <2>2, ProperInv DEF h
<1>9. CASE Run(s, "pipe", PipeCmds)
  <2>1. Now(s).do = "pipe" /\ Becomes(s, PipeCmds(n, w)) /\ typed' = typed
    BY <1>9 DEF Run, Taken, Seen
  <2> HIDE DEF n, w, h
  <2>2. Proper(PipeCmds(n, w), h)
    BY <1>2, <2>1, PipeProper DEF Plain
  <2> QED BY <1>1, <2>1, <2>2, ProperInv DEF h
<1>10. CASE Run(s, "pipeCall", PipeCall)
  <2>1. Now(s).do = "pipeCall" /\ Becomes(s, PipeCall(n, w)) /\ typed' = typed
    BY <1>10 DEF Run, Taken, Seen
  <2> HIDE DEF n, w, h
  <2>2. Proper(PipeCall(n, w), h)
    BY <1>2, <2>1, PipeProper DEF Plain
  <2> QED BY <1>1, <2>1, <2>2, ProperInv DEF h
<1>11. CASE Run(s, "piped", Piped)
  <2>1. Now(s).do = "piped" /\ Becomes(s, Piped(n, w)) /\ typed' = typed
    BY <1>11 DEF Run, Taken, Seen
  <2> HIDE DEF n, w, h
  <2>2. Proper(Piped(n, w), h)
    BY <1>2, <2>1, PipeProper DEF Plain
  <2> QED BY <1>1, <2>1, <2>2, ProperInv DEF h
<1> QED BY <1>3, <1>4, <1>5, <1>6, <1>7, <1>8, <1>9, <1>10, <1>11

\* Commands with their words and redirections, nested lines and what goes unparsed.
LEMMA CommandsInv ==
  ASSUME ShellInv, NEW s \in Active,
         \/ Run(s, "invoke", Invoke)
         \/ Run(s, "redirects", Redirects)
         \/ Run(s, "redirect", Redirect)
         \/ Run(s, "words", Words)
         \/ Run(s, "subst", SubstRun)
         \/ Run(s, "substituted", Substituted)
         \/ Run(s, "sudo", Sudo)
         \/ Run(s, "sudoRan", SudoRan)
         \/ Run(s, "interpreted", Interpreted)
         \/ Run(s, "sequence", RunSequence)
         \/ Run(s, "andOr", RunAndOr)
         \/ Run(s, "token", AfterToken)
         \/ Run(s, "pipeline", ExecPipeline)
         \/ Run(s, "lineEnds", LineEnds)
  PROVE  ShellInv'
<1> DEFINE n == Taken(state[s], file)
           w == Now(s).with
           h == Recent(typed[s])
<1>1. s \in DOMAIN state
  BY ActiveFits
<1>2. Now(s).do \in Plain \cup {"sudoRan"} => Proper(n, h)
  BY NowProper
<1>3. CASE Run(s, "invoke", Invoke)
  <2>1. Now(s).do = "invoke" /\ Becomes(s, Invoke(n, w)) /\ typed' = typed
    BY <1>3 DEF Run, Taken, Seen
  <2> HIDE DEF n, w, h
  <2>2. Proper(Invoke(n, w), h)
    BY <1>2, <2>1, CallProper DEF Plain
  <2> QED BY <1>1, <2>1, <2>2, ProperInv DEF h
<1>4. CASE Run(s, "redirects", Redirects)
  <2>1. Now(s).do = "redirects" /\ Becomes(s, Redirects(n, w)) /\ typed' = typed
    BY <1>4 DEF Run, Taken, Seen
  <2> HIDE DEF n, w, h
  <2>2. Proper(Redirects(n, w), h)
    BY <1>2, <2>1, RedirectsProper DEF Plain
  <2> QED BY <1>1, <2>1, <2>2, ProperInv DEF h
<1>5. CASE Run(s, "redirect", Redirect)
  <2>1. Now(s).do = "redirect" /\ Becomes(s, Redirect(n, w)) /\ typed' = typed
    BY <1>5 DEF Run, Taken, Seen
  <2> HIDE DEF n, w, h
  <2>2. Proper(Redirect(n, w), h)
    BY <1>2, <2>1, RedirectProper DEF Plain
  <2> QED BY <1>1, <2>1, <2>2, ProperInv DEF h
<1>6. CASE Run(s, "words", Words)
  <2>1. Now(s).do = "words" /\ Becomes(s, Words(n, w)) /\ typed' = typed
    BY <1>6 DEF Run, Taken, Seen
  <2> HIDE DEF n, w, h
  <2>2. Proper(Words(n, w), h)
    BY <1>2, <2>1, WordsProper DEF Plain
  <2> QED BY <1>1, <2>1, <2>2, ProperInv DEF h
<1>7. CASE Run(s, "subst", SubstRun)
  <2>1. Now(s).do = "subst" /\ Becomes(s, SubstRun(n, w)) /\ typed' = typed
    BY <1>7 DEF Run, Taken, Seen
  <2> HIDE DEF n, w, h
  <2>2. Proper(SubstRun(n, w), h)
    BY <1>2, <2>1, SubstRunProper DEF Plain
  <2> QED BY <1>1, <2>1, <2>2, ProperInv DEF h
<1>8. CASE Run(s, "substituted", Substituted)
  <2>1. Now(s).do = "substituted" /\ Becomes(s, Substituted(n, w)) /\ typed' = typed
    BY <1>8 DEF Run, Taken, Seen
  <2> HIDE DEF n, w, h
  <2>2. Proper(Substituted(n, w), h)
    BY <1>2, <2>1, BackProper DEF Plain
  <2> QED BY <1>1, <2>1, <2>2, ProperInv DEF h
<1>9. CASE Run(s, "sudo", Sudo)
  <2>1. Now(s).do = "sudo" /\ Becomes(s, Sudo(n, w)) /\ typed' = typed
    BY <1>9 DEF Run, Taken, Seen
  <2> HIDE DEF n, w, h
  <2>2. Proper(Sudo(n, w), h)
    BY <1>2, <2>1, SudoProper DEF Plain
  <2> QED BY <1>1, <2>1, <2>2, ProperInv DEF h
<1>10. CASE Run(s, "sudoRan", SudoRan)
  <2>1. Now(s).do = "sudoRan" /\ Becomes(s, SudoRan(n, w)) /\ typed' = typed
    BY <1>10 DEF Run, Taken, Seen
  <2> HIDE DEF n, w, h
  <2>2. Proper(SudoRan(n, w), h)
    BY <1>2, <2>1, BackProper DEF Plain
  <2> QED BY <1>1, <2>1, <2>2, ProperInv DEF h
<1>11. CASE Run(s, "interpreted", Interpreted)
  <2>1. Now(s).do = "interpreted" /\ Becomes(s, Interpreted(n, w)) /\ typed' = typed
    BY <1>11 DEF Run, Taken, Seen
  <2> HIDE DEF n, w, h
  <2>2. Proper(Interpreted(n, w), h)
    BY <1>2, <2>1, BackProper DEF Plain
  <2> QED BY <1>1, <2>1, <2>2, ProperInv DEF h
<1>12. CASE Run(s, "sequence", RunSequence)
  <2>1. Now(s).do = "sequence" /\ Becomes(s, RunSequence(n, w)) /\ typed' = typed
    BY <1>12 DEF Run, Taken, Seen
  <2> HIDE DEF n, w, h
  <2>2. Proper(RunSequence(n, w), h)
    BY <1>2, <2>1, ListsProper DEF Plain
  <2> QED BY <1>1, <2>1, <2>2, ProperInv DEF h
<1>13. CASE Run(s, "andOr", RunAndOr)
  <2>1. Now(s).do = "andOr" /\ Becomes(s, RunAndOr(n, w)) /\ typed' = typed
    BY <1>13 DEF Run, Taken, Seen
  <2> HIDE DEF n, w, h
  <2>2. Proper(RunAndOr(n, w), h)
    BY <1>2, <2>1, ListsProper DEF Plain
  <2> QED BY <1>1, <2>1, <2>2, ProperInv DEF h
<1>14. CASE Run(s, "token", AfterToken)
  <2>1. Now(s).do = "token" /\ Becomes(s, AfterToken(n, w)) /\ typed' = typed
    BY <1>14 DEF Run, Taken, Seen
  <2> HIDE DEF n, w, h
  <2>2. Proper(AfterToken(n, w), h)
    BY <1>2, <2>1, ListsProper DEF Plain
  <2> QED BY <1>1, <2>1, <2>2, ProperInv DEF h
<1>15. CASE Run(s, "pipeline", ExecPipeline)
  <2>1. Now(s).do = "pipeline" /\ Becomes(s, ExecPipeline(n, w)) /\ typed' = typed
    BY <1>15 DEF Run, Taken, Seen
  <2> HIDE DEF n, w, h
  <2>2. Proper(ExecPipeline(n, w), h)
    BY <1>2, <2>1, ListsProper DEF Plain
  <2> QED BY <1>1, <2>1, <2>2, ProperInv DEF h
<1>16. CASE Run(s, "lineEnds", LineEnds)
  <2>1. Now(s).do = "lineEnds" /\ Becomes(s, LineEnds(n, w)) /\ typed' = typed
    BY <1>16 DEF Run, Taken, Seen
  <2> HIDE DEF n, w, h
  <2>2. Proper(LineEnds(n, w), h)
    BY <1>2, <2>1, LineEndsProper DEF Plain
  <2> QED BY <1>1, <2>1, <2>2, ProperInv DEF h
<1> QED BY <1>3, <1>4, <1>5, <1>6, <1>7, <1>8, <1>9, <1>10, <1>11, <1>12, <1>13, <1>14, <1>15, <1>16

\* A nesting ends.
LEMMA LeavingInv ==
  ASSUME ShellInv, NEW s \in Active,
         Run(s, "leave", LAMBDA m, x : Leave(m)) \/ Run(s, "return", GoBack)
  PROVE  ShellInv'
<1> DEFINE n == Taken(state[s], file)
           w == Now(s).with
           h == Recent(typed[s])
<1>1. /\ s \in DOMAIN state /\ state[s].todo # <<>> /\ Fits(state[s], h)
      /\ KeepsLocked(file) /\ Now(s) = state[s].todo[1]
  BY ActiveFits
<1>2. CASE Run(s, "leave", LAMBDA m, x : Leave(m))
  <2>1. Now(s).do = "leave" /\ Becomes(s, Leave(n)) /\ typed' = typed
    BY <1>2 DEF Run, Taken, Seen
  <2>2. Proper(Leave(n), h)
    BY <1>1, <2>1, LeaveProper
  <2> HIDE DEF n, h
  <2> QED BY <1>1, <2>1, <2>2, ProperInv DEF h
<1>3. CASE Run(s, "return", GoBack)
  <2>1. Now(s).do = "return" /\ Becomes(s, GoBack(n, w)) /\ typed' = typed
    BY <1>3 DEF Run, Taken, Seen
  <2>2. Fits(GoBack(n, w), h) /\ GoBack(n, w).todo # <<>> /\ KeepsLocked(GoBack(n, w).file)
    BY <1>1, <2>1, GoBackFits
  <2> HIDE DEF n, w, h
  <2> QED BY <1>1, <2>1, <2>2, BecomesInv DEF h
<1> QED BY <1>2, <1>3

\* A line is over.
LEMMA LineDoneInv ==
  ASSUME ShellInv, NEW s \in Active, LineDone(s)
  PROVE  ShellInv'
<1> DEFINE m == state[s]
           raw == Now(s).with.line
           new == AddHistory(m.history, raw)
           n == Machine(m.user, m.cwd, m.last, m.snap, new)
           lines == IF Clears(m) THEN <<raw>> ELSE Append(typed[s], raw)
<1>1. /\ s \in DOMAIN state /\ m.todo # <<>> /\ Fits(m, Recent(typed[s]))
      /\ KeepsLocked(file) /\ Now(s) = m.todo[1] /\ IsList(m.todo)
  BY ActiveFits
<1>2. /\ Now(s).do = "addHistory" /\ file' = file
      /\ state' = [state EXCEPT ![s] = n] /\ typed' = [typed EXCEPT ![s] = lines]
  BY DEF LineDone
<1>3. raw \in DOMAIN Tree
  <2>1. 1 \in DOMAIN m.todo
    BY <1>1, ListFacts
  <2>2. FrameFits(m.user, m.todo, 1)
    BY <1>1, <2>1 DEF Fits, StackFits
  <2> QED BY <1>1, <1>2, <2>2 DEF FrameFits
<1>4. typed[s] \in Seq(DOMAIN Tree)
  BY <1>1 DEF ShellInv
<1> HIDE DEF m, raw
<1>5. lines \in Seq(DOMAIN Tree)
  <2>1. <<raw>> \in Seq(DOMAIN Tree)
    BY <1>3
  <2>2. Append(typed[s], raw) \in Seq(DOMAIN Tree)
    BY <1>3, <1>4
  <2> QED BY <2>1, <2>2, Zenon
<1>6. new = Recent(lines)
  <2>1. m.history = IF Clears(m) THEN <<>> ELSE Recent(typed[s])
    BY <1>1 DEF Fits
  <2>2. CASE Clears(m)
    BY <2>1, <2>2, RecentFirst
  <2>3. CASE ~Clears(m)
    <3>1. Recent(Append(typed[s], raw)) = AddHistory(Recent(typed[s]), raw)
      BY <1>3, <1>4, RecentAppend
    <3> QED BY <2>1, <2>3, <3>1
  <2> QED BY <2>2, <2>3
<1> HIDE DEF new, lines
<1>7. SessionFits(n, lines)
  <2> DEFINE u == m.user
  <2>1. /\ IsMachine(n) /\ n.user = u /\ n.ctx = Context(u) /\ n.todo = <<>>
        /\ n.history = new /\ n.steps = <<>>
    BY DEF Machine, IsMachine, MachineFields
  <2> HIDE DEF n, u
  <2>2. ~Clears(n) /\ IsList(n.steps) /\ StackFits(u, Context(u), <<>>)
    BY <2>1, EmptyFits DEF Clears
  <2> QED BY <1>6, <2>1, <2>2 DEF SessionFits, Fits
<1> HIDE DEF n
<1> QED BY <1>1, <1>2, <1>5, <1>7, SessionInv

LEMMA StepInv == ShellInv /\ [ShellNext]_shellVars => ShellInv'
<1> SUFFICES ASSUME ShellInv, [ShellNext]_shellVars PROVE ShellInv'
  OBVIOUS
<1>1. CASE UNCHANGED shellVars
  BY <1>1, Zenon DEF ShellInv, shellVars, SessionFits, Fits, StackFits, KeepsLocked
<1>2. ASSUME NEW s \in Channels, NEW u \in Users, Open(s, u) PROVE ShellInv'
  BY <1>2, OpenInv
<1>3. ASSUME NEW s \in Waiting, NEW raw \in DOMAIN Tree, ExecuteLine(s, raw) \/ Exec(s, raw)
      PROVE  ShellInv'
  <2>1. Execute(s, raw, "addHistory") \/ Execute(s, raw, "close")
    BY <1>3 DEF ExecuteLine, Exec
  <2> QED BY <1>3, <2>1, ExecuteInv DEF Answers
<1>4. ASSUME NEW s \in Waiting, Close(s) PROVE ShellInv'
  <2>1. s \in DOMAIN state /\ RemoveSession(s) /\ file' = file
    BY <1>4 DEF Close, Waiting
  <2> QED BY <2>1, RemoveInv
<1>5. ASSUME NEW s \in Active, Step(s) PROVE ShellInv'
  <2>1. ASSUME ExecDone(s) PROVE ShellInv'
    <3>1. s \in DOMAIN state /\ RemoveSession(s) /\ file' = file
      BY <1>5, <2>1 DEF ExecDone, Active
    <3> QED BY <3>1, RemoveInv
  <2> QED BY <1>5, <2>1, StatementsInv, CommandsInv, LeavingInv, LineDoneInv DEF Step
<1> QED BY <1>1, <1>2, <1>3, <1>4, <1>5 DEF ShellNext

LEMMA ShellInvariant == ShellSpec => []ShellInv
BY InitInv, StepInv, PTL DEF ShellSpec

\* No command, redirection, filter or download changes or takes away a file
\* with chattr +i, whatever lines the clients send.
THEOREM LockedFilesStay == ShellSpec => []LockedUnchanged
<1>1. ShellInv => LockedUnchanged
  BY DEF ShellInv, KeepsLocked, LockedUnchanged
<1> QED BY <1>1, ShellInvariant, PTL

\* The history of a session that waits is the end of what was typed since it
\* was last cleared, without immediate repetitions, whatever nested line
\* cleared it and whatever the other sessions did.
THEOREM HistoryStaysTail == ShellSpec => []HistoryIsTail
<1>1. ShellInv => HistoryIsTail
  <2> SUFFICES ASSUME ShellInv, NEW s \in Waiting
               PROVE  state[s].history = Recent(typed[s])
    BY DEF HistoryIsTail, Recent
  <2>1. s \in DOMAIN state /\ state[s].todo = <<>>
    BY DEF Waiting
  <2>2. Fits(state[s], Recent(typed[s])) /\ state[s].steps = <<>>
    BY <2>1 DEF ShellInv, SessionFits
  <2>3. ~Clears(state[s])
    BY <2>2, EmptyFits DEF Clears
  <2> QED BY <2>2, <2>3 DEF Fits
<1> QED BY <1>1, ShellInvariant, PTL

\* No more than maxCmdSubstDepth substitutions, subshells, sudos and
\* interpreters are active at once in a session.
THEOREM NestingStaysBounded == ShellSpec => []NestingBounded
<1>1. ShellInv => NestingBounded
  <2> SUFFICES ASSUME ShellInv, NEW s \in DOMAIN state
               PROVE  Cardinality(Nestings(state[s])) <= MaxDepth
    BY DEF NestingBounded
  <2> DEFINE m == state[s]
  <2>1. StackFits(m.user, m.ctx, m.todo)
    BY DEF ShellInv, SessionFits, Fits
  <2>2. DOMAIN m.todo = 1 .. Len(m.todo)
    BY <2>1, ListFacts DEF StackFits
  <2>3. Nestings(m) = {j \in DOMAIN m.todo : j > 0 /\ m.todo[j].do \in Leaving}
    BY <2>2 DEF Nestings, Leaving
  <2> HIDE DEF m
  <2>4. Cardinality(Nestings(m)) = m.ctx.depth
    BY <2>1, <2>3 DEF StackFits, Beneath
  <2> QED BY <2>1, <2>4 DEF StackFits, m
<1> QED BY <1>1, ShellInvariant, PTL

\* A session acts as another user only as long as a sudo of its line has not
\* returned.
THEOREM SudoAlwaysEnds == ShellSpec => []SudoEnds
<1>1. ShellInv => SudoEnds
  <2> SUFFICES ASSUME ShellInv, NEW s \in DOMAIN state, state[s].ctx.user # state[s].user
               PROVE  \E i \in DOMAIN state[s].todo : state[s].todo[i].do = "sudoRan"
    BY DEF SudoEnds
  <2>1. Sudos(state[s].todo, 1)
    BY DEF ShellInv, SessionFits, Fits, StackFits
  <2> QED BY <2>1 DEF Sudos
<1> QED BY <1>1, ShellInvariant, PTL

---------------------------------------------------------------------------
(* The account commands: that the account files stay sound, that only root     *)
(* has uid 0 and that undisturbed commands leave the accounts they should, for *)
(* any number of sessions, any names, any preset accounts and any uids.        *)

AllNames == Names \cup {Root}

\* The pcs at which a command holds lines and those at which it holds names.
Commands ==
  [pc : {"write passwd"}, op : {"add", "del"}, name : Names, copy : SUBSET Entries]
    \cup [pc : {"write shadow"}, op : {"add", "del"}, name : Names, copy : SUBSET AllNames]
    \cup [pc : {"read shadow", "home"}, op : {"add", "del"}, name : Names, copy : {{}}]
Chattrs == [pc : {"set flags"}, file : Files, old : SUBSET Bits]

TypeOK ==
  /\ passwd \in SUBSET Entries /\ shadow \in SUBSET AllNames
  /\ attrs \in [Files -> SUBSET Bits]
  /\ user \in [Sessions -> [name : AllNames, uid : Nat] \cup {Nobody}]
  /\ at \in [Sessions -> Commands \cup Chattrs \cup {Idle}]
  /\ meant \in [Files -> SUBSET AllNames] /\ clean \in BOOLEAN

---------------------------------------------------------------------------
(* The next uid. *)

\* A set of naturals that has an upper bound has a greatest element.
LEMMA MaxExists ==
  ASSUME NEW B \in Nat, NEW S \in SUBSET (0 .. B), S # {}
  PROVE  Max(S) \in S /\ \A x \in S : Max(S) >= x
<1> DEFINE Bounds == {u \in Nat : \A x \in S : u >= x}
<1>1. Bounds # {}
  <2>1. B \in Bounds
    OBVIOUS
  <2> QED BY <2>1
<1>2. PICK m \in Bounds : \A u \in Bounds : ~ <<u, m>> \in OpToRel(<, Nat)
  <2>1. Bounds \subseteq Nat
    OBVIOUS
  <2> HIDE DEF Bounds
  <2> QED BY <1>1, <2>1, NatLessThanWellFounded, WFMin
<1>3. \A u \in Bounds : ~ u < m
  BY <1>2 DEF OpToRel
<1>4. m \in S
  <2> SUFFICES ASSUME m \notin S PROVE FALSE
    OBVIOUS
  <2>1. \A x \in S : m > x
    OBVIOUS
  <2>2. m \in Nat /\ m > 0
    <3>1. PICK x \in S : TRUE
      OBVIOUS
    <3>2. x \in Nat /\ m > x /\ m \in Nat
      BY <3>1, <2>1
    <3> QED BY <3>2
  <2>3. m - 1 \in Nat /\ \A x \in S : m - 1 >= x
    BY <2>1, <2>2
  <2> QED BY <2>2, <2>3, <1>3
<1> QED BY <1>4 DEF Max

\* The uid of a new account is above every uid in the file and above the
\* system accounts.
LEMMA NextUidAbove ==
  ASSUME NEW lines \in SUBSET Entries
  PROVE  /\ NextUid(lines) \in Nat /\ NextUid(lines) >= FirstUid
         /\ \A e \in lines : e.uid < NextUid(lines)
<1> DEFINE U == {FirstUid - 1} \cup {e.uid : e \in lines}
<1>1. U \in SUBSET (0 .. MaxUid) /\ U # {}
  BY AccountsAssumption DEF Entries, Uids
<1>2. Max(U) \in U /\ \A x \in U : Max(U) >= x
  <2> HIDE DEF U
  <2> QED BY <1>1, MaxExists, AccountsAssumption
<1>3. Max(U) \in Nat /\ Max(U) >= FirstUid - 1 /\ \A e \in lines : Max(U) >= e.uid
  <2>1. FirstUid - 1 \in U /\ \A e \in lines : e.uid \in U
    OBVIOUS
  <2>2. \A x \in U : x \in Nat
    <3> HIDE DEF U
    <3> QED BY <1>1, AccountsAssumption
  <2> HIDE DEF U
  <2> QED BY <1>2, <2>1, <2>2
<1>4. NextUid(lines) = Max(U) + 1
  BY DEF NextUid
<1>5. \A e \in lines : e.uid \in Nat
  BY DEF Entries, Uids
<1> HIDE DEF U
<1> QED BY <1>3, <1>4, <1>5, AccountsAssumption

\* useradd keeps a sound list sound.
LEMMA AddedSound ==
  ASSUME NEW lines \in SUBSET Entries, NEW n \in Names,
         Sound(lines), n \notin NamesIn(lines), NextUid(lines) <= MaxUid
  PROVE  /\ Sound(Added(lines, n)) /\ Added(lines, n) \in SUBSET Entries
         /\ NamesIn(Added(lines, n)) = NamesIn(lines) \cup {n}
<1> DEFINE new == [name |-> n, uid |-> NextUid(lines)]
<1>1. new \in Entries
  BY NextUidAbove, AccountsAssumption DEF Entries, Uids
<1>2. \A e \in lines : e.name # n /\ e.uid # new.uid
  BY NextUidAbove DEF NamesIn, Entries, Uids
<1>3. Added(lines, n) = lines \cup {new}
  BY DEF Added
<1>4. new.name = n
  OBVIOUS
<1> HIDE DEF new
<1> QED BY <1>1, <1>2, <1>3, <1>4 DEF Sound, NamesIn

\* So does userdel, which never takes root.
LEMMA WithoutSound ==
  ASSUME NEW lines \in SUBSET Entries, NEW n \in Names, Sound(lines)
  PROVE  /\ Sound(Without(lines, n)) /\ Without(lines, n) \in SUBSET Entries
         /\ NamesIn(Without(lines, n)) = NamesIn(lines) \ {n}
BY AccountsAssumption DEF Sound, Without, NamesIn, RootEntry

---------------------------------------------------------------------------
(* What an identity can be. *)

\* The line of a sound list decides an identity, and no line makes one up that
\* is not root.
LEMMA ResolveUserRoot ==
  ASSUME passwd \in SUBSET Entries, Sound(passwd), NEW n \in AllNames
  PROVE  /\ ResolveUser(n) \in [name : AllNames, uid : Nat]
         /\ ResolveUser(n).name = n
         /\ ResolveUser(n).uid = 0 <=> n = Root
<1>1. CASE \E e \in passwd : e.name = n
  <2> DEFINE e == CHOOSE e \in passwd : e.name = n
  <2>1. e \in passwd /\ e.name = n
    BY <1>1
  <2>2. ResolveUser(n) = e
    <3>1. n \in NamesIn(passwd)
      BY <1>1 DEF NamesIn
    <3> QED BY <1>1, <3>1 DEF ResolveUser
  <2>3. e \in [name : AllNames, uid : Nat]
    BY <2>1, AccountsAssumption DEF Entries, Uids, AllNames
  <2>4. e.uid = 0 <=> n = Root
    BY <2>1 DEF Sound, RootEntry
  <2> HIDE DEF e
  <2> QED BY <2>1, <2>2, <2>3, <2>4
<1>2. CASE ~ \E e \in passwd : e.name = n
  <2>1. RootEntry \in passwd /\ RootEntry.name = Root
    BY DEF Sound, RootEntry
  <2>2. n # Root /\ n \in Names
    BY <1>2, <2>1 DEF AllNames
  <2>3. ResolveUser(n) = [name |-> n, uid |-> Synth[n]]
    BY <1>2, <2>2 DEF ResolveUser
  <2>4. Synth[n] \in Nat \ {0}
    BY <2>2, AccountsAssumption
  <2> QED BY <2>2, <2>3, <2>4 DEF AllNames
<1> QED BY <1>1, <1>2

---------------------------------------------------------------------------
(* Where a command can be. *)

LEMMA BusyType ==
  ASSUME TypeOK, NEW STATE s, s \in Sessions, Busy(s)
  PROVE  /\ at[s] \in Commands /\ at[s].op \in {"add", "del"} /\ at[s].name \in Names
         /\ at[s].pc = "write passwd" => at[s].copy \in SUBSET Entries
         /\ at[s].pc = "write shadow" => at[s].copy \in SUBSET AllNames
<1>1. at[s] \in Commands \cup Chattrs \cup {Idle}
  BY DEF TypeOK
<1>2. \A c \in Chattrs : c.pc = "set flags"
  BY DEF Chattrs
<1>3. Idle.pc = "idle"
  BY DEF Idle
<1>4. at[s] \in Commands
  BY <1>1, <1>2, <1>3 DEF Busy
<1> QED BY <1>4 DEF Commands, AllNames

---------------------------------------------------------------------------
(* The account files and the identities. *)

\* Every copy that a command is going to write is sound too: the write gives
\* the file a content that was computed from an older one.
CopiesSound == \A s \in Sessions : at[s].pc = "write passwd" => Sound(at[s].copy)

SoundInv == TypeOK /\ PasswdSound /\ OnlyRootIsRoot /\ CopiesSound

LEMMA InitSound == Init => SoundInv
<1> SUFFICES ASSUME Init PROVE SoundInv
  OBVIOUS
<1> USE AccountsAssumption
<1>1. passwd \in SUBSET Entries
  BY DEF Init, Entries, RootEntry, Uids
<1>2. NamesIn(Preset) \subseteq Names
  BY DEF NamesIn
<1>3. shadow \in SUBSET AllNames /\ meant \in [Files -> SUBSET AllNames]
  BY <1>2 DEF Init, AllNames, Files
<1>4. user \in [Sessions -> [name : AllNames, uid : Nat] \cup {Nobody}]
      /\ attrs \in [Files -> SUBSET Bits] /\ clean \in BOOLEAN
      /\ at \in [Sessions -> Commands \cup Chattrs \cup {Idle}]
  BY DEF Init
<1>5. PasswdSound
  <2>1. \A e \in Preset : e.name # RootEntry.name /\ e.uid # RootEntry.uid
    BY DEF RootEntry
  <2> QED BY <2>1 DEF Init, PasswdSound, Sound
<1>6. OnlyRootIsRoot /\ CopiesSound
  BY DEF Init, OnlyRootIsRoot, CopiesSound, Idle
<1> QED BY <1>1, <1>3, <1>4, <1>5, <1>6 DEF TypeOK, SoundInv

\* A session that goes to another place of its command, or begins or ends one.
LEMMA AtUpdated ==
  ASSUME TypeOK, NEW STATE s, s \in Sessions, NEW STATE w,
         w \in Commands \cup Chattrs \cup {Idle}, at' = [at EXCEPT ![s] = w]
  PROVE  /\ at' \in [Sessions -> Commands \cup Chattrs \cup {Idle}]
         /\ at'[s] = w /\ \A t \in Sessions \ {s} : at'[t] = at[t]
BY DEF TypeOK

LEMMA StepSound == SoundInv /\ [Next]_vars => SoundInv'
<1> SUFFICES ASSUME SoundInv, [Next]_vars PROVE SoundInv'
  OBVIOUS
<1> USE DEF SoundInv
<1>0. CASE UNCHANGED vars
  BY <1>0 DEF vars, TypeOK, PasswdSound, OnlyRootIsRoot, CopiesSound
<1>1. ASSUME NEW s \in Sessions, NEW n \in Logins, Login(s, n) PROVE SoundInv'
  <2>1. n \in AllNames
    BY AccountsAssumption DEF AllNames
  <2>2. /\ ResolveUser(n) \in [name : AllNames, uid : Nat]
        /\ ResolveUser(n).uid = 0 <=> ResolveUser(n).name = Root
    BY <2>1, ResolveUserRoot DEF TypeOK, PasswdSound
  <2>3. user' = [user EXCEPT ![s] = ResolveUser(n)] /\ UNCHANGED <<passwd, shadow, attrs, at, meant, clean>>
    BY <1>1 DEF Login
  <2>4. TypeOK' /\ OnlyRootIsRoot'
    BY <2>2, <2>3 DEF TypeOK, OnlyRootIsRoot
  <2> QED BY <2>3, <2>4 DEF PasswdSound, CopiesSound
<1>2. ASSUME NEW s \in Sessions, NEW n \in Names, UserAdd(s, n) \/ UserDel(s, n)
      PROVE  SoundInv'
  <2>1. PICK op \in {"add", "del"}, text \in SUBSET Entries :
          Sound(text) /\ Begin(s, op, n, text)
    BY <1>2, AddedSound, WithoutSound DEF UserAdd, UserDel, TypeOK, PasswdSound
  <2> DEFINE w == Working("write passwd", op, n, text)
  <2>2. w \in Commands /\ w.copy = text
    BY DEF Working, Commands
  <2>3. at' = [at EXCEPT ![s] = w] /\ UNCHANGED <<passwd, shadow, attrs, user, meant>>
        /\ clean' \in BOOLEAN
    BY <2>1 DEF Begin
  <2> HIDE DEF w
  <2>4. /\ at' \in [Sessions -> Commands \cup Chattrs \cup {Idle}]
        /\ at'[s] = w /\ \A t \in Sessions \ {s} : at'[t] = at[t]
    BY <2>2, <2>3, AtUpdated
  <2> QED BY <2>1, <2>2, <2>3, <2>4 DEF TypeOK, PasswdSound, OnlyRootIsRoot, CopiesSound
<1>3. ASSUME NEW s \in Sessions, WritePasswd(s) \/ PasswdRefused(s) PROVE SoundInv'
  <2>1. at[s].pc = "write passwd" /\ at[s].copy \in SUBSET Entries /\ Sound(at[s].copy)
    BY <1>3, BusyType DEF WritePasswd, PasswdRefused, Busy, CopiesSound
  <2> DEFINE w == Working("read shadow", at[s].op, at[s].name, {})
  <2>2. w \in Commands /\ w.pc = "read shadow"
    BY <2>1, BusyType DEF Busy, Working, Commands
  <2>3. at' = [at EXCEPT ![s] = w] /\ UNCHANGED <<shadow, attrs, user, meant>>
        /\ passwd' \in {passwd, at[s].copy} /\ clean' \in BOOLEAN
    BY <1>3 DEF WritePasswd, PasswdRefused, Proceed
  <2> HIDE DEF w
  <2>4. /\ at' \in [Sessions -> Commands \cup Chattrs \cup {Idle}]
        /\ at'[s] = w /\ \A t \in Sessions \ {s} : at'[t] = at[t]
    BY <2>2, <2>3, AtUpdated
  <2> QED BY <2>1, <2>2, <2>3, <2>4 DEF TypeOK, PasswdSound, OnlyRootIsRoot, CopiesSound
<1>4. ASSUME NEW s \in Sessions, ReadShadow(s) PROVE SoundInv'
  <2> DEFINE names == Applied(at[s].op, shadow, at[s].name)
             w == Working("write shadow", at[s].op, at[s].name, names)
  <2>1. Busy(s)
    BY <1>4 DEF ReadShadow, Busy
  <2>2. names \in SUBSET AllNames
    BY <2>1, BusyType DEF TypeOK, Applied, AllNames
  <2>3. w \in Commands /\ w.pc = "write shadow"
    BY <2>1, <2>2, BusyType DEF Working, Commands
  <2>4. at' = [at EXCEPT ![s] = w] /\ UNCHANGED <<passwd, shadow, attrs, user, meant, clean>>
    BY <1>4 DEF ReadShadow, Proceed
  <2> HIDE DEF w
  <2>5. /\ at' \in [Sessions -> Commands \cup Chattrs \cup {Idle}]
        /\ at'[s] = w /\ \A t \in Sessions \ {s} : at'[t] = at[t]
    BY <2>3, <2>4, AtUpdated
  <2> QED BY <2>3, <2>4, <2>5 DEF TypeOK, PasswdSound, OnlyRootIsRoot, CopiesSound
<1>5. ASSUME NEW s \in Sessions, WriteShadow(s) \/ ShadowRefused(s) PROVE SoundInv'
  <2> DEFINE w == Working("home", at[s].op, at[s].name, {})
  <2>1. Busy(s) /\ at[s].copy \in SUBSET AllNames
    BY <1>5, BusyType DEF WriteShadow, ShadowRefused, Busy
  <2>2. w \in Commands /\ w.pc = "home"
    BY <2>1, BusyType DEF Working, Commands
  <2>3. at' = [at EXCEPT ![s] = w] /\ UNCHANGED <<passwd, attrs, user, meant>>
        /\ shadow' \in {shadow, at[s].copy} /\ clean' \in BOOLEAN
    BY <1>5 DEF WriteShadow, ShadowRefused, Proceed
  <2> HIDE DEF w
  <2>4. /\ at' \in [Sessions -> Commands \cup Chattrs \cup {Idle}]
        /\ at'[s] = w /\ \A t \in Sessions \ {s} : at'[t] = at[t]
    BY <2>2, <2>3, AtUpdated
  <2> QED BY <2>1, <2>2, <2>3, <2>4 DEF TypeOK, PasswdSound, OnlyRootIsRoot, CopiesSound
<1>6. ASSUME NEW s \in Sessions, EndCommand(s) PROVE SoundInv'
  <2>1. at' = [at EXCEPT ![s] = Idle] /\ UNCHANGED <<passwd, shadow, attrs, user, clean>>
    BY <1>6 DEF EndCommand
  <2>2. /\ at' \in [Sessions -> Commands \cup Chattrs \cup {Idle}]
        /\ at'[s] = Idle /\ \A t \in Sessions \ {s} : at'[t] = at[t]
    BY <2>1, AtUpdated
  <2>3. Busy(s)
    BY <1>6 DEF EndCommand, Busy
  <2>4. \A f \in Files : Applied(at[s].op, meant[f], at[s].name) \in SUBSET AllNames
    BY <2>3, BusyType DEF TypeOK, Applied, AllNames
  <2>5. meant' \in [Files -> SUBSET AllNames]
    BY <1>6, <2>4 DEF EndCommand, TypeOK
  <2> QED BY <2>1, <2>2, <2>5 DEF TypeOK, PasswdSound, OnlyRootIsRoot, CopiesSound, Idle
<1>7. ASSUME NEW s \in Sessions, NEW f \in Files, ReadFlags(s, f) PROVE SoundInv'
  <2>1. SettingFlags(f) \in Chattrs /\ SettingFlags(f).pc = "set flags"
    BY DEF SettingFlags, Chattrs, TypeOK
  <2>2. at' = [at EXCEPT ![s] = SettingFlags(f)] /\ UNCHANGED <<passwd, shadow, attrs, user, meant, clean>>
    BY <1>7 DEF ReadFlags
  <2>3. /\ at' \in [Sessions -> Commands \cup Chattrs \cup {Idle}]
        /\ at'[s] = SettingFlags(f) /\ \A t \in Sessions \ {s} : at'[t] = at[t]
    BY <2>1, <2>2, AtUpdated
  <2> QED BY <2>1, <2>2, <2>3 DEF TypeOK, PasswdSound, OnlyRootIsRoot, CopiesSound
<1>8. ASSUME NEW s \in Sessions, NEW flags \in SUBSET Bits, SetFlags(s, flags) PROVE SoundInv'
  <2>1. at' = [at EXCEPT ![s] = Idle] /\ UNCHANGED <<passwd, shadow, user, meant, clean>>
        /\ attrs' = [attrs EXCEPT ![at[s].file] = flags]
    BY <1>8 DEF SetFlags
  <2>2. /\ at' \in [Sessions -> Commands \cup Chattrs \cup {Idle}]
        /\ at'[s] = Idle /\ \A t \in Sessions \ {s} : at'[t] = at[t]
    BY <2>1, AtUpdated
  <2>3. attrs' \in [Files -> SUBSET Bits]
    BY <2>1 DEF TypeOK
  <2> QED BY <2>1, <2>2, <2>3 DEF TypeOK, PasswdSound, OnlyRootIsRoot, CopiesSound, Idle
<1> QED BY <1>0, <1>1, <1>2, <1>3, <1>4, <1>5, <1>6, <1>7, <1>8 DEF Next

LEMMA SoundInvariant == Spec => []SoundInv
BY InitSound, StepSound, PTL DEF Spec

\* However the commands of the sessions interleave, /etc/passwd holds no name
\* and no uid twice and root with uid 0.
THEOREM PasswdStaysSound == Spec => []PasswdSound
<1>1. SoundInv => PasswdSound
  BY DEF SoundInv
<1> QED BY <1>1, SoundInvariant, PTL

\* Only root logs in with uid 0, whatever accounts were added or deleted before.
THEOREM RootIsUnique == Spec => []OnlyRootIsRoot
<1>1. SoundInv => OnlyRootIsRoot
  BY DEF SoundInv
<1> QED BY <1>1, SoundInvariant, PTL

\* Both together.
THEOREM AccountsStaySound == Spec => []AccountsSound
<1>1. SoundInv => AccountsSound
  BY DEF SoundInv, AccountsSound
<1> QED BY <1>1, SoundInvariant, PTL

---------------------------------------------------------------------------
(* The accounts that undisturbed commands leave. *)

\* Commands at work have different names. Where no command works on a name, each
\* file has it as it should; a command's copy is the file as it is now with its
\* own name put in or taken out; behind a write the file has the name or not,
\* as the command asked.
DistinctNames ==
  \A s, t \in Sessions : s # t /\ Busy(s) /\ Busy(t) => at[s].name # at[t].name
Settled ==
  \A n \in AllNames :
     (\A s \in Sessions : Busy(s) => at[s].name # n)
       => /\ n \in NamesIn(passwd) <=> n \in meant["passwd"]
          /\ n \in shadow <=> n \in meant["shadow"]
CopiesCurrent ==
  \A s \in Sessions :
     /\ at[s].pc = "write passwd" =>
          NamesIn(at[s].copy) = Applied(at[s].op, NamesIn(passwd), at[s].name)
     /\ at[s].pc = "write shadow" => at[s].copy = Applied(at[s].op, shadow, at[s].name)
Written ==
  \A s \in Sessions :
     /\ at[s].pc \in {"read shadow", "write shadow", "home"} =>
          (at[s].name \in NamesIn(passwd) <=> at[s].op = "add")
     /\ at[s].pc = "home" => (at[s].name \in shadow <=> at[s].op = "add")

AgreeInv == clean => DistinctNames /\ Settled /\ CopiesCurrent /\ Written

LEMMA IdlePc == Idle.pc = "idle"
BY DEF Idle

LEMMA InitAgree == Init => AgreeInv
<1> SUFFICES ASSUME Init PROVE DistinctNames /\ Settled /\ CopiesCurrent /\ Written
  BY DEF AgreeInv
<1>1. \A s \in Sessions : at[s].pc = "idle"
  BY IdlePc DEF Init
<1>2. NamesIn(passwd) = NamesIn(Preset) \cup {Root}
  <2>1. RootEntry.name = Root
    BY DEF RootEntry
  <2> QED BY <2>1 DEF Init, NamesIn
<1>3. /\ meant["passwd"] = NamesIn(Preset) \cup {Root} /\ meant["shadow"] = {Root}
      /\ shadow = {Root}
  BY DEF Init
<1>4. Settled
  BY <1>2, <1>3 DEF Settled
<1> QED BY <1>1, <1>4 DEF DistinctNames, CopiesCurrent, Written, Busy

\* Written is about sessions behind their write only.
LEMMA WrittenStays ==
  ASSUME Written, UNCHANGED <<passwd, shadow>>, NEW STATE s, s \in Sessions,
         \A t \in Sessions \ {s} : at'[t] = at[t],
         at'[s].pc \notin {"read shadow", "write shadow", "home"}
  PROVE  Written'
<1> SUFFICES ASSUME NEW t \in Sessions
             PROVE  /\ at'[t].pc \in {"read shadow", "write shadow", "home"} =>
                         (at'[t].name \in NamesIn(passwd') <=> at'[t].op = "add")
                    /\ at'[t].pc = "home" => (at'[t].name \in shadow' <=> at'[t].op = "add")
  BY DEF Written
<1>1. CASE t = s
  BY <1>1
<1>2. CASE t # s
  <2>1. at'[t] = at[t]
    BY <1>2
  <2> QED BY <2>1 DEF Written
<1> QED BY <1>1, <1>2

LEMMA StepAgree == SoundInv /\ AgreeInv /\ [Next]_vars => AgreeInv'
<1> SUFFICES ASSUME SoundInv, AgreeInv, [Next]_vars PROVE AgreeInv'
  OBVIOUS
<1>t. TypeOK
  BY DEF SoundInv
<1> USE DEF AgreeInv
<1>0. CASE UNCHANGED vars
  BY <1>0 DEF vars, DistinctNames, Settled, CopiesCurrent, Written, Busy
<1>1. ASSUME NEW s \in Sessions, NEW n \in Logins, Login(s, n) PROVE AgreeInv'
  BY <1>1 DEF Login, DistinctNames, Settled, CopiesCurrent, Written, Busy
<1>2. ASSUME NEW s \in Sessions, NEW n \in Names, UserAdd(s, n) \/ UserDel(s, n),
             clean'
      PROVE  DistinctNames' /\ Settled' /\ CopiesCurrent' /\ Written'
  <2>1. PICK op \in {"add", "del"}, text \in SUBSET Entries :
          NamesIn(text) = Applied(op, NamesIn(passwd), n) /\ Begin(s, op, n, text)
    BY <1>2, <1>t, AddedSound, WithoutSound
       DEF UserAdd, UserDel, TypeOK, SoundInv, PasswdSound, Applied
  <2> DEFINE w == Working("write passwd", op, n, text)
  <2>2. w.pc = "write passwd" /\ w.op = op /\ w.name = n /\ w.copy = text /\ w \in Commands
    BY DEF Working, Commands
  <2>3. /\ at' = [at EXCEPT ![s] = w] /\ UNCHANGED <<passwd, shadow, meant>>
        /\ clean /\ \A t \in Sessions : Busy(t) => at[t].name # n
    BY <1>2, <2>1 DEF Begin
  <2> HIDE DEF w
  <2>4. at'[s] = w /\ \A t \in Sessions \ {s} : at'[t] = at[t]
    BY <2>2, <2>3, <1>t, AtUpdated
  <2>5. ~Busy(s) /\ \A t \in Sessions \ {s} : Busy(t)' <=> Busy(t)
    BY <2>1, <2>4, IdlePc DEF Begin, Busy
  <2>6. DistinctNames'
    <3> SUFFICES ASSUME NEW a \in Sessions, NEW b \in Sessions, a # b, Busy(a)', Busy(b)'
                 PROVE  at'[a].name # at'[b].name
      BY DEF DistinctNames
    <3>1. CASE a = s
      BY <2>2, <2>3, <2>4, <2>5, <3>1
    <3>2. CASE b = s
      BY <2>2, <2>3, <2>4, <2>5, <3>2
    <3>3. CASE a # s /\ b # s
      <4>1. Busy(a) /\ Busy(b) /\ at'[a] = at[a] /\ at'[b] = at[b]
        BY <2>4, <2>5, <3>3
      <4>2. DistinctNames
        BY <2>3
      <4>3. at[a].name # at[b].name
        BY <3>3, <4>1, <4>2 DEF DistinctNames
      <4> QED BY <4>1, <4>3
    <3> QED BY <3>1, <3>2, <3>3
  <2>7. Settled'
    BY <2>3, <2>4, <2>5 DEF Settled
  <2>8. CopiesCurrent' /\ Written'
    <3>1. CopiesCurrent'
      BY <2>1, <2>2, <2>3, <2>4 DEF CopiesCurrent
    <3>2. Written'
      BY <2>2, <2>3, <2>4, WrittenStays
    <3> QED BY <3>1, <3>2
  <2> QED BY <2>6, <2>7, <2>8
<1>3. ASSUME NEW s \in Sessions, WritePasswd(s), clean'
      PROVE  DistinctNames' /\ Settled' /\ CopiesCurrent' /\ Written'
  <2> DEFINE w == Working("read shadow", at[s].op, at[s].name, {})
  <2>1. /\ at[s].pc = "write passwd" /\ at' = [at EXCEPT ![s] = w] /\ passwd' = at[s].copy
        /\ UNCHANGED <<shadow, meant>> /\ clean
        /\ \A t \in Sessions \ {s} : at[t].pc # "write passwd"
    BY <1>3 DEF WritePasswd, Proceed
  <2>2. /\ w.pc = "read shadow" /\ w.op = at[s].op /\ w.name = at[s].name /\ w \in Commands
        /\ at[s].op \in {"add", "del"}
    BY <2>1, <1>t, BusyType DEF Busy, Working, Commands
  <2> HIDE DEF w
  <2>3. at'[s] = w /\ \A t \in Sessions \ {s} : at'[t] = at[t]
    BY <2>1, <2>2, <1>t, AtUpdated
  <2>4. /\ Busy(s) /\ Busy(s)' /\ \A t \in Sessions \ {s} : Busy(t)' <=> Busy(t)
    BY <2>1, <2>2, <2>3 DEF Busy
  <2>5. NamesIn(passwd') = Applied(at[s].op, NamesIn(passwd), at[s].name)
    BY <2>1 DEF CopiesCurrent
  <2>6. \A n : n # at[s].name => (n \in NamesIn(passwd') <=> n \in NamesIn(passwd))
    BY <2>5 DEF Applied
  <2>7. at[s].name \in NamesIn(passwd') <=> at[s].op = "add"
    BY <2>2, <2>5 DEF Applied
  <2>8. \A t \in Sessions : at'[t].name = at[t].name
    BY <2>2, <2>3
  <2>9. DistinctNames'
    BY <2>1, <2>4, <2>8 DEF DistinctNames
  <2>10. Settled'
    BY <2>1, <2>4, <2>6, <2>8 DEF Settled
  <2>11. CopiesCurrent'
    BY <2>1, <2>2, <2>3 DEF CopiesCurrent
  <2>12. Written'
    <3> SUFFICES ASSUME NEW t \in Sessions
                 PROVE  /\ at'[t].pc \in {"read shadow", "write shadow", "home"} =>
                             (at'[t].name \in NamesIn(passwd') <=> at'[t].op = "add")
                        /\ at'[t].pc = "home" => (at'[t].name \in shadow' <=> at'[t].op = "add")
      BY DEF Written
    <3>1. CASE t = s
      BY <3>1, <2>2, <2>3, <2>7
    <3>2. CASE t # s
      <4>1. at'[t] = at[t]
        BY <3>2, <2>3
      <4>2. Busy(t) => at[t].name # at[s].name
        BY <3>2, <2>1, <2>4 DEF DistinctNames
      <4>3. at[t].pc \in {"read shadow", "write shadow", "home"} => at[t].name # at[s].name
        BY <4>2 DEF Busy
      <4>4. at[t].pc \in {"read shadow", "write shadow", "home"} =>
              (at[t].name \in NamesIn(passwd') <=> at[t].name \in NamesIn(passwd))
        BY <4>3, <2>6
      <4>5. Written
        BY <2>1
      <4>6. shadow' = shadow
        BY <2>1
      <4> QED BY <4>1, <4>4, <4>5, <4>6 DEF Written
    <3> QED BY <3>1, <3>2
  <2> QED BY <2>9, <2>10, <2>11, <2>12
<1>4. ASSUME NEW s \in Sessions, ReadShadow(s) PROVE AgreeInv'
  <2> DEFINE w == Working("write shadow", at[s].op, at[s].name, Applied(at[s].op, shadow, at[s].name))
  <2>1. /\ at[s].pc = "read shadow" /\ at' = [at EXCEPT ![s] = w]
        /\ UNCHANGED <<passwd, shadow, meant, clean>>
    BY <1>4 DEF ReadShadow, Proceed
  <2>2. /\ w.pc = "write shadow" /\ w.op = at[s].op /\ w.name = at[s].name
        /\ w.copy = Applied(at[s].op, shadow, at[s].name)
    BY DEF Working
  <2>3. w \in Commands
    <3>1. at[s].op \in {"add", "del"} /\ at[s].name \in Names
      BY <2>1, <1>t, BusyType DEF Busy
    <3>2. Applied(at[s].op, shadow, at[s].name) \in SUBSET AllNames
      BY <3>1, <1>t DEF Applied, TypeOK, AllNames
    <3> QED BY <3>1, <3>2 DEF Working, Commands
  <2> HIDE DEF w
  <2>4. at'[s] = w /\ \A t \in Sessions \ {s} : at'[t] = at[t]
    BY <2>1, <2>3, <1>t, AtUpdated
  <2>5. Busy(s) /\ Busy(s)' /\ \A t \in Sessions \ {s} : Busy(t)' <=> Busy(t)
    BY <2>1, <2>2, <2>4 DEF Busy
  <2>6. \A t \in Sessions : at'[t].name = at[t].name /\ at'[t].op = at[t].op
    BY <2>2, <2>4
  <2>7. clean => DistinctNames' /\ Settled'
    <3>1. DistinctNames => DistinctNames'
      BY <2>5, <2>6 DEF DistinctNames
    <3>2. Settled => Settled'
      BY <2>1, <2>5, <2>6 DEF Settled
    <3> QED BY <3>1, <3>2
  <2>8. clean => CopiesCurrent'
    BY <2>1, <2>2, <2>4 DEF CopiesCurrent
  <2>9. clean => Written'
    <3> SUFFICES ASSUME clean, NEW t \in Sessions
                 PROVE  /\ at'[t].pc \in {"read shadow", "write shadow", "home"} =>
                             (at'[t].name \in NamesIn(passwd') <=> at'[t].op = "add")
                        /\ at'[t].pc = "home" => (at'[t].name \in shadow' <=> at'[t].op = "add")
      BY DEF Written
    <3>1. CASE t = s
      BY <3>1, <2>1, <2>2, <2>4 DEF Written
    <3>2. CASE t # s
      <4>1. at'[t] = at[t]
        BY <3>2, <2>4
      <4>2. Written
        OBVIOUS
      <4>3. passwd' = passwd /\ shadow' = shadow
        BY <2>1
      <4> QED BY <4>1, <4>2, <4>3 DEF Written
    <3> QED BY <3>1, <3>2
  <2> QED BY <2>1, <2>7, <2>8, <2>9
<1>5. ASSUME NEW s \in Sessions, WriteShadow(s), clean'
      PROVE  DistinctNames' /\ Settled' /\ CopiesCurrent' /\ Written'
  <2> DEFINE w == Working("home", at[s].op, at[s].name, {})
  <2>1. /\ at[s].pc = "write shadow" /\ at' = [at EXCEPT ![s] = w] /\ shadow' = at[s].copy
        /\ UNCHANGED <<passwd, meant>> /\ clean
        /\ \A t \in Sessions \ {s} : at[t].pc # "write shadow"
    BY <1>5 DEF WriteShadow, Proceed
  <2>2. /\ w.pc = "home" /\ w.op = at[s].op /\ w.name = at[s].name /\ w \in Commands
        /\ at[s].op \in {"add", "del"}
    BY <2>1, <1>t, BusyType DEF Busy, Working, Commands
  <2> HIDE DEF w
  <2>3. at'[s] = w /\ \A t \in Sessions \ {s} : at'[t] = at[t]
    BY <2>1, <2>2, <1>t, AtUpdated
  <2>4. /\ Busy(s) /\ Busy(s)' /\ \A t \in Sessions \ {s} : Busy(t)' <=> Busy(t)
    BY <2>1, <2>2, <2>3 DEF Busy
  <2>5. shadow' = Applied(at[s].op, shadow, at[s].name)
    BY <2>1 DEF CopiesCurrent
  <2>6. \A n : n # at[s].name => (n \in shadow' <=> n \in shadow)
    BY <2>5 DEF Applied
  <2>7. at[s].name \in shadow' <=> at[s].op = "add"
    BY <2>2, <2>5 DEF Applied
  <2>8. \A t \in Sessions : at'[t].name = at[t].name
    BY <2>2, <2>3
  <2>9. DistinctNames'
    <3>1. \A t \in Sessions : Busy(t)' <=> Busy(t)
      BY <2>4
    <3> QED BY <2>1, <2>8, <3>1 DEF DistinctNames
  <2>10. Settled'
    BY <2>1, <2>4, <2>6, <2>8 DEF Settled
  <2>11. CopiesCurrent'
    BY <2>1, <2>2, <2>3 DEF CopiesCurrent
  <2>12. Written'
    <3> SUFFICES ASSUME NEW t \in Sessions
                 PROVE  /\ at'[t].pc \in {"read shadow", "write shadow", "home"} =>
                             (at'[t].name \in NamesIn(passwd') <=> at'[t].op = "add")
                        /\ at'[t].pc = "home" => (at'[t].name \in shadow' <=> at'[t].op = "add")
      BY DEF Written
    <3>1. CASE t = s
      BY <3>1, <2>1, <2>2, <2>3, <2>7 DEF Written
    <3>2. CASE t # s
      <4>1. at'[t] = at[t]
        BY <3>2, <2>3
      <4>2. Busy(t) => at[t].name # at[s].name
        BY <3>2, <2>1, <2>4 DEF DistinctNames
      <4>3. at[t].pc = "home" => at[t].name # at[s].name
        BY <4>2 DEF Busy
      <4> QED BY <4>1, <4>3, <2>1, <2>6 DEF Written
    <3> QED BY <3>1, <3>2
  <2> QED BY <2>9, <2>10, <2>11, <2>12
<1>6. ASSUME NEW s \in Sessions, PasswdRefused(s) \/ ShadowRefused(s) PROVE AgreeInv'
  BY <1>6 DEF PasswdRefused, ShadowRefused
<1>7. ASSUME NEW s \in Sessions, EndCommand(s), clean'
      PROVE  DistinctNames' /\ Settled' /\ CopiesCurrent' /\ Written'
  <2>1. /\ at[s].pc = "home" /\ at' = [at EXCEPT ![s] = Idle] /\ UNCHANGED <<passwd, shadow>>
        /\ clean /\ meant' = [f \in Files |-> Applied(at[s].op, meant[f], at[s].name)]
    BY <1>7 DEF EndCommand
  <2>2. at'[s] = Idle /\ \A t \in Sessions \ {s} : at'[t] = at[t]
    BY <2>1, <1>t, AtUpdated
  <2>3. /\ Busy(s) /\ ~Busy(s)' /\ Idle.pc = "idle"
        /\ \A t \in Sessions \ {s} : Busy(t)' <=> Busy(t)
    BY <2>1, <2>2, IdlePc DEF Busy
  <2>4. at[s].op \in {"add", "del"}
    BY <2>3, <1>t, BusyType
  <2>5. DistinctNames'
    BY <2>1, <2>2, <2>3 DEF DistinctNames
  <2>6. CopiesCurrent' /\ Written'
    <3>1. CopiesCurrent'
      BY <2>1, <2>2, IdlePc DEF CopiesCurrent
    <3>2. Written'
      BY <2>1, <2>2, IdlePc, WrittenStays
    <3> QED BY <3>1, <3>2
  <2>7. Settled'
    <3> SUFFICES ASSUME NEW n \in AllNames, \A t \in Sessions : Busy(t)' => at'[t].name # n
                 PROVE  /\ n \in NamesIn(passwd') <=> n \in meant'["passwd"]
                        /\ n \in shadow' <=> n \in meant'["shadow"]
      BY DEF Settled
    <3>1. /\ meant'["passwd"] = Applied(at[s].op, meant["passwd"], at[s].name)
          /\ meant'["shadow"] = Applied(at[s].op, meant["shadow"], at[s].name)
      BY <2>1 DEF Files
    <3>2. CASE n = at[s].name
      <4>1. /\ n \in NamesIn(passwd) <=> at[s].op = "add"
            /\ n \in shadow <=> at[s].op = "add"
        BY <3>2, <2>1 DEF Written
      <4>2. \A names : n \in Applied(at[s].op, names, n) <=> at[s].op = "add"
        BY <2>4 DEF Applied
      <4> QED BY <3>1, <3>2, <4>1, <4>2, <2>1
    <3>3. CASE n # at[s].name
      <4>1. \A t \in Sessions : Busy(t) => at[t].name # n
        BY <3>3, <2>2, <2>3
      <4> QED BY <4>1, <3>1, <3>3, <2>1 DEF Settled, Applied
    <3> QED BY <3>2, <3>3
  <2> QED BY <2>5, <2>6, <2>7
<1>8. ASSUME NEW s \in Sessions, NEW f \in Files, ReadFlags(s, f) PROVE AgreeInv'
  <2>1. SettingFlags(f) \in Chattrs /\ SettingFlags(f).pc = "set flags"
    BY <1>t DEF SettingFlags, Chattrs, TypeOK
  <2>2. /\ at[s].pc = "idle" /\ at' = [at EXCEPT ![s] = SettingFlags(f)]
        /\ UNCHANGED <<passwd, shadow, meant, clean>>
    BY <1>8 DEF ReadFlags, Idle
  <2>3. at'[s] = SettingFlags(f) /\ \A t \in Sessions \ {s} : at'[t] = at[t]
    BY <2>1, <2>2, <1>t, AtUpdated
  <2>4. ~Busy(s) /\ ~Busy(s)' /\ \A t \in Sessions \ {s} : Busy(t)' <=> Busy(t)
    BY <2>1, <2>2, <2>3 DEF Busy
  <2>5. clean => DistinctNames' /\ Settled'
    BY <2>2, <2>3, <2>4 DEF DistinctNames, Settled
  <2>6. clean => CopiesCurrent' /\ Written'
    <3>1. clean => CopiesCurrent'
      BY <2>1, <2>2, <2>3 DEF CopiesCurrent
    <3>2. clean => Written'
      BY <2>1, <2>2, <2>3, WrittenStays
    <3> QED BY <3>1, <3>2
  <2> QED BY <2>2, <2>5, <2>6
<1>9. ASSUME NEW s \in Sessions, NEW flags \in SUBSET Bits, SetFlags(s, flags) PROVE AgreeInv'
  <2>1. /\ at[s].pc = "set flags" /\ at' = [at EXCEPT ![s] = Idle]
        /\ UNCHANGED <<passwd, shadow, meant, clean>>
    BY <1>9 DEF SetFlags
  <2>2. at'[s] = Idle /\ \A t \in Sessions \ {s} : at'[t] = at[t]
    BY <2>1, <1>t, AtUpdated
  <2>3. /\ ~Busy(s) /\ ~Busy(s)' /\ Idle.pc = "idle"
        /\ \A t \in Sessions \ {s} : Busy(t)' <=> Busy(t)
    BY <2>1, <2>2, IdlePc DEF Busy
  <2>4. clean => DistinctNames' /\ Settled'
    BY <2>1, <2>2, <2>3 DEF DistinctNames, Settled
  <2>5. clean => CopiesCurrent' /\ Written'
    <3>1. clean => CopiesCurrent'
      BY <2>1, <2>2, IdlePc DEF CopiesCurrent
    <3>2. clean => Written'
      BY <2>1, <2>2, IdlePc, WrittenStays
    <3> QED BY <3>1, <3>2
  <2> QED BY <2>1, <2>4, <2>5
<1> QED BY <1>0, <1>1, <1>2, <1>3, <1>4, <1>5, <1>6, <1>7, <1>8, <1>9 DEF Next

\* Undisturbed commands of different sessions, overlapping as they may, leave
\* in both files the accounts they should.
THEOREM FilesAgree == Spec => []AccountsAgree
<1>1. SoundInv /\ AgreeInv => AccountsAgree
  <2> SUFFICES ASSUME TypeOK, Settled, \A s \in Sessions : ~Busy(s)
               PROVE  NamesIn(passwd) = meant["passwd"] /\ shadow = meant["shadow"]
    BY DEF SoundInv, AgreeInv, AccountsAgree
  <2>1. /\ NamesIn(passwd) \subseteq AllNames /\ shadow \subseteq AllNames
        /\ meant["passwd"] \subseteq AllNames /\ meant["shadow"] \subseteq AllNames
    BY DEF TypeOK, NamesIn, Entries, AllNames, Files
  <2>2. \A n \in AllNames : /\ n \in NamesIn(passwd) <=> n \in meant["passwd"]
                            /\ n \in shadow <=> n \in meant["shadow"]
    BY DEF Settled
  <2> QED BY <2>1, <2>2
<1>2. Spec => []AgreeInv
  BY InitAgree, StepAgree, SoundInvariant, PTL DEF Spec
<1> QED BY <1>1, <1>2, SoundInvariant, PTL

=============================================================================
