----------------------------- MODULE CloserProofs -----------------------------
(***************************************************************************)
(* What CloseAll promises, for any functions, any number of callers and    *)
(* any moment at which Add is called.                                      *)
(***************************************************************************)
EXTENDS Closer, SequenceTheorems, TLAPS

\* All but the last element of a sequence, and the last.
LEMMA FrontAndLast ==
    ASSUME NEW S, NEW s \in Seq(S), s # <<>>
    PROVE  /\ Len(s) \in Nat /\ Len(s) > 0
           /\ Front(s) \in Seq(S)
           /\ Len(Front(s)) = Len(s) - 1
           /\ \A i \in 1 .. Len(s) - 1 : Front(s)[i] = s[i]
           /\ Last(s) = s[Len(s)] /\ Last(s) \in S
<1>1. Len(s) \in Nat /\ Len(s) > 0
  BY EmptySeq, LenProperties
<1>2. s[Len(s)] \in S
  BY <1>1, ElementOfSeq
<1>3. /\ SubSeq(s, 1, Len(s) - 1) \in Seq(S)
      /\ Len(SubSeq(s, 1, Len(s) - 1)) = Len(s) - 1
      /\ \A i \in 1 .. Len(s) - 1 : SubSeq(s, 1, Len(s) - 1)[i] = s[i]
  <2> PICK n \in Nat : Len(s) = n + 1
    <3>1. Len(s) - 1 \in Nat /\ Len(s) = (Len(s) - 1) + 1
      BY <1>1
    <3> QED
      BY <3>1
  <2>1. n \in Int /\ \A i \in 1 .. n : s[i] \in S
    BY <1>1, ElementOfSeq
  <2>2. n - 1 + 1 = n /\ (1 <= n \/ n = 0)
    OBVIOUS
  <2>3. \A i \in 1 .. n : 1 + i - 1 = i
    OBVIOUS
  <2>4. /\ SubSeq(s, 1, n) \in Seq(S)
        /\ Len(SubSeq(s, 1, n)) = IF 1 <= n THEN n - 1 + 1 ELSE 0
        /\ \A i \in 1 .. n - 1 + 1 : SubSeq(s, 1, n)[i] = s[1 + i - 1]
    BY <2>1, SubSeqProperties
  <2>5. /\ SubSeq(s, 1, n) \in Seq(S)
        /\ Len(SubSeq(s, 1, n)) = n
        /\ \A i \in 1 .. n : SubSeq(s, 1, n)[i] = s[i]
    BY <2>2, <2>3, <2>4
  <2>6. Len(s) - 1 = n
    OBVIOUS
  <2> QED
    BY <2>5, <2>6
<1> QED
  BY <1>1, <1>2, <1>3 DEF Front, Last

\* A longer sequence: its length, its last element and the others.
LEMMA Appended ==
    ASSUME NEW S, NEW s \in Seq(S), NEW e \in S
    PROVE  /\ Append(s, e) \in Seq(S)
           /\ Len(s) \in Nat /\ Len(Append(s, e)) = Len(s) + 1
           /\ \A i \in 1 .. Len(s) : Append(s, e)[i] = s[i]
           /\ Append(s, e)[Len(s) + 1] = e
BY AppendProperties, LenProperties
-----------------------------------------------------------------------------
Labels == {"idle", "once", "snapshot", "close", "returned"}

\* Nobody has taken the functions yet.
Untaken == once = "new" \/ \E k \in Callers : caller[k] = "snapshot"

\* The position, in the order of Add, of the last function that was taken.
Taken == Len(todo) + Len(closed)

\* A function is added once.
AddedOnce ==
    /\ added \in Seq(Funcs)
    /\ \A i, j \in DOMAIN added : added[i] = added[j] => i = j

\* What was taken is the first functions that were added: todo is what is left
\* of them and closed, backwards, what has run.
ClosingBackwards ==
    /\ funcs \in Seq(Funcs) /\ todo \in Seq(Funcs) /\ closed \in Seq(Funcs)
    /\ Untaken => funcs = added /\ todo = <<>> /\ closed = <<>>
    /\ Taken <= Len(added)
    /\ \A i \in 1 .. Len(todo) : todo[i] = added[i]
    /\ \A i \in 1 .. Len(closed) : closed[i] = added[Taken + 1 - i]

\* sync.Once: one caller runs the body, and the others return after it.
OneRuns ==
    /\ caller \in [Callers -> Labels]
    /\ result \in [Callers -> SUBSET Funcs]
    /\ once \in {"new", "running", "done"}
    /\ once = "new" => \A k \in Callers : caller[k] \in {"idle", "once"}
    /\ once = "running" =>
          \E k \in Callers : /\ caller[k] \in {"snapshot", "close"}
                             /\ \A other \in Callers \ {k} : caller[other] \in {"idle", "once"}
    /\ once = "done" => /\ todo = <<>>
                        /\ \E k \in Callers : caller[k] = "returned"
                        /\ \A k \in Callers : caller[k] \in {"idle", "once", "returned"}

\* The errors of the loop are returned by the caller that ran it.
ErrorsKept ==
    /\ errs = failed /\ failed \subseteq Funcs
    /\ once # "done" => \A k \in Callers : result[k] = {}
    /\ once = "done" =>
          \E k \in Callers : /\ result[k] = failed
                             /\ \A other \in Callers \ {k} : result[other] = {}

\* What was added before the first CloseAll is among what is taken.
EarlyTaken ==
    \A f \in early : \E i \in 1 .. Len(added) : added[i] = f /\ (Untaken \/ i <= Taken)

\* The inductive invariant.
CloserInv == AddedOnce /\ ClosingBackwards /\ OneRuns /\ ErrorsKept /\ EarlyTaken

\* As long as nobody has called CloseAll, sync.Once is new.
LEMMA CalledFirst ==
    ASSUME OneRuns, ~Called
    PROVE  once = "new"
BY DEF OneRuns, Called

\* Add does not disturb a CloseAll that is going on.
LEMMA AddStep ==
    ASSUME CloserInv, NEW f \in Funcs, Add(f)
    PROVE  CloserInv'
<1> USE DEF CloserInv
<1>1. /\ added' \in Seq(Funcs)
      /\ Len(added) \in Nat /\ Len(added') = Len(added) + 1
      /\ \A i \in 1 .. Len(added) : added'[i] = added[i] /\ added[i] # f
      /\ added'[Len(added) + 1] = f
  BY Appended DEF Add, AddedOnce, Contains
<1>2. /\ DOMAIN added = 1 .. Len(added)
      /\ DOMAIN added' = 1 .. Len(added')
  BY <1>1, LenProperties DEF AddedOnce
<1>3. UNCHANGED <<once, todo, errs, caller, result, closed, failed>>
  BY DEF Add
<1>4. AddedOnce'
  <2> SUFFICES ASSUME NEW i \in 1 .. Len(added) + 1, NEW j \in 1 .. Len(added) + 1,
                      added'[i] = added'[j]
               PROVE  i = j
    BY <1>1, <1>2 DEF AddedOnce
  <2>1. /\ i \in 1 .. Len(added) \/ i = Len(added) + 1
        /\ j \in 1 .. Len(added) \/ j = Len(added) + 1
    BY <1>1
  <2> QED
    BY <1>1, <1>2, <2>1 DEF AddedOnce
<1>5. Untaken' = Untaken /\ Taken' = Taken
  BY <1>3 DEF Untaken, Taken
<1>6. Len(todo) \in Nat /\ Len(closed) \in Nat /\ Taken \in Nat /\ Taken <= Len(added)
  BY LenProperties DEF ClosingBackwards, Taken
<1>7. ClosingBackwards'
  <2>1. funcs' \in Seq(Funcs) /\ (Untaken => funcs' = added')
    BY Appended DEF Add, ClosingBackwards
  <2>2. \A i \in 1 .. Len(todo) : i \in 1 .. Len(added)
    BY <1>1, <1>6 DEF Taken
  <2>3. \A i \in 1 .. Len(closed) : Taken + 1 - i \in 1 .. Len(added)
    BY <1>1, <1>6 DEF Taken
  <2> QED
    BY <1>1, <1>3, <1>5, <1>6, <2>1, <2>2, <2>3 DEF ClosingBackwards
<1>8. OneRuns' /\ ErrorsKept'
  BY <1>3 DEF OneRuns, ErrorsKept
<1>9. EarlyTaken'
  <2> SUFFICES ASSUME NEW g \in early'
               PROVE  \E i \in 1 .. Len(added') : added'[i] = g /\ (Untaken \/ i <= Taken)
    BY <1>5 DEF EarlyTaken
  <2>1. CASE g \in early
    <3>1. PICK i \in 1 .. Len(added) : added[i] = g /\ (Untaken \/ i <= Taken)
      BY <2>1 DEF EarlyTaken
    <3>2. i \in 1 .. Len(added')
      BY <1>1
    <3> QED
      BY <1>1, <3>1, <3>2
  <2>2. CASE g \notin early
    <3>1. g = f /\ ~Called
      BY <2>2 DEF Add
    <3>2. Untaken
      BY <3>1, CalledFirst DEF Untaken
    <3>3. Len(added') \in 1 .. Len(added')
      BY <1>1
    <3> QED
      BY <1>1, <3>1, <3>2, <3>3
  <2> QED
    BY <2>1, <2>2
<1> QED
  BY <1>4, <1>7, <1>8, <1>9

\* What the steps of sync.Once have in common: no function is touched.
LEMMA OnceStep ==
    ASSUME CloserInv, NEW k \in Callers, CloseAll(k) \/ RunOnce(k) \/ SkipOnce(k)
    PROVE  CloserInv'
<1> USE DEF CloserInv
<1>1. UNCHANGED <<funcs, todo, errs, result, added, early, closed, failed>>
  BY DEF CloseAll, RunOnce, SkipOnce
<1>2. /\ \A other \in Callers : caller'[other] = IF other = k THEN caller'[k] ELSE caller[other]
      /\ caller' \in [Callers -> Labels]
      /\ caller'[k] \in {"once", "snapshot", "returned"}
      /\ caller[k] \in {"idle", "once"}
  BY DEF CloseAll, RunOnce, SkipOnce, Goto, OneRuns, Labels
<1>3. OneRuns'
  <2>1. CASE CloseAll(k)
    BY <1>1, <1>2, <2>1 DEF CloseAll, Goto, OneRuns
  <2>2. CASE RunOnce(k)
    BY <1>1, <1>2, <2>2 DEF RunOnce, Goto, OneRuns
  <2>3. CASE SkipOnce(k)
    BY <1>1, <1>2, <2>3 DEF SkipOnce, Goto, OneRuns
  <2> QED
    BY <2>1, <2>2, <2>3
<1>4. Untaken' = Untaken
  BY <1>2 DEF CloseAll, RunOnce, SkipOnce, Goto, Untaken, OneRuns
<1>5. once' = "done" <=> once = "done"
  BY DEF CloseAll, RunOnce, SkipOnce
<1> QED
  BY <1>1, <1>3, <1>4, <1>5 DEF AddedOnce, ClosingBackwards, Taken, ErrorsKept, EarlyTaken

\* All that has been added so far is taken.
LEMMA SnapshotStep ==
    ASSUME CloserInv, NEW k \in Callers, Snapshot(k)
    PROVE  CloserInv'
<1> USE DEF CloserInv
<1>1. Untaken
  BY DEF Snapshot, Untaken
<1>2. funcs = added /\ todo = <<>> /\ closed = <<>>
  BY <1>1 DEF ClosingBackwards
<1>3. /\ todo' = added /\ funcs' = <<>>
      /\ UNCHANGED <<once, errs, result, added, early, closed, failed>>
  BY <1>2 DEF Snapshot
<1>4. /\ once = "running"
      /\ \A other \in Callers \ {k} : caller[other] \in {"idle", "once"}
  BY DEF Snapshot, OneRuns
<1>5. /\ caller' \in [Callers -> Labels]
      /\ caller'[k] = "close"
      /\ \A other \in Callers \ {k} : caller'[other] = caller[other]
  BY DEF Snapshot, Goto, OneRuns, Labels
<1>6. OneRuns' /\ ~Untaken'
  BY <1>3, <1>4, <1>5 DEF OneRuns, Untaken
<1>7. /\ Len(added) \in Nat /\ Len(closed) = 0
      /\ Taken' = Len(added)
  BY <1>2, <1>3, LenProperties, EmptySeq DEF Taken, AddedOnce
<1>8. ClosingBackwards'
  <2>1. funcs' \in Seq(Funcs) /\ todo' \in Seq(Funcs) /\ closed' \in Seq(Funcs)
    BY <1>3, EmptySeq DEF ClosingBackwards, AddedOnce
  <2>2. 1 .. Len(closed') = {}
    BY <1>3, <1>7
  <2> QED
    BY <1>3, <1>6, <1>7, <2>1, <2>2 DEF ClosingBackwards
<1>9. EarlyTaken'
  BY <1>3, <1>7 DEF EarlyTaken
<1> QED
  BY <1>3, <1>6, <1>8, <1>9 DEF AddedOnce, ErrorsKept

\* The last function that is left moves from todo to closed.
LEMMA RunFuncStep ==
    ASSUME CloserInv, NEW k \in Callers, RunFunc(k)
    PROVE  CloserInv'
<1> USE DEF CloserInv
<1>1. /\ caller[k] = "close" /\ todo # <<>>
      /\ todo' = Front(todo) /\ closed' = Append(closed, Last(todo))
      /\ UNCHANGED <<funcs, once, caller, result, added, early>>
  BY DEF RunFunc
<1>2. /\ Len(todo) \in Nat /\ Len(todo) > 0
      /\ todo' \in Seq(Funcs)
      /\ Len(todo') = Len(todo) - 1
      /\ \A i \in 1 .. Len(todo) - 1 : todo'[i] = todo[i]
      /\ Last(todo) = todo[Len(todo)] /\ Last(todo) \in Funcs
  BY <1>1, FrontAndLast DEF ClosingBackwards
<1>3. /\ closed' \in Seq(Funcs)
      /\ Len(closed) \in Nat /\ Len(closed') = Len(closed) + 1
      /\ \A i \in 1 .. Len(closed) : closed'[i] = closed[i]
      /\ closed'[Len(closed) + 1] = Last(todo)
  BY <1>1, <1>2, Appended DEF ClosingBackwards
<1>4. Taken' = Taken /\ Taken = Len(todo) + Len(closed)
  BY <1>2, <1>3 DEF Taken
<1>5. once = "running"
  BY <1>1 DEF OneRuns
<1>6. ~Untaken /\ ~Untaken'
  BY <1>1, <1>5 DEF OneRuns, Untaken
<1>7. ClosingBackwards'
  <2>1. \A i \in 1 .. Len(todo') : todo'[i] = added[i]
    BY <1>2 DEF ClosingBackwards
  <2>2. ASSUME NEW i \in 1 .. Len(closed')
        PROVE  closed'[i] = added[Taken + 1 - i]
    <3>1. CASE i \in 1 .. Len(closed)
      BY <1>3, <3>1 DEF ClosingBackwards
    <3>2. CASE i = Len(closed) + 1
      <4>1. Taken + 1 - i = Len(todo)
        BY <1>2, <1>3, <1>4, <3>2
      <4>2. todo[Len(todo)] = added[Len(todo)]
        BY <1>2 DEF ClosingBackwards
      <4> QED
        BY <1>2, <1>3, <3>2, <4>1, <4>2
    <3> QED
      BY <1>3, <3>1, <3>2
  <2> QED
    BY <1>1, <1>2, <1>3, <1>4, <1>6, <2>1, <2>2 DEF ClosingBackwards
<1>8. OneRuns'
  BY <1>1, <1>5 DEF OneRuns
<1>9. ErrorsKept'
  BY <1>1, <1>2, <1>5 DEF RunFunc, ErrorsKept
<1>10. EarlyTaken'
  BY <1>1, <1>4, <1>6 DEF EarlyTaken
<1> QED
  BY <1>1, <1>7, <1>8, <1>9, <1>10 DEF AddedOnce

\* The caller that ran the body takes the errors with it.
LEMMA ReturnStep ==
    ASSUME CloserInv, NEW k \in Callers, Return(k)
    PROVE  CloserInv'
<1> USE DEF CloserInv
<1>1. /\ caller[k] = "close" /\ todo = <<>> /\ once' = "done"
      /\ UNCHANGED <<funcs, todo, errs, added, early, closed, failed>>
  BY DEF Return
<1>2. /\ once = "running"
      /\ \A other \in Callers \ {k} : caller[other] \in {"idle", "once"}
  BY <1>1 DEF OneRuns
<1>3. /\ caller' \in [Callers -> Labels]
      /\ caller'[k] = "returned"
      /\ \A other \in Callers \ {k} : caller'[other] = caller[other]
  BY DEF Return, Goto, OneRuns, Labels
<1>4. /\ result' \in [Callers -> SUBSET Funcs]
      /\ result'[k] = failed
      /\ \A other \in Callers \ {k} : result'[other] = {}
  BY <1>2 DEF Return, OneRuns, ErrorsKept
<1>5. ~Untaken /\ ~Untaken'
  BY <1>1, <1>2, <1>3 DEF Untaken
<1>6. OneRuns' /\ ErrorsKept'
  BY <1>1, <1>2, <1>3, <1>4 DEF OneRuns, ErrorsKept
<1> QED
  BY <1>1, <1>5, <1>6 DEF AddedOnce, ClosingBackwards, Taken, EarlyTaken

\* Every step keeps the invariant.
LEMMA CloserStep == CloserInv /\ [Next]_vars => CloserInv'
<1> SUFFICES ASSUME CloserInv, [Next]_vars
             PROVE  CloserInv'
  OBVIOUS
<1>1. CASE UNCHANGED vars
  BY <1>1 DEF vars, CloserInv, AddedOnce, ClosingBackwards, Taken, Untaken, OneRuns, ErrorsKept,
              EarlyTaken
<1>2. Returned => UNCHANGED vars
  BY DEF Returned
<1> QED
  BY <1>1, <1>2, AddStep, OnceStep, SnapshotStep, RunFuncStep, ReturnStep DEF Next, Close

\* The invariant holds in every reachable state.
LEMMA CloserCorrect == Spec => []CloserInv
<1>1. Init => CloserInv
  <2> SUFFICES ASSUME Init
               PROVE  CloserInv
    OBVIOUS
  <2>1. <<>> \in Seq(Funcs) /\ Len(<<>>) = 0
    BY EmptySeq
  <2>2. AddedOnce /\ ClosingBackwards /\ EarlyTaken
    BY <2>1, LenProperties DEF Init, AddedOnce, ClosingBackwards, Untaken, Taken, EarlyTaken
  <2>3. OneRuns /\ ErrorsKept
    BY DEF Init, OneRuns, ErrorsKept, Labels
  <2> QED
    BY <2>2, <2>3 DEF CloserInv
<1> QED
  BY <1>1, CloserStep, PTL DEF Spec
-----------------------------------------------------------------------------
\* No function runs twice, and a function runs before every one that was added
\* before it, however Add and several CloseAll interleave.
THEOREM BackwardsOnce == Spec => []ClosedInReverse
<1>1. CloserInv => ClosedInReverse
  <2> SUFFICES ASSUME CloserInv, NEW i \in DOMAIN closed, NEW j \in DOMAIN closed, i < j
               PROVE  Position(closed[i]) > Position(closed[j])
    BY DEF ClosedInReverse
  <2>1. /\ DOMAIN closed = 1 .. Len(closed) /\ DOMAIN added = 1 .. Len(added)
        /\ Len(closed) \in Nat /\ Len(todo) \in Nat /\ Len(added) \in Nat
        /\ Taken \in Nat /\ Taken <= Len(added) /\ Len(closed) <= Taken
    BY LenProperties DEF CloserInv, ClosingBackwards, AddedOnce, Taken
  <2>2. ASSUME NEW n \in DOMAIN closed
        PROVE  /\ Taken + 1 - n \in DOMAIN added
               /\ closed[n] = added[Taken + 1 - n]
    BY <2>1 DEF CloserInv, ClosingBackwards
  <2>3. ASSUME NEW n \in DOMAIN added
        PROVE  Position(added[n]) = n
    BY DEF Position, CloserInv, AddedOnce
  <2>4. /\ Position(closed[i]) = Taken + 1 - i
        /\ Position(closed[j]) = Taken + 1 - j
    BY <2>2, <2>3
  <2>5. i \in Nat /\ j \in Nat
    BY <2>1
  <2> QED
    BY <2>1, <2>4, <2>5
<1> QED
  BY <1>1, CloserCorrect, PTL

\* Whichever CloseAll returns, all that had been added when the first was called
\* is closed by then.
THEOREM ClosedOnReturn == Spec => []ReturnMeansClosed
<1>1. CloserInv => ReturnMeansClosed
  <2> SUFFICES ASSUME CloserInv, NEW k \in Callers, caller[k] = "returned", NEW f \in early
               PROVE  Contains(closed, f)
    BY DEF ReturnMeansClosed
  <2>1. once = "done" /\ todo = <<>> /\ ~Untaken
    BY DEF CloserInv, OneRuns, Untaken
  <2>2. PICK i \in 1 .. Len(added) : added[i] = f /\ i <= Taken
    BY <2>1 DEF CloserInv, EarlyTaken
  <2>3. Len(closed) \in Nat /\ Taken = Len(closed)
    BY <2>1, LenProperties, EmptySeq DEF CloserInv, ClosingBackwards, Taken
  <2>4. Taken + 1 - i \in 1 .. Len(closed) /\ Taken + 1 - (Taken + 1 - i) = i
    BY <2>2, <2>3
  <2>5. closed[Taken + 1 - i] = f
    BY <2>2, <2>4 DEF CloserInv, ClosingBackwards
  <2> QED
    BY <2>4, <2>5 DEF Contains
<1> QED
  BY <1>1, CloserCorrect, PTL

\* Every failure is reported, to one caller and to one only.
THEOREM ReportedOnce == Spec => []FailuresReported
<1>1. CloserInv => FailuresReported
  BY DEF CloserInv, OneRuns, ErrorsKept, FailuresReported
<1> QED
  BY <1>1, CloserCorrect, PTL
=============================================================================
