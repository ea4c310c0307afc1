------------------------- MODULE ShellCommands_proofs -------------------------
(***************************************************************************)
(* Theorems about ShellCommands, for any number of polling conditions, any *)
(* operations of the script, any timeout and any way of numbering calls.   *)
(***************************************************************************)
EXTENDS ShellCommands, FiniteSetTheorems, SequenceTheorems, NaturalsInduction,
        WellFoundedInduction, TLAPS

Starts == {"start", "start_rebootable"}
Trying == {"succeed", "fail", "wait_until_succeeds", "wait_until_fails"}

-----------------------------------------------------------------------------
(* Which calls there are, and which may be made from which.                *)

Placed(f) ==
    /\ f.op = "execute" => f.at \in {"callbacks", "connect", "send", "output", "ask", "status"}
    /\ f.op = "check" => f.at \in {"evaluate", "evaluated"} /\ f.cond # 0
    /\ f.op = "poll_wait" => f.at \in {"try", "tried"} /\ f.cond # 0
    /\ f.op \in Starts => f.at = "try"
    /\ f.op \in Trying => f.at \in {"try", "tried"}
    /\ f.op = "wait_for_unit" => f.at \in {"try", "tried", "jobs", "again"}
    /\ f.op = "reboot" => f.at \in {"callbacks", "key", "reset"}
    /\ f.op = "crash" => f.at \in {"callbacks", "quit", "wait"}
    /\ f.op = "shutdown" => f.at \in {"poweroff", "wait"}
    /\ f.op = "switch_root" => f.at \in {"initrd", "isolate", "isolated", "connect"}

(* a is a call that b makes where it is. *)
Link(a, b) ==
    \/ a.op = "check" /\ (b.at = "callbacks" \/ (b.op = "poll_wait" /\ b.at = "tried"))
    \/ a.op = "execute" /\ a.cmd = "test"
          /\ \/ b.at = "evaluated" /\ a.cond # 0
             \/ b.op \in Trying /\ b.at = "tried"
    \/ a.op = "execute" /\ a.cmd = "show" /\ b.op = "wait_for_unit" /\ b.at \in {"tried", "again"}
    \/ a.op = "execute" /\ a.cmd = "list-jobs" /\ b.at = "jobs"
    \/ a.op = "execute" /\ a.cmd = "isolate" /\ b.at = "isolated"
    \/ a.op = "wait_for_unit" /\ b.at = "isolate"

Shape(s) ==
    /\ \A k \in 1 .. Len(s) : Placed(s[k])
    /\ \A k \in 1 .. Len(s) - 1 : Link(s[k], s[k + 1])
    /\ s # <<>> => s[Len(s)].op \in Op
                   /\ (s[Len(s)].op = "execute" => s[Len(s)].cmd = "test")

(* A condition is checked once at a time, and its entry_count says so. *)
Checks(s, k, i) == s[k].op = "check" /\ s[k].cond = i

Counted(e, s) ==
    /\ \A i \in Polled : e[i] = 1 <=> \E k \in 1 .. Len(s) : Checks(s, k, i)
    /\ \A i \in Polled : \A j, k \in 1 .. Len(s) : Checks(s, j, i) /\ Checks(s, k, i) => j = k

StackInv ==
    /\ stack \in Seq(Frames) /\ entries \in [Polled -> 0 .. 1]
    /\ raised \in BOOLEAN /\ (raised => stack # <<>>)
    /\ Shape(stack) /\ Counted(entries, stack)

(* What a step does to the stack t becomes of. *)
Moved(t, s, f)     == t = <<f>> \o Tail(s)
Pushed(t, s, g, f) == t = <<g, f>> \o Tail(s)

LEMMA MovedIs ==
    ASSUME NEW s \in Seq(Frames), s # <<>>, NEW f \in Frames, NEW t, Moved(t, s, f)
    PROVE  /\ t \in Seq(Frames) /\ t # <<>> /\ Len(t) = Len(s) /\ t[1] = f
           /\ \A k \in 2 .. Len(s) : t[k] = s[k]
<1>1. Tail(s) \in Seq(Frames) /\ Len(Tail(s)) = Len(s) - 1 /\ Len(s) \in Nat /\ Len(s) >= 1
      /\ \A i \in 1 .. Len(s) - 1 : Tail(s)[i] = s[i + 1]
  BY HeadTailProperties
<1> QED
  BY <1>1 DEF Moved

LEMMA PushedIs ==
    ASSUME NEW s \in Seq(Frames), s # <<>>, NEW f \in Frames, NEW g \in Frames,
           NEW t, Pushed(t, s, g, f)
    PROVE  /\ t \in Seq(Frames) /\ t # <<>> /\ Len(t) = Len(s) + 1 /\ t[1] = g /\ t[2] = f
           /\ \A k \in 3 .. Len(s) + 1 : t[k] = s[k - 1]
<1>1. Tail(s) \in Seq(Frames) /\ Len(Tail(s)) = Len(s) - 1 /\ Len(s) \in Nat /\ Len(s) >= 1
      /\ \A i \in 1 .. Len(s) - 1 : Tail(s)[i] = s[i + 1]
  BY HeadTailProperties
<1> QED
  BY <1>1 DEF Pushed

LEMMA PoppedIs ==
    ASSUME NEW s \in Seq(Frames), s # <<>>
    PROVE  /\ Tail(s) \in Seq(Frames) /\ Len(Tail(s)) = Len(s) - 1 /\ Len(s) \in Nat /\ Len(s) >= 1
           /\ \A k \in 1 .. Len(s) - 1 : Tail(s)[k] = s[k + 1]
           /\ Head(s) = s[1]
           /\ Tail(s) # <<>> <=> Len(s) > 1
<1>1. PICK t : t = Tail(s)
  OBVIOUS
<1>2. /\ t \in Seq(Frames) /\ Len(t) = Len(s) - 1 /\ Len(s) \in Nat /\ Len(s) >= 1
      /\ \A k \in 1 .. Len(s) - 1 : t[k] = s[k + 1]
  BY <1>1, HeadTailProperties
<1>3. Head(s) = s[1]
  OBVIOUS
<1>4. t # <<>> <=> Len(s) > 1
  BY <1>2
<1> QED
  BY ONLY <1>1, <1>2, <1>3, <1>4

-----------------------------------------------------------------------------
(* Pushing, popping and going on keep the shape.                           *)

Alike(f, g) == f.op = g.op /\ f.cmd = g.cmd /\ f.cond = g.cond /\ f.call = g.call

LEMMA MovedKeepsShape ==
    ASSUME NEW s \in Seq(Frames), s # <<>>, NEW f \in Frames, NEW t, Moved(t, s, f),
           Shape(s), Placed(f), Alike(f, s[1])
    PROVE  Shape(t)
<1>1. /\ Len(t) = Len(s) /\ t[1] = f /\ Len(s) \in Nat /\ Len(s) >= 1
      /\ \A k \in 2 .. Len(s) : t[k] = s[k]
  BY MovedIs
<1>2. \A k \in 1 .. Len(t) : Placed(t[k])
  BY <1>1 DEF Shape
<1>3. ASSUME NEW k \in 1 .. Len(t) - 1 PROVE Link(t[k], t[k + 1])
  <2>1. Link(s[k], s[k + 1])
    BY <1>1 DEF Shape
  <2>2. t[k + 1] = s[k + 1] /\ (t[k] = s[k] \/ k = 1)
    BY <1>1
  <2>3. CASE k = 1
    BY <1>1, <2>1, <2>2, <2>3 DEF Link, Alike
  <2> QED
    BY <2>1, <2>2, <2>3
<1>4. t[Len(t)].op \in Op /\ (t[Len(t)].op = "execute" => t[Len(t)].cmd = "test")
  BY <1>1 DEF Shape, Alike
<1> QED
  BY <1>2, <1>3, <1>4 DEF Shape

LEMMA PushedKeepsShape ==
    ASSUME NEW s \in Seq(Frames), s # <<>>, NEW f \in Frames, NEW g \in Frames,
           NEW t, Pushed(t, s, g, f),
           Shape(s), Placed(f), Alike(f, s[1]), Placed(g), Link(g, f)
    PROVE  Shape(t)
<1>1. /\ Len(t) = Len(s) + 1 /\ t[1] = g /\ t[2] = f /\ Len(s) \in Nat /\ Len(s) >= 1
      /\ \A k \in 3 .. Len(s) + 1 : t[k] = s[k - 1]
  BY PushedIs
<1>2. \A k \in 1 .. Len(t) : Placed(t[k])
  BY <1>1 DEF Shape
<1>3. ASSUME NEW k \in 1 .. Len(t) - 1 PROVE Link(t[k], t[k + 1])
  <2>1. CASE k = 1
    BY <1>1, <2>1
  <2>2. CASE k = 2
    <3>1. Link(s[1], s[2]) /\ t[3] = s[2]
      BY <1>1, <2>2 DEF Shape
    <3> QED
      BY <1>1, <2>2, <3>1 DEF Link, Alike
  <2>3. CASE k > 2
    <3>1. t[k] = s[k - 1] /\ t[k + 1] = s[(k - 1) + 1] /\ k - 1 \in 1 .. Len(s) - 1
      BY <1>1, <2>3
    <3> QED
      BY <3>1 DEF Shape
  <2> QED
    BY <2>1, <2>2, <2>3
<1>4. t[Len(t)].op \in Op /\ (t[Len(t)].op = "execute" => t[Len(t)].cmd = "test")
  <2>1. CASE Len(s) = 1
    BY <1>1, <2>1 DEF Shape, Alike
  <2>2. CASE Len(s) # 1
    <3>1. PICK n : n = Len(s)
      OBVIOUS
    <3>2. n \in Nat /\ n >= 1 /\ n # 1 /\ Len(t) = n + 1 /\ \A k \in 3 .. n + 1 : t[k] = s[k - 1]
      BY <1>1, <2>2, <3>1
    <3>3. n + 1 \in 3 .. n + 1 /\ n + 1 - 1 = n
      BY ONLY <3>2
    <3>4. t[Len(t)] = s[Len(s)]
      BY ONLY <3>1, <3>2, <3>3
    <3>5. s[Len(s)].op \in Op /\ (s[Len(s)].op = "execute" => s[Len(s)].cmd = "test")
      BY DEF Shape
    <3> QED
      BY ONLY <3>4, <3>5
  <2> QED
    BY ONLY <2>1, <2>2
<1> QED
  BY <1>2, <1>3, <1>4 DEF Shape

LEMMA PoppedKeepsShape ==
    ASSUME NEW s \in Seq(Frames), s # <<>>, Shape(s)
    PROVE  Shape(Tail(s))
<1>1. PICK t : t = Tail(s)
  OBVIOUS
<1>2. /\ Len(t) = Len(s) - 1 /\ Len(s) \in Nat /\ Len(s) >= 1
      /\ \A k \in 1 .. Len(s) - 1 : t[k] = s[k + 1]
      /\ t # <<>> <=> Len(s) > 1
  BY <1>1, PoppedIs
<1>3. ASSUME NEW k \in 1 .. Len(t) - 1 PROVE Link(t[k], t[k + 1])
  BY <1>2 DEF Shape
<1>4. \A k \in 1 .. Len(t) : Placed(t[k])
  BY <1>2 DEF Shape
<1>5. t # <<>> => t[Len(t)] = s[Len(s)]
  BY <1>2
<1> QED
  BY <1>1, <1>2, <1>3, <1>4, <1>5 DEF Shape

-----------------------------------------------------------------------------
(* So do the counts of the checks, and there are no more than conditions.  *)

LEMMA MovedKeepsCount ==
    ASSUME NEW s \in Seq(Frames), s # <<>>, NEW f \in Frames, NEW t, Moved(t, s, f),
           NEW e, Counted(e, s), Alike(f, s[1])
    PROVE  Counted(e, t)
<1>1. /\ Len(t) = Len(s) /\ t[1] = f /\ \A k \in 2 .. Len(s) : t[k] = s[k]
  BY MovedIs
<1>2. ASSUME NEW k \in 1 .. Len(s), NEW i \in Polled
      PROVE  Checks(t, k, i) <=> Checks(s, k, i)
  <2>1. k = 1 \/ t[k] = s[k]
    BY <1>1
  <2> QED
    BY <1>1, <2>1 DEF Checks, Alike
<1> QED
  BY <1>1, <1>2 DEF Counted

LEMMA PushedChecks ==
    ASSUME NEW s \in Seq(Frames), s # <<>>, NEW f \in Frames, NEW g \in Frames,
           NEW t, Pushed(t, s, g, f), Alike(f, s[1]), NEW i
    PROVE  /\ Checks(t, 1, i) <=> g.op = "check" /\ g.cond = i
           /\ \A k \in 1 .. Len(s) : Checks(t, k + 1, i) <=> Checks(s, k, i)
<1>1. /\ Len(t) = Len(s) + 1 /\ t[1] = g /\ t[2] = f
      /\ \A k \in 3 .. Len(s) + 1 : t[k] = s[k - 1]
  BY PushedIs
<1>2. ASSUME NEW k \in 1 .. Len(s) PROVE Checks(t, k + 1, i) <=> Checks(s, k, i)
  <2>1. k = 1 \/ t[k + 1] = s[k]
    BY <1>1
  <2> QED
    BY <1>1, <2>1 DEF Checks, Alike
<1> QED
  BY <1>1, <1>2 DEF Checks

LEMMA PushedKeepsCount ==
    ASSUME NEW s \in Seq(Frames), s # <<>>, NEW f \in Frames, NEW g \in Frames,
           NEW t, Pushed(t, s, g, f), Alike(f, s[1]), g.op # "check",
           NEW e, Counted(e, s)
    PROVE  Counted(e, t)
<1>0. Len(s) \in Nat /\ Len(t) = Len(s) + 1
  BY PushedIs
<1>1. PICK n : n = Len(s) /\ n \in Nat /\ Len(t) = n + 1
  BY <1>0
<1>2. \A i : ~Checks(t, 1, i) /\ \A k \in 1 .. n : Checks(t, k + 1, i) <=> Checks(s, k, i)
  BY <1>1, PushedChecks
<1>3. \A k \in 1 .. n + 1 : k = 1 \/ \E j \in 1 .. n : k = j + 1
  <2>1. \A k \in 1 .. n + 1 : k = 1 \/ (k - 1 \in 1 .. n /\ k = (k - 1) + 1)
    BY ONLY <1>1
  <2> QED
    BY ONLY <2>1
<1>4. \A j \in 1 .. n : j + 1 \in 1 .. n + 1
  BY ONLY <1>1
<1>5. ASSUME NEW i \in Polled
      PROVE  (\E k \in 1 .. n + 1 : Checks(t, k, i)) <=> (\E k \in 1 .. n : Checks(s, k, i))
  BY ONLY <1>2, <1>3, <1>4
<1>6. ASSUME NEW i \in Polled, NEW j \in 1 .. n + 1, NEW k \in 1 .. n + 1,
             Checks(t, j, i), Checks(t, k, i)
      PROVE  j = k
  <2>1. PICK jj \in 1 .. n : j = jj + 1
    BY <1>2, <1>3, <1>6
  <2>2. PICK kk \in 1 .. n : k = kk + 1
    BY <1>2, <1>3, <1>6
  <2>3. jj = kk
    BY <1>1, <1>2, <1>6, <2>1, <2>2 DEF Counted
  <2> QED
    BY <2>1, <2>2, <2>3
<1> QED
  BY <1>1, <1>5, <1>6 DEF Counted

Asks(g, c) == g.op = "check" /\ g.cond = c
OneMore(d, e, c) == d = [e EXCEPT ![c] = e[c] + 1]

LEMMA CheckPushed ==
    ASSUME NEW s \in Seq(Frames), s # <<>>, NEW f \in Frames, NEW g \in Frames,
           NEW t, Pushed(t, s, g, f), Alike(f, s[1]), NEW c \in Polled, Asks(g, c),
           NEW e \in [Polled -> 0 .. 1], Counted(e, s), e[c] = 0,
           NEW d, OneMore(d, e, c)
    PROVE  d \in [Polled -> 0 .. 1] /\ Counted(d, t)
<1>0. Len(s) \in Nat /\ Len(t) = Len(s) + 1
  BY PushedIs
<1>1. PICK n : n = Len(s) /\ n \in Nat /\ Len(t) = n + 1
  BY <1>0
<1>2. \A i : /\ Checks(t, 1, i) <=> c = i
             /\ \A k \in 1 .. n : Checks(t, k + 1, i) <=> Checks(s, k, i)
  BY <1>1, PushedChecks DEF Asks
<1>3. \A k \in 1 .. n + 1 : k = 1 \/ \E j \in 1 .. n : k = j + 1
  <2>1. \A k \in 1 .. n + 1 : k = 1 \/ (k - 1 \in 1 .. n /\ k = (k - 1) + 1)
    BY ONLY <1>1
  <2> QED
    BY ONLY <2>1
<1>4. 1 \in 1 .. n + 1 /\ \A j \in 1 .. n : j + 1 \in 1 .. n + 1
  BY ONLY <1>1
<1>5. \A k \in 1 .. n : ~Checks(s, k, c)
  BY <1>1 DEF Counted
<1>6. ASSUME NEW i \in Polled
      PROVE  (\E k \in 1 .. n + 1 : Checks(t, k, i))
                <=> (i = c \/ \E k \in 1 .. n : Checks(s, k, i))
  BY ONLY <1>2, <1>3, <1>4
<1>7. d \in [Polled -> 0 .. 1] /\ \A i \in Polled : d[i] = IF i = c THEN 1 ELSE e[i]
  BY DEF OneMore
<1>8. ASSUME NEW i \in Polled, NEW j \in 1 .. n + 1, NEW k \in 1 .. n + 1,
             Checks(t, j, i), Checks(t, k, i)
      PROVE  j = k
  <2>1. CASE i = c
    <3>1. \A h \in 1 .. n + 1 : Checks(t, h, i) => h = 1
      BY ONLY <1>2, <1>3, <1>5, <2>1
    <3> QED
      BY <1>8, <3>1
  <2>2. CASE i # c
    <3>1. PICK jj \in 1 .. n : j = jj + 1
      BY <1>2, <1>3, <1>8, <2>2
    <3>2. PICK kk \in 1 .. n : k = kk + 1
      BY <1>2, <1>3, <1>8, <2>2
    <3>3. Checks(s, jj, i) /\ Checks(s, kk, i)
      BY <1>2, <1>8, <3>1, <3>2
    <3>4. jj = kk
      BY <1>1, <3>3 DEF Counted
    <3> QED
      BY <3>1, <3>2, <3>4
  <2> QED
    BY <2>1, <2>2
<1> QED
  BY <1>1, <1>6, <1>7, <1>8 DEF Counted

LEMMA PoppedChecks ==
    ASSUME NEW s \in Seq(Frames), s # <<>>, NEW i
    PROVE  \A k \in 1 .. Len(s) - 1 : Checks(Tail(s), k, i) <=> Checks(s, k + 1, i)
BY PoppedIs DEF Checks

LEMMA PoppedKeepsCount ==
    ASSUME NEW s \in Seq(Frames), s # <<>>, s[1].op # "check", NEW e, Counted(e, s)
    PROVE  Counted(e, Tail(s))
<1>1. PICK t : t = Tail(s)
  OBVIOUS
<1>2. PICK n : n = Len(t) /\ n \in Nat /\ Len(s) = n + 1
  BY <1>1, PoppedIs
<1>3. \A i : ~Checks(s, 1, i) /\ \A k \in 1 .. n : Checks(t, k, i) <=> Checks(s, k + 1, i)
  BY <1>1, <1>2, PoppedChecks DEF Checks
<1>4. \A k \in 1 .. n + 1 : k = 1 \/ \E j \in 1 .. n : k = j + 1
  <2>1. \A k \in 1 .. n + 1 : k = 1 \/ (k - 1 \in 1 .. n /\ k = (k - 1) + 1)
    BY ONLY <1>2
  <2> QED
    BY ONLY <2>1
<1>5. \A j \in 1 .. n : j + 1 \in 1 .. n + 1
  BY ONLY <1>2
<1>6. ASSUME NEW i \in Polled
      PROVE  (\E k \in 1 .. n + 1 : Checks(s, k, i)) <=> (\E k \in 1 .. n : Checks(t, k, i))
  BY ONLY <1>3, <1>4, <1>5
<1>7. ASSUME NEW i \in Polled, NEW j \in 1 .. n, NEW k \in 1 .. n, Checks(t, j, i), Checks(t, k, i)
      PROVE  j = k
  <2>1. j + 1 = k + 1
    BY <1>2, <1>3, <1>5, <1>7 DEF Counted
  <2> QED
    BY <1>2, <2>1
<1> QED
  BY <1>1, <1>2, <1>6, <1>7 DEF Counted

LEMMA CheckPopped ==
    ASSUME NEW s \in Seq(Frames), s # <<>>, s[1].op = "check", s[1].cond \in Polled,
           NEW e \in [Polled -> 0 .. 1], Counted(e, s),
           NEW d, d = [e EXCEPT ![s[1].cond] = e[s[1].cond] - 1]
    PROVE  d \in [Polled -> 0 .. 1] /\ Counted(d, Tail(s))
<1>1. PICK t : t = Tail(s)
  OBVIOUS
<1>2. PICK n : n = Len(t) /\ n \in Nat /\ Len(s) = n + 1
  BY <1>1, PoppedIs
<1>3. PICK c \in Polled : c = s[1].cond
  OBVIOUS
<1>4. \A i : /\ Checks(s, 1, i) <=> i = c
             /\ \A k \in 1 .. n : Checks(t, k, i) <=> Checks(s, k + 1, i)
  BY <1>1, <1>2, <1>3, PoppedChecks DEF Checks
<1>5. \A k \in 1 .. n + 1 : k = 1 \/ \E j \in 1 .. n : k = j + 1
  <2>1. \A k \in 1 .. n + 1 : k = 1 \/ (k - 1 \in 1 .. n /\ k = (k - 1) + 1)
    BY ONLY <1>2
  <2> QED
    BY ONLY <2>1
<1>6. 1 \in 1 .. n + 1 /\ \A j \in 1 .. n : j + 1 \in 1 .. n + 1 /\ j + 1 # 1
  BY ONLY <1>2
<1>7. e[c] = 1 /\ \A k \in 1 .. n : ~Checks(t, k, c)
  BY <1>2, <1>3, <1>4, <1>6 DEF Counted
<1>8. ASSUME NEW i \in Polled, i # c
      PROVE  (\E k \in 1 .. n + 1 : Checks(s, k, i)) <=> (\E k \in 1 .. n : Checks(t, k, i))
  BY <1>4, <1>5, <1>6, <1>8
<1>9. d \in [Polled -> 0 .. 1] /\ d[c] = 0 /\ \A i \in Polled : i # c => d[i] = e[i]
  BY <1>3, <1>7
<1>10. ASSUME NEW i \in Polled, NEW j \in 1 .. n, NEW k \in 1 .. n, Checks(t, j, i), Checks(t, k, i)
       PROVE  j = k
  <2>1. j + 1 = k + 1
    BY <1>2, <1>4, <1>6, <1>10 DEF Counted
  <2> QED
    BY <1>2, <2>1
<1>11. ASSUME NEW i \in Polled
       PROVE  d[i] = 1 <=> \E k \in 1 .. n : Checks(t, k, i)
  <2>1. CASE i = c
    BY <1>7, <1>9, <2>1
  <2>2. CASE i # c
    BY <1>2, <1>8, <1>9, <2>2 DEF Counted
  <2> QED
    BY <2>1, <2>2
<1> QED
  BY <1>1, <1>2, <1>9, <1>10, <1>11 DEF Counted
LEMMA PlaceTells ==
    ASSUME NEW f \in Frames, Placed(f)
    PROVE  /\ f.at = "callbacks" => f.op \in {"execute", "reboot", "crash"}
           /\ f.at = "connect" => f.op \in {"execute", "switch_root"}
           /\ f.at \in {"send", "output", "ask", "status"} => f.op = "execute"
           /\ f.at \in {"evaluate", "evaluated"} => f.op = "check"
           /\ f.at = "try" => f.op \in Starts \cup Trying \cup {"poll_wait", "wait_for_unit"}
           /\ f.at = "tried" => f.op \in Trying \cup {"poll_wait", "wait_for_unit"}
           /\ f.at \in {"jobs", "again"} => f.op = "wait_for_unit"
           /\ f.at \in {"key", "reset"} => f.op = "reboot"
           /\ f.at = "quit" => f.op = "crash"
           /\ f.at = "wait" => f.op \in {"crash", "shutdown"}
           /\ f.at = "poweroff" => f.op = "shutdown"
           /\ f.at \in {"initrd", "isolate", "isolated"} => f.op = "switch_root"
<1>1. f.op \in {"start", "start_rebootable", "execute", "succeed", "fail", "reboot",
                "shutdown", "crash", "switch_root", "wait_until_succeeds",
                "wait_until_fails", "wait_for_unit", "poll_wait", "check"}
  BY DEF Frames, Op
<1> QED
  BY ONLY <1>1, Placed(f) DEF Placed, Starts, Trying

LEMMA NestedChecks ==
    ASSUME NEW a \in Frames, NEW b \in Frames, NEW c \in Frames, NEW d \in Frames,
           Placed(b), Placed(c), Link(a, b), Link(b, c), Link(c, d)
    PROVE  a.op = "check" \/ b.op = "check"
<1>1. /\ a.op \in {"check", "execute", "wait_for_unit"}
      /\ b.op \in {"check", "execute", "wait_for_unit"}
      /\ c.op \in {"check", "execute", "wait_for_unit"}
  BY ONLY Link(a, b), Link(b, c), Link(c, d) DEF Link
<1>2. b.op = "wait_for_unit" => c.op = "switch_root"
  <2>1. b.op = "wait_for_unit" => c.at = "isolate"
    BY ONLY Link(b, c) DEF Link
  <2> QED
    BY <2>1, PlaceTells
<1>3. a.op = "wait_for_unit" => b.op = "switch_root"
  <2>1. a.op = "wait_for_unit" => b.at = "isolate"
    BY ONLY Link(a, b) DEF Link
  <2> QED
    BY <2>1, PlaceTells
<1>4. a.op = "execute" => b.op # "execute"
  <2>1. a.op = "execute" => b.at \in {"evaluated", "tried", "again", "jobs", "isolated"}
    BY ONLY Link(a, b) DEF Link
  <2> QED
    BY <2>1 DEF Placed
<1> QED
  BY ONLY <1>1, <1>2, <1>3, <1>4

LEMMA StackIsBounded ==
    ASSUME NEW s \in Seq(Frames), Shape(s), NEW e, Counted(e, s)
    PROVE  Len(s) <= 3 + 2 * Conditions
<1>1. PICK n : n = Len(s) /\ n \in Nat
  OBVIOUS
<1> SUFFICES ASSUME n > 3 + 2 * Conditions PROVE FALSE
  BY <1>1, Parameters
<1>2. \A k \in 1 .. n : s[k] \in Frames /\ Placed(s[k])
  BY <1>1 DEF Shape
<1>3. ASSUME NEW k \in 1 .. n - 3 PROVE s[k].op = "check" \/ s[k + 1].op = "check"
  <2>1. k \in 1 .. n /\ k + 1 \in 1 .. n /\ k + 2 \in 1 .. n /\ k + 3 \in 1 .. n
    BY <1>1
  <2>2. Link(s[k], s[k + 1]) /\ Link(s[k + 1], s[k + 2]) /\ Link(s[k + 2], s[k + 3])
    <3>1. k \in 1 .. n - 1 /\ k + 1 \in 1 .. n - 1 /\ k + 2 \in 1 .. n - 1
      BY <1>1
    <3>2. (k + 1) + 1 = k + 2 /\ (k + 2) + 1 = k + 3
      OBVIOUS
    <3>3. \A j \in 1 .. n - 1 : Link(s[j], s[j + 1])
      BY <1>1 DEF Shape
    <3> QED
      BY ONLY <3>1, <3>2, <3>3
  <2> QED
    BY <1>2, <2>1, <2>2, NestedChecks
<1> DEFINE Of(j) == IF s[2 * j - 1].op = "check" THEN 2 * j - 1 ELSE 2 * j
<1>4. PICK N : N = Conditions /\ N \in Nat /\ Polled = 1 .. N /\ n > 3 + 2 * N
  BY Parameters DEF Polled
<1>5. ASSUME NEW j \in 1 .. N + 1
      PROVE  /\ Of(j) \in 1 .. n /\ s[Of(j)].op = "check" /\ s[Of(j)].cond \in 1 .. N
             /\ Of(j) \in {2 * j - 1, 2 * j}
  <2>1. 2 * j - 1 \in 1 .. n - 3 /\ (2 * j - 1) + 1 = 2 * j /\ 2 * j \in 1 .. n
    BY <1>1, <1>4
  <2>2. Of(j) \in 1 .. n /\ s[Of(j)].op = "check" /\ Of(j) \in {2 * j - 1, 2 * j}
    BY <1>1, <1>3, <2>1
  <2>3. s[Of(j)] \in Frames /\ Placed(s[Of(j)])
    BY <1>2, <2>2
  <2> QED
    BY <1>4, <2>2, <2>3 DEF Placed, Frames
<1> HIDE DEF Of
<1>6. PICK q : q = [j \in 1 .. N + 1 |-> s[Of(j)].cond]
  OBVIOUS
<1>7. q \in [1 .. N + 1 -> 1 .. N] /\ \A j \in 1 .. N + 1 : q[j] = s[Of(j)].cond
  BY <1>5, <1>6
<1>8. PICK x \in 1 .. N + 1, y \in 1 .. N + 1 : x # y /\ q[x] = q[y]
  <2>1. IsFiniteSet(1 .. N + 1) /\ Cardinality(1 .. N + 1) = N + 1
    <3>1. 1 \in Int /\ N + 1 \in Int /\ ~(1 > N + 1) /\ N + 1 - 1 + 1 = N + 1
      BY ONLY <1>4
    <3> QED
      BY ONLY <3>1, FS_Interval
  <2>2. IsFiniteSet(1 .. N) /\ Cardinality(1 .. N) = N
    <3>1. 1 \in Int /\ N \in Int /\ (1 > N => N = 0) /\ N - 1 + 1 = N
      BY ONLY <1>4
    <3> QED
      BY ONLY <3>1, FS_Interval
  <2>3. Cardinality(1 .. N) < Cardinality(1 .. N + 1)
    BY ONLY <1>4, <2>1, <2>2
  <2>4. PICK S, T : S = 1 .. N + 1 /\ T = 1 .. N
    OBVIOUS
  <2>5. /\ IsFiniteSet(S) /\ IsFiniteSet(T) /\ Cardinality(T) < Cardinality(S)
        /\ q \in [S -> T]
    BY ONLY <1>7, <2>1, <2>2, <2>3, <2>4
  <2>6. \E x, y \in S : x # y /\ q[x] = q[y]
    BY ONLY <2>5, FS_PigeonHole
  <2> QED
    BY ONLY <2>4, <2>6
<1>9. PICK i \in Polled : i = s[Of(x)].cond /\ i = s[Of(y)].cond
  BY <1>4, <1>5, <1>7, <1>8
<1>10. Of(x) = Of(y)
  <2>1. Of(x) \in 1 .. n /\ Of(y) \in 1 .. n /\ Checks(s, Of(x), i) /\ Checks(s, Of(y), i)
    BY <1>5, <1>9 DEF Checks
  <2> QED
    BY <1>1, <2>1 DEF Counted
<1>11. /\ x \in Nat /\ y \in Nat /\ x # y
       /\ Of(x) \in {2 * x - 1, 2 * x} /\ Of(y) \in {2 * y - 1, 2 * y}
  BY <1>4, <1>5, <1>8
<1>12. PICK m : m = Of(x) /\ m = Of(y)
  BY <1>10
<1>13. m \in {2 * x - 1, 2 * x} /\ m \in {2 * y - 1, 2 * y}
  BY <1>11, <1>12
<1> QED
  BY ONLY <1>11, <1>13

-----------------------------------------------------------------------------
(* The condition run_callbacks takes, and the number a call gets.          *)

LEMMA LeastExists ==
    ASSUME NEW S, S \subseteq Nat, S # {}
    PROVE  Min(S) \in S
<1>1. PICK x \in S : \A y \in S : ~(<<y, x>> \in OpToRel(<, Nat))
  BY NatLessThanWellFounded, WFMin
<1>2. ASSUME NEW y \in S PROVE x <= y
  <2>1. <<y, x>> \in OpToRel(<, Nat) \/ ~(y < x)
    BY DEF OpToRel
  <2>2. ~(y < x)
    BY ONLY <1>1, <2>1, y \in S, Zenon
  <2> QED
    BY <2>2
<1> QED
  BY <1>2 DEF Min

LEMMA NextCall == \A c \in Calls : (c % NCalls) + 1 \in Calls
BY Parameters DEF Calls
-----------------------------------------------------------------------------
(* The steps of the stack.                                                 *)

TypesInv ==
    /\ booted \in BOOLEAN /\ connected \in BOOLEAN
    /\ answer \in [call : Calls, out : Seq(Prints), rc : Prints]
    /\ calls \in Calls
    /\ overdue \in [Polled -> BOOLEAN]
    /\ alive \in BOOLEAN /\ rebootable \in BOOLEAN
    /\ guest \in {"booting", "shell", "rebooting", "halting"}
    /\ toGuest \in Seq(Lines) /\ toDriver \in Seq(Prints) /\ ran \in Prints
    /\ unit \in States /\ job \in BOOLEAN
    /\ blamed \in {0} \cup Polled /\ failing \subseteq {0} \cup Polled
    /\ idle \in BOOLEAN /\ gone \in BOOLEAN

(* Where the driver is, unless an exception is on its way up. *)
Place == IF stack = <<>> \/ raised THEN "free" ELSE Top.at

Keeps(f) == f \in Frames /\ Placed(f) /\ Alike(f, Top)

Stays ==
    /\ stack' = stack /\ entries' = entries
    /\ raised' \in BOOLEAN /\ (raised' => stack # <<>>)

Opens(f) ==
    /\ stack = <<>> /\ stack' = <<f>> /\ entries' = entries /\ raised' = FALSE
    /\ f \in Frames /\ Placed(f) /\ f.op \in Op /\ f.cmd = "test"

GoesOn(f) ==
    /\ stack # <<>> /\ Keeps(f) /\ Moved(stack', stack, f)
    /\ entries' = entries /\ raised' = FALSE

Counts(g) ==
    IF g.op = "check"
    THEN /\ g.cond \in Polled /\ entries[g.cond] = 0
         /\ entries' = [entries EXCEPT ![g.cond] = entries[g.cond] + 1]
    ELSE entries' = entries

Enters(g, f) ==
    /\ stack # <<>> /\ Keeps(f) /\ g \in Frames /\ Placed(g) /\ Link(g, f)
    /\ Pushed(stack', stack, g, f) /\ raised' = FALSE /\ Counts(g)

Leaves ==
    /\ stack # <<>> /\ stack' = Tail(stack)
    /\ raised' \in BOOLEAN /\ (raised' => Tail(stack) # <<>>)
    /\ entries' = IF Top.op = "check"
                  THEN [entries EXCEPT ![Top.cond] = entries[Top.cond] - 1] ELSE entries

LEMMA TopIs ==
    ASSUME StackInv, stack # <<>>
    PROVE  Top = stack[1] /\ Top \in Frames /\ Placed(Top) /\ Len(stack) \in Nat /\ Len(stack) >= 1
<1>1. Top = stack[1] /\ Len(stack) \in Nat /\ Len(stack) >= 1
  BY PoppedIs DEF StackInv, Top
<1>2. stack[1] \in Frames /\ Placed(stack[1])
  BY <1>1 DEF StackInv, Shape
<1> QED
  BY <1>1, <1>2

LEMMA StaysKeepsStack ==
    ASSUME StackInv, Stays
    PROVE  StackInv'
BY DEF StackInv, Stays

LEMMA OpensKeepsStack ==
    ASSUME StackInv, NEW f, Opens(f)
    PROVE  StackInv' /\ stack' # <<>> /\ Len(stack') = 1 /\ Top' = f /\ Place' = f.at
<1>1. PICK s : s = stack'
  OBVIOUS
<1>2. s = <<f>> /\ f \in Frames /\ Placed(f) /\ f.op \in Op /\ f.cmd = "test"
  BY <1>1 DEF Opens
<1>3. s \in Seq(Frames) /\ Len(s) = 1 /\ s[1] = f /\ Head(s) = f /\ s # <<>>
  BY <1>2
<1>4. Shape(s)
  BY <1>2, <1>3 DEF Shape
<1>5. Counted(entries, s)
  <2>1. f.op # "check"
    BY <1>2 DEF Op
  <2>2. \A i \in Polled : entries[i] # 1
    BY DEF StackInv, Counted, Opens
  <2> QED
    BY <1>3, <2>1, <2>2 DEF Counted, Checks
<1>6. entries' = entries /\ raised' = FALSE
  BY DEF Opens
<1> QED
  BY <1>1, <1>3, <1>4, <1>5, <1>6 DEF StackInv, Top, Place

LEMMA GoesOnKeepsStack ==
    ASSUME StackInv, NEW f, GoesOn(f)
    PROVE  /\ StackInv' /\ stack' # <<>> /\ Len(stack') = Len(stack)
           /\ Top' = f /\ Place' = f.at
           /\ \A k \in 2 .. Len(stack) : stack'[k] = stack[k]
<1>1. PICK t : t = stack'
  OBVIOUS
<1>2. /\ stack \in Seq(Frames) /\ stack # <<>> /\ f \in Frames /\ Placed(f) /\ Alike(f, stack[1])
      /\ Moved(t, stack, f) /\ Shape(stack) /\ Counted(entries, stack)
  BY <1>1, TopIs DEF StackInv, GoesOn, Keeps
<1>3. /\ t \in Seq(Frames) /\ t # <<>> /\ Len(t) = Len(stack) /\ t[1] = f
      /\ \A k \in 2 .. Len(stack) : t[k] = stack[k]
  BY ONLY <1>2, MovedIs
<1>4. Shape(t) /\ Counted(entries, t)
  BY ONLY <1>2, MovedKeepsShape, MovedKeepsCount
<1>5. Head(t) = f
  BY ONLY <1>3
<1>6. entries' = entries /\ raised' = FALSE
  BY DEF GoesOn
<1> QED
  BY <1>1, <1>3, <1>4, <1>5, <1>6 DEF StackInv, Top, Place

LEMMA EntersKeepsStack ==
    ASSUME StackInv, NEW f, NEW g, Enters(g, f)
    PROVE  /\ StackInv' /\ stack' # <<>> /\ Len(stack') = Len(stack) + 1
           /\ Top' = g /\ Place' = g.at /\ stack'[2] = f
           /\ \A k \in 3 .. Len(stack) + 1 : stack'[k] = stack[k - 1]
<1>1. PICK t : t = stack'
  OBVIOUS
<1>2. /\ stack \in Seq(Frames) /\ stack # <<>> /\ f \in Frames /\ Placed(f) /\ Alike(f, stack[1])
      /\ g \in Frames /\ Placed(g) /\ Link(g, f)
      /\ Pushed(t, stack, g, f) /\ Shape(stack) /\ Counted(entries, stack)
      /\ entries \in [Polled -> 0 .. 1]
  BY <1>1, TopIs DEF StackInv, Enters, Keeps
<1>3. /\ t \in Seq(Frames) /\ t # <<>> /\ Len(t) = Len(stack) + 1 /\ t[1] = g /\ t[2] = f
      /\ \A k \in 3 .. Len(stack) + 1 : t[k] = stack[k - 1]
  BY ONLY <1>2, PushedIs
<1>4. Shape(t)
  BY ONLY <1>2, PushedKeepsShape
<1>5. entries' \in [Polled -> 0 .. 1] /\ Counted(entries', t)
  <2>1. CASE g.op = "check"
    <3>1. PICK d : d = entries'
      OBVIOUS
    <3>2. PICK c \in Polled : c = g.cond
      BY <2>1 DEF Enters, Counts
    <3>3. entries[c] = 0 /\ OneMore(d, entries, c) /\ Asks(g, c)
      BY <2>1, <3>1, <3>2 DEF Enters, Counts, Asks, OneMore
    <3>4. d \in [Polled -> 0 .. 1] /\ Counted(d, t)
      BY ONLY <1>2, <3>2, <3>3, CheckPushed
    <3> QED
      BY <3>1, <3>4
  <2>2. CASE g.op # "check"
    <3>1. Counted(entries, t)
      BY ONLY <1>2, <2>2, PushedKeepsCount
    <3> QED
      BY <1>2, <2>2, <3>1 DEF Enters, Counts
  <2> QED
    BY <2>1, <2>2
<1>6. Head(t) = g
  BY ONLY <1>3
<1>7. raised' = FALSE
  BY DEF Enters
<1> QED
  BY <1>1, <1>3, <1>4, <1>5, <1>6, <1>7 DEF StackInv, Top, Place

LEMMA LeavesKeepsStack ==
    ASSUME StackInv, Leaves
    PROVE  /\ StackInv' /\ Len(stack') = Len(stack) - 1
           /\ \A k \in 1 .. Len(stack) - 1 : stack'[k] = stack[k + 1]
           /\ stack' # <<>> => /\ Len(stack) > 1 /\ Top' = stack[2] /\ Link(Top, stack[2])
                               /\ stack[2] \in Frames /\ Placed(stack[2])
           /\ stack' # <<>> /\ ~raised' => Place' = stack[2].at
           /\ stack' = <<>> \/ raised' => Place' = "free"
<1>1. PICK t : t = stack'
  OBVIOUS
<1>2. /\ stack \in Seq(Frames) /\ stack # <<>> /\ t = Tail(stack)
      /\ Shape(stack) /\ Counted(entries, stack) /\ entries \in [Polled -> 0 .. 1]
  BY <1>1 DEF StackInv, Leaves
<1>3. /\ t \in Seq(Frames) /\ Len(t) = Len(stack) - 1 /\ Len(stack) \in Nat /\ Len(stack) >= 1
      /\ \A k \in 1 .. Len(stack) - 1 : t[k] = stack[k + 1]
      /\ t # <<>> <=> Len(stack) > 1
  BY ONLY <1>2, PoppedIs
<1>4. Shape(t)
  BY ONLY <1>2, PoppedKeepsShape
<1>5. entries' \in [Polled -> 0 .. 1] /\ Counted(entries', t)
  <2>1. Top = stack[1] /\ Top \in Frames /\ Placed(Top)
    BY <1>2, TopIs
  <2>2. CASE Top.op = "check"
    <3>1. PICK d : d = entries'
      OBVIOUS
    <3>2. stack[1].op = "check" /\ stack[1].cond \in Polled
      BY <2>1, <2>2 DEF Placed, Frames
    <3>3. d = [entries EXCEPT ![stack[1].cond] = entries[stack[1].cond] - 1]
      BY <2>1, <2>2, <3>1 DEF Leaves
    <3>4. d \in [Polled -> 0 .. 1] /\ Counted(d, t)
      BY ONLY <1>2, <3>2, <3>3, CheckPopped
    <3> QED
      BY <3>1, <3>4
  <2>3. CASE Top.op # "check"
    <3>1. Counted(entries, t)
      BY ONLY <1>2, <2>1, <2>3, PoppedKeepsCount
    <3> QED
      BY <1>2, <2>3, <3>1 DEF Leaves
  <2> QED
    BY <2>2, <2>3
<1>6. t # <<>> => /\ Len(stack) > 1 /\ Head(t) = stack[2] /\ Link(stack[1], stack[2])
                  /\ stack[2] \in Frames /\ Placed(stack[2])
  <2> SUFFICES ASSUME t # <<>> PROVE Len(stack) > 1 /\ Head(t) = stack[2] /\ Link(stack[1], stack[2])
                                     /\ stack[2] \in Frames /\ Placed(stack[2])
    OBVIOUS
  <2>1. Len(stack) > 1 /\ t[1] = stack[2] /\ Head(t) = t[1]
    BY ONLY <1>3, t # <<>>
  <2> QED
    BY <1>2, <1>3, <2>1 DEF Shape
<1>7. Top = stack[1]
  BY <1>2, TopIs
<1>8. raised' \in BOOLEAN /\ (raised' => t # <<>>)
  BY <1>2 DEF Leaves
<1> QED
  BY <1>1, <1>3, <1>4, <1>5, <1>6, <1>7, <1>8 DEF StackInv, Top, Place
-----------------------------------------------------------------------------
(* What each action of the driver does to the stack.                       *)

GoesTo(at) == \E f \in Frames : GoesOn(f) /\ f.at = at /\ f.out = Top.out

Makes(at, g) == \E f \in Frames : Enters(g, f) /\ f.at = at

Executes(at, cmd) ==
    \E g \in Frames : Makes(at, g) /\ g.op = "execute" /\ g.at = "callbacks" /\ g.cmd = cmd

ChecksOne(at) == \E g \in Frames : Makes(at, g) /\ g.op = "check" /\ g.at = "evaluate"

(* The call at the top may be in this place, and call execute from there. *)
MayBe(at) == \A f \in Frames : Alike(f, Top) /\ f.at = at => Placed(f)

MayCall(at, cmd) ==
    \A f, g \in Frames :
        Alike(f, Top) /\ f.at = at /\ g.op = "execute" /\ g.cmd = cmd /\ g.cond = f.cond
            => Link(g, f)

GoesAndCalls(at, cmd) == Execute([Top EXCEPT !.at = at], cmd)

LEMMA AtIs ==
    ASSUME StackInv, NEW p \in Places, At(p)
    PROVE  /\ Place = p /\ raised = FALSE /\ stack # <<>> /\ Top.at = p
           /\ Top = stack[1] /\ Top \in Frames /\ Placed(Top) /\ Len(stack) >= 1
BY TopIs DEF At, Place, StackInv

LEMMA NewCall ==
    ASSUME NEW op \in Op \cup {"check"}, NEW at \in Places, NEW c \in {0} \cup Polled
    PROVE  /\ Call(op, at, c) \in Frames
           /\ Call(op, at, c).op = op /\ Call(op, at, c).at = at /\ Call(op, at, c).cond = c
           /\ Call(op, at, c).cmd = "test"
<1>1. <<>> \in Seq(Prints) /\ 0 \in Calls /\ 1 \in 1 .. Conditions + 1 /\ 0 \in 0 .. Timeout
  BY Parameters DEF Calls
<1> QED
  BY <1>1 DEF Call, Frames

LEMMA Replaced ==
    ASSUME NEW f \in Frames, NEW at \in Places
    PROVE  /\ [f EXCEPT !.at = at] \in Frames /\ [f EXCEPT !.at = at].at = at
           /\ [f EXCEPT !.at = at].out = f.out /\ Alike([f EXCEPT !.at = at], f)
BY DEF Frames, Alike

LEMMA ContinueIs ==
    ASSUME StackInv, stack # <<>>, raised' = FALSE, entries' = entries,
           NEW at \in Places, Continue(at), MayBe(at)
    PROVE  GoesTo(at)
<1>1. Top \in Frames
  BY TopIs
<1>2. PICK f : f = [Top EXCEPT !.at = at]
  OBVIOUS
<1>3. f \in Frames /\ f.at = at /\ f.out = Top.out /\ Alike(f, Top)
  BY <1>1, <1>2, Replaced
<1>4. Moved(stack', stack, f)
  BY <1>2 DEF Continue, Goto, Below, Moved
<1>5. GoesOn(f)
  BY <1>3, <1>4 DEF GoesOn, Keeps, MayBe
<1> QED
  BY <1>3, <1>5 DEF GoesTo

LEMMA ExecuteIs ==
    ASSUME StackInv, TypesInv, stack # <<>>, raised' = FALSE, entries' = entries,
           NEW at \in Places, NEW cmd \in {"test", "show", "list-jobs", "isolate"},
           GoesAndCalls(at, cmd), MayBe(at), MayCall(at, cmd)
    PROVE  Executes(at, cmd) /\ calls' \in Calls
<1>1. Top \in Frames
  BY TopIs
<1>2. PICK f : f = [Top EXCEPT !.at = at]
  OBVIOUS
<1>3. f \in Frames /\ f.at = at /\ Alike(f, Top) /\ f.cond \in {0} \cup Polled
  BY <1>1, <1>2, Replaced DEF Frames
<1>4. calls' \in Calls
  BY NextCall DEF GoesAndCalls, Execute, TypesInv
<1>5. PICK g : g = [Call("execute", "callbacks", f.cond) EXCEPT !.cmd = cmd, !.call = calls']
  OBVIOUS
<1>6. g \in Frames /\ g.op = "execute" /\ g.at = "callbacks" /\ g.cmd = cmd /\ g.cond = f.cond
  <2>1. PICK c : c = Call("execute", "callbacks", f.cond)
    OBVIOUS
  <2>2. c \in Frames /\ c.op = "execute" /\ c.at = "callbacks" /\ c.cond = f.cond
    <3>1. PICK i \in {0} \cup Polled : i = f.cond
      BY <1>3
    <3>2. /\ "execute" \in Op \cup {"check"} /\ "callbacks" \in Places
          /\ i \in {0} \cup Polled
      BY DEF Op, Places
    <3>3. /\ Call("execute", "callbacks", i) \in Frames
          /\ Call("execute", "callbacks", i).op = "execute"
          /\ Call("execute", "callbacks", i).at = "callbacks"
          /\ Call("execute", "callbacks", i).cond = i
      BY ONLY <3>2, NewCall
    <3> QED
      BY ONLY <2>1, <3>1, <3>3
  <2>3. g = [c EXCEPT !.cmd = cmd, !.call = calls']
    BY <1>5, <2>1
  <2> QED
    BY <1>4, <2>2, <2>3 DEF Frames
<1>7. Placed(g) /\ Placed(f) /\ Link(g, f)
  <2>1. Placed(g)
    BY ONLY <1>6 DEF Placed, Starts, Trying
  <2> QED
    BY <1>3, <1>6, <2>1 DEF MayBe, MayCall
<1>8. Pushed(stack', stack, g, f)
  BY <1>2, <1>5 DEF GoesAndCalls, Execute, Below, Pushed
<1>9. Enters(g, f)
  BY <1>3, <1>6, <1>7, <1>8 DEF Enters, Keeps, Counts
<1> QED
  BY <1>3, <1>4, <1>6, <1>9 DEF Executes, Makes

LEMMA CheckIs ==
    ASSUME StackInv, stack # <<>>, raised' = FALSE,
           NEW f \in Frames, Alike(f, Top), Placed(f), NEW i \in Polled, Check(f, i),
           entries[i] = 0, f.at = "callbacks" \/ (f.op = "poll_wait" /\ f.at = "tried")
    PROVE  ChecksOne(f.at)
<1>1. PICK g : g = Call("check", "evaluate", i)
  OBVIOUS
<1>2. g \in Frames /\ g.op = "check" /\ g.at = "evaluate" /\ g.cond = i
  <2>1. "check" \in Op \cup {"check"} /\ "evaluate" \in Places /\ i \in {0} \cup Polled
    BY DEF Places
  <2> QED
    BY ONLY <1>1, <2>1, NewCall
<1>3. i # 0
  BY Parameters DEF Polled
<1>4. Placed(g) /\ Link(g, f)
  <2>1. Placed(g)
    BY ONLY <1>2, <1>3 DEF Placed, Starts, Trying
  <2>2. Link(g, f)
    BY <1>2 DEF Link
  <2> QED
    BY <2>1, <2>2
<1>5. Pushed(stack', stack, g, f)
  BY <1>1 DEF Check, Below, Pushed
<1>6. Enters(g, f)
  BY <1>2, <1>4, <1>5 DEF Check, Enters, Keeps, Counts
<1> QED
  BY <1>2, <1>6 DEF ChecksOne, Makes

LEMMA RaiseIs ==
    ASSUME StackInv, stack # <<>>, Raise, entries' = entries
    PROVE  Stays /\ raised' = TRUE
BY DEF Raise, Stays

LEMMA ReturnIs ==
    ASSUME StackInv, stack # <<>>, raised = FALSE, Return, entries' = entries, Top.op # "check"
    PROVE  Leaves /\ raised' = FALSE
BY DEF Return, Leaves, Below
LEMMA RunCallbacksIs ==
    ASSUME StackInv, TypesInv, RunCallbacks
    PROVE  /\ TypesInv' /\ Place = "callbacks"
           /\ ChecksOne("callbacks") \/ GoesTo("connect") \/ GoesTo("key") \/ GoesTo("quit")
<1>1. /\ Place = "callbacks" /\ raised = FALSE /\ stack # <<>> /\ Top.at = "callbacks"
      /\ Top \in Frames /\ Placed(Top)
  BY AtIs DEF RunCallbacks, Places
<1>2. TypesInv' /\ raised' = FALSE
  BY <1>1 DEF RunCallbacks, TypesInv, machine, units
<1>3. CASE Due # {}
  <2>1. Due \subseteq Nat /\ Min(Due) \in Due
    <3>1. Due \subseteq Nat
      BY DEF Due, Polled
    <3> QED
      BY <1>3, <3>1, LeastExists
  <2>2. PICK i \in Polled : i = Min(Due) /\ entries[i] = 0
    BY <2>1 DEF Due
  <2>3. PICK f : f = [Top EXCEPT !.next = i + 1]
    OBVIOUS
  <2>4. Check(f, i)
    BY <1>3, <2>2, <2>3 DEF RunCallbacks
  <2>5. i + 1 \in 1 .. Conditions + 1
    BY Parameters DEF Polled
  <2>6. f \in Frames /\ Alike(f, Top) /\ f.at = "callbacks"
    BY <1>1, <2>3, <2>5 DEF Frames, Alike
  <2>7. Placed(f)
    BY <1>1, <2>6 DEF Placed, Alike
  <2>8. ChecksOne(f.at)
    BY <1>1, <1>2, <2>2, <2>4, <2>6, <2>7, CheckIs
  <2> QED
    BY <1>1, <1>2, <2>6, <2>8
<1>4. CASE Due = {}
  <2>1. Continue(AfterCallbacks) /\ entries' = entries
    BY <1>4 DEF RunCallbacks
  <2>2. Top.op \in {"execute", "reboot", "crash"}
    BY <1>1, PlaceTells
  <2>3. CASE Top.op = "execute"
    <3>1. Continue("connect")
      BY <2>1, <2>3 DEF AfterCallbacks
    <3>2. MayBe("connect")
      BY <2>3 DEF MayBe, Alike, Placed, Starts, Trying
    <3> QED
      BY <1>1, <1>2, <2>1, <3>1, <3>2, ContinueIs DEF Places
  <2>4. CASE Top.op = "reboot"
    <3>1. Continue("key")
      BY <2>1, <2>4 DEF AfterCallbacks
    <3>2. MayBe("key")
      BY <2>4 DEF MayBe, Alike, Placed, Starts, Trying
    <3> QED
      BY <1>1, <1>2, <2>1, <3>1, <3>2, ContinueIs DEF Places
  <2>5. CASE Top.op = "crash"
    <3>1. Continue("quit")
      BY <2>1, <2>5 DEF AfterCallbacks
    <3>2. MayBe("quit")
      BY <2>5 DEF MayBe, Alike, Placed, Starts, Trying
    <3> QED
      BY <1>1, <1>2, <2>1, <3>1, <3>2, ContinueIs DEF Places
  <2> QED
    BY <2>2, <2>3, <2>4, <2>5
<1> QED
  BY <1>3, <1>4

LEMMA EvaluateIs ==
    ASSUME StackInv, TypesInv, Evaluate
    PROVE  TypesInv' /\ Place = "evaluate" /\ Executes("evaluated", "test")
<1>1. /\ Place = "evaluate" /\ raised = FALSE /\ stack # <<>> /\ Top.at = "evaluate"
      /\ Top \in Frames /\ Placed(Top)
  BY AtIs DEF Evaluate, Places
<1>2. Top.op = "check"
  BY <1>1, PlaceTells
<1>3. raised' = FALSE /\ entries' = entries /\ GoesAndCalls("evaluated", "test")
  BY <1>1 DEF Evaluate, GoesAndCalls, polling
<1>4. MayBe("evaluated")
  BY <1>1, <1>2 DEF MayBe, Alike, Placed, Starts, Trying
<1>5. MayCall("evaluated", "test")
  <2>1. Top.cond # 0
    BY <1>1, <1>2 DEF Placed
  <2> QED
    BY <2>1 DEF MayCall, Link, Alike
<1>6. Executes("evaluated", "test") /\ calls' \in Calls
  BY <1>1, <1>3, <1>4, <1>5, ExecuteIs DEF Places
<1>7. TypesInv'
  BY <1>6 DEF Evaluate, TypesInv, polling, machine, units
<1> QED
  BY <1>1, <1>6, <1>7

LEMMA EvaluatedIs ==
    ASSUME StackInv, TypesInv, Evaluated
    PROVE  TypesInv' /\ stack # <<>> /\ Top.op = "check" /\ Leaves
<1>1. stack # <<>> /\ Top.op = "check" /\ Top \in Frames /\ Placed(Top) /\ Top = stack[1]
  BY TopIs DEF Evaluated
<1>2. Top.cond \in Polled
  BY <1>1 DEF Placed, Frames
<1>3. Tail(stack) # <<>>
  <2>1. Len(stack) # 1
    <3>1. stack[Len(stack)].op \in Op
      BY <1>1 DEF StackInv, Shape
    <3>2. "check" \notin Op
      BY DEF Op
    <3> QED
      BY <1>1, <3>1, <3>2
  <2>2. PICK n : n = Len(stack)
    OBVIOUS
  <2>3. n \in Nat /\ n >= 1 /\ n # 1 /\ (Tail(stack) # <<>> <=> n > 1)
    BY <1>1, <2>1, <2>2, PoppedIs DEF StackInv
  <2> QED
    BY ONLY <2>3
<1>4. PICK r \in Codes : answer' = [Nothing EXCEPT !.rc = Status(0, r)]
  BY DEF Evaluated, Codes
<1>5. answer' \in [call : Calls, out : Seq(Prints), rc : Prints]
  <2>1. <<>> \in Seq(Prints) /\ 0 \in Calls
    BY Parameters DEF Calls
  <2> QED
    BY <1>4, <2>1 DEF Nothing, Status, Prints, Codes
<1>6. raised' \in BOOLEAN
  BY DEF Evaluated
<1>7. blamed' \in {0} \cup Polled
  BY <1>2 DEF Evaluated, TypesInv
<1>8. overdue' \in [Polled -> BOOLEAN]
  BY <1>2 DEF Evaluated, TypesInv
<1>9. TypesInv'
  BY <1>5, <1>7, <1>8 DEF Evaluated, TypesInv, machine, units
<1>10. Leaves
  BY <1>1, <1>3, <1>6 DEF Evaluated, Leaves, Below
<1> QED
  BY <1>1, <1>9, <1>10

LEMMA UnwindIs ==
    ASSUME StackInv, TypesInv, Unwind
    PROVE  /\ TypesInv' /\ stack # <<>> /\ raised = TRUE /\ Top.op # "check" /\ Leaves
           /\ (raised' \/ stack' = <<>>)
<1>1. TypesInv'
  BY DEF Unwind, TypesInv, polling, machine, units
<1>2. raised' = (Tail(stack) # <<>>) /\ raised = TRUE /\ entries' = entries
  BY DEF Unwind, Below, StackInv, polling
<1> QED
  BY <1>1, <1>2 DEF Unwind, Leaves, Below
LEMMA StartCalledIs ==
    ASSUME StackInv, TypesInv, StartCalled
    PROVE  /\ TypesInv' /\ stack # <<>> /\ raised = FALSE /\ raised' = FALSE
           /\ Top.op \in Starts /\ Place = "try" /\ Leaves
<1>1. stack # <<>> /\ raised = FALSE /\ Top.op \in Starts
  BY DEF StartCalled, In, Starts, StackInv
<1>2. Place = "try" /\ Top.op # "check"
  BY <1>1, TopIs DEF Place, Placed, Starts
<1>3. raised' = FALSE /\ entries' = entries /\ Return
  BY <1>1 DEF StartCalled, Return, polling
<1>4. TypesInv'
  <2>1. rebootable' \in BOOLEAN /\ toGuest' \in Seq(Lines) /\ toDriver' \in Seq(Prints)
    <3>1. rebootable' = (Top.op = "start_rebootable") /\ toGuest' = <<>> /\ toDriver' = <<>>
      BY DEF StartCalled, StartVm
    <3>2. rebootable' \in BOOLEAN
      BY ONLY <3>1, Zenon
    <3>3. toGuest' \in Seq(Lines) /\ toDriver' \in Seq(Prints)
      BY ONLY <3>1
    <3> QED
      BY ONLY <3>2, <3>3
  <2> QED
    BY <2>1 DEF StartCalled, StartVm, TypesInv, States, polling
<1> QED
  BY <1>1, <1>2, <1>3, <1>4, ReturnIs

LEMMA StartFirstIs ==
    ASSUME StackInv, TypesInv, StartFirst
    PROVE  /\ TypesInv' /\ Place = "connect" /\ Stays /\ raised = FALSE /\ raised' = FALSE
<1>1. Place = "connect" /\ raised = FALSE /\ stack # <<>>
  BY AtIs DEF StartFirst, Places
<1>2. TypesInv'
  <2>1. rebootable' \in BOOLEAN /\ toGuest' \in Seq(Lines) /\ toDriver' \in Seq(Prints)
    <3>1. rebootable' \in BOOLEAN
      BY DEF StartFirst, StartVm
    <3>2. toGuest' = <<>> /\ toDriver' = <<>>
      BY DEF StartFirst, StartVm
    <3>3. toGuest' \in Seq(Lines) /\ toDriver' \in Seq(Prints)
      BY ONLY <3>2
    <3> QED
      BY ONLY <3>1, <3>3, Zenon
  <2> QED
    BY <2>1 DEF StartFirst, StartVm, TypesInv, States, polling
<1> QED
  BY <1>1, <1>2 DEF StartFirst, Stays, polling

(* Once connected, execute goes on, and switch_root is over. *)
LEMMA ConnectedIs ==
    ASSUME StackInv, At("connect"), Connected, raised' = raised, entries' = entries
    PROVE  /\ connected' = TRUE /\ raised' = FALSE
           /\ GoesTo("send") \/ Leaves
           /\ Leaves => Top.op = "switch_root"
           /\ GoesTo("send") => Top.op = "execute"
<1>1. /\ raised = FALSE /\ stack # <<>> /\ Top.at = "connect"
      /\ Top \in Frames /\ Placed(Top)
  BY AtIs DEF Places
<1>2. Top.op \in {"execute", "switch_root"}
  BY <1>1, PlaceTells
<1>3. CASE Top.op = "execute"
  <2>1. Continue("send")
    BY <1>3 DEF Connected
  <2>2. MayBe("send")
    BY <1>3 DEF MayBe, Alike, Placed, Starts, Trying
  <2>3. GoesTo("send")
    BY <1>1, <2>1, <2>2, ContinueIs DEF Places
  <2>4. ~Leaves
    <3>1. PICK f \in Frames : GoesOn(f)
      BY <2>3 DEF GoesTo
    <3>2. Len(stack') = Len(stack) /\ Len(stack) \in Nat
      BY <3>1, GoesOnKeepsStack DEF StackInv
    <3>3. Leaves => Len(stack') = Len(stack) - 1
      BY LeavesKeepsStack
    <3> QED
      BY <3>2, <3>3
  <2> QED
    BY <1>1, <1>3, <2>3, <2>4 DEF Connected
<1>4. CASE Top.op = "switch_root"
  <2>1. stack' = Below
    BY <1>4 DEF Connected
  <2>2. Leaves
    BY <1>1, <1>4, <2>1 DEF Leaves, Below
  <2>3. ~GoesTo("send")
    <3>1. GoesTo("send") => \E f \in Frames : Keeps(f) /\ f.at = "send"
      BY DEF GoesTo, GoesOn
    <3> QED
      BY <1>4, <3>1 DEF Keeps, Placed, Alike
  <2> QED
    BY <1>1, <1>4, <2>2, <2>3 DEF Connected
<1> QED
  BY <1>2, <1>3, <1>4

LEMMA RestIsASequence ==
    ASSUME NEW S, NEW s \in Seq(S), NEW n \in 0 .. Len(s)
    PROVE  /\ SubSeq(s, n + 1, Len(s)) \in Seq(S)
           /\ Len(SubSeq(s, n + 1, Len(s))) = Len(s) - n
           /\ \A k \in 1 .. Len(s) - n : SubSeq(s, n + 1, Len(s))[k] = s[k + n]
<1>1. /\ SubSeq(s, n + 1, Len(s)) \in Seq(S)
      /\ Len(SubSeq(s, n + 1, Len(s))) = IF n + 1 <= Len(s) THEN Len(s) - (n + 1) + 1 ELSE 0
      /\ \A i \in 1 .. Len(s) - (n + 1) + 1 : SubSeq(s, n + 1, Len(s))[i] = s[n + 1 + i - 1]
  BY SubSeqProperties
<1> QED
  BY <1>1

LEMMA ReadBannerIs ==
    ASSUME StackInv, TypesInv, ReadBanner
    PROVE  /\ TypesInv' /\ Place = "connect" /\ raised = FALSE /\ raised' = FALSE
           /\ GoesTo("send") \/ Leaves \/ Stays
           /\ Leaves => Top.op = "switch_root"
<1>1. Place = "connect" /\ raised = FALSE /\ stack # <<>> /\ At("connect")
  BY AtIs DEF ReadBanner, Places
<1>2. raised' = FALSE /\ entries' = entries
  BY <1>1 DEF ReadBanner, polling
<1>3. toDriver' \in Seq(Prints) /\ (Connected \/ UNCHANGED <<connected, stack>>)
  <2>1. PICK n \in 1 .. Len(toDriver) : /\ toDriver' = SubSeq(toDriver, n + 1, Len(toDriver))
                                        /\ (Connected \/ UNCHANGED <<connected, stack>>)
    BY DEF ReadBanner
  <2>2. toDriver \in Seq(Prints) /\ n \in 0 .. Len(toDriver)
    BY DEF TypesInv
  <2> QED
    BY <2>1, <2>2, RestIsASequence
<1>4. CASE Connected
  <2>1. connected' = TRUE /\ (GoesTo("send") \/ Leaves) /\ (Leaves => Top.op = "switch_root")
    BY <1>1, <1>2, <1>4, ConnectedIs
  <2>2. TypesInv'
    BY <1>3, <2>1 DEF ReadBanner, TypesInv, polling, units
  <2> QED
    BY <1>1, <1>2, <2>1, <2>2
<1>5. CASE UNCHANGED <<connected, stack>>
  <2>1. TypesInv'
    BY <1>3, <1>5 DEF ReadBanner, TypesInv, polling, units
  <2>2. Stays
    BY <1>1, <1>2, <1>5 DEF Stays
  <2>3. ~Leaves
    <3>1. stack' = stack /\ stack \in Seq(Frames)
      BY <1>5 DEF StackInv
    <3>2. Leaves => Len(stack') = Len(stack) - 1
      BY LeavesKeepsStack
    <3> QED
      BY <3>1, <3>2
  <2> QED
    BY <1>1, <1>2, <2>1, <2>2, <2>3
<1> QED
  BY <1>3, <1>4, <1>5

LEMMA AlreadyConnectedIs ==
    ASSUME StackInv, TypesInv, AlreadyConnected
    PROVE  /\ TypesInv' /\ Place = "connect" /\ raised = FALSE /\ raised' = FALSE
           /\ connected /\ connected'
           /\ GoesTo("send") \/ Leaves
           /\ Leaves => Top.op = "switch_root"
<1>1. Place = "connect" /\ raised = FALSE /\ stack # <<>> /\ At("connect")
  BY AtIs DEF AlreadyConnected, Places
<1>2. raised' = FALSE /\ entries' = entries
  BY <1>1 DEF AlreadyConnected, polling
<1>3. connected' = TRUE /\ (GoesTo("send") \/ Leaves) /\ (Leaves => Top.op = "switch_root")
  BY <1>1, <1>2, ConnectedIs DEF AlreadyConnected
<1>4. TypesInv'
  BY <1>3 DEF AlreadyConnected, TypesInv, polling, machine, units
<1> QED
  BY <1>1, <1>2, <1>3, <1>4 DEF AlreadyConnected
LEMMA KeyIs ==
    ASSUME StackInv, TypesInv, Key
    PROVE  /\ TypesInv' /\ Place = "key" /\ raised = FALSE
           /\ (alive /\ GoesTo("reset")) \/ (~alive /\ Stays /\ raised' = TRUE)
<1>1. /\ Place = "key" /\ raised = FALSE /\ stack # <<>> /\ Top.at = "key"
      /\ Top \in Frames /\ Placed(Top)
  BY AtIs DEF Key, Places
<1>2. TypesInv'
  BY DEF Key, TypesInv, polling, units
<1>3. entries' = entries
  BY DEF Key, polling
<1>4. CASE alive
  <2>1. Continue("reset") /\ raised' = FALSE
    BY <1>1, <1>4 DEF Key
  <2>2. MayBe("reset")
    BY <1>1, PlaceTells DEF MayBe, Alike, Placed, Starts, Trying
  <2>3. GoesTo("reset")
    BY <1>1, <1>3, <2>1, <2>2, ContinueIs DEF Places
  <2> QED
    BY <1>1, <1>2, <1>4, <2>3
<1>5. CASE ~alive
  BY <1>1, <1>2, <1>3, <1>5, RaiseIs DEF Key
<1> QED
  BY <1>4, <1>5

LEMMA QuitIs ==
    ASSUME StackInv, TypesInv, Quit
    PROVE  /\ TypesInv' /\ Place = "quit" /\ raised = FALSE /\ alive' = FALSE
           /\ GoesTo("wait") \/ (~alive /\ Stays /\ raised' = TRUE)
<1>1. /\ Place = "quit" /\ raised = FALSE /\ stack # <<>> /\ Top.at = "quit"
      /\ Top \in Frames /\ Placed(Top)
  BY AtIs DEF Quit, Places
<1>2. TypesInv' /\ alive' = FALSE
  BY DEF Quit, TypesInv, polling, units
<1>3. entries' = entries
  BY DEF Quit, polling
<1>4. CASE alive
  <2>1. Continue("wait") /\ raised' = FALSE
    BY <1>1, <1>4 DEF Quit
  <2>2. MayBe("wait")
    BY <1>1, PlaceTells DEF MayBe, Alike, Placed, Starts, Trying
  <2>3. GoesTo("wait")
    BY <1>1, <1>3, <2>1, <2>2, ContinueIs DEF Places
  <2> QED
    BY <1>1, <1>2, <1>4, <2>3
<1>5. CASE ~alive
  BY <1>1, <1>2, <1>3, <1>5, RaiseIs DEF Quit
<1> QED
  BY <1>4, <1>5

LEMMA AppendedLine ==
    ASSUME TypesInv, NEW x \in Lines, toGuest' = Append(toGuest, x)
    PROVE  toGuest' \in Seq(Lines)
BY DEF TypesInv

LEMMA PoweroffIs ==
    ASSUME StackInv, TypesInv, Poweroff
    PROVE  /\ TypesInv' /\ Place = "poweroff" /\ raised = FALSE
           /\ (alive /\ GoesTo("wait")) \/ (~alive /\ Stays /\ raised' = TRUE /\ toGuest' = toGuest)
<1>1. /\ Place = "poweroff" /\ raised = FALSE /\ stack # <<>> /\ Top.at = "poweroff"
      /\ Top \in Frames /\ Placed(Top)
  BY AtIs DEF Poweroff, Places
<1>2. entries' = entries
  BY DEF Poweroff, polling
<1>3. CASE alive
  <2>1. Continue("wait") /\ raised' = FALSE
    BY <1>1, <1>3 DEF Poweroff
  <2>2. MayBe("wait")
    BY <1>1, PlaceTells DEF MayBe, Alike, Placed, Starts, Trying
  <2>3. GoesTo("wait")
    BY <1>1, <1>2, <2>1, <2>2, ContinueIs DEF Places
  <2>4. [cmd |-> "poweroff", call |-> 0, by |-> 0] \in Lines
    BY Parameters DEF Lines, Calls
  <2>5. toGuest' \in Seq(Lines)
    BY <1>3, <2>4, AppendedLine DEF Poweroff
  <2>6. TypesInv'
    BY <2>5 DEF Poweroff, TypesInv, polling, units
  <2> QED
    BY <1>1, <1>3, <2>3, <2>6
<1>4. CASE ~alive
  <2>1. TypesInv'
    BY <1>4 DEF Poweroff, TypesInv, polling, units
  <2> QED
    BY <1>1, <1>2, <1>4, <2>1, RaiseIs DEF Poweroff
<1> QED
  BY <1>3, <1>4

LEMMA ResetIs ==
    ASSUME StackInv, TypesInv, Reset
    PROVE  /\ TypesInv' /\ Place = "reset" /\ Top.op = "reboot" /\ raised = FALSE
           /\ Leaves /\ raised' = FALSE
<1>1. /\ Place = "reset" /\ raised = FALSE /\ stack # <<>> /\ Top.op = "reboot"
  BY AtIs, PlaceTells DEF Reset, Places
<1>2. TypesInv'
  BY DEF Reset, TypesInv, polling, machine, units
<1>3. entries' = entries /\ Return
  BY DEF Reset, polling
<1> QED
  BY <1>1, <1>2, <1>3, ReturnIs DEF Return

LEMMA WaitForShutdownIs ==
    ASSUME StackInv, TypesInv, WaitForShutdown
    PROVE  /\ TypesInv' /\ Place = "wait" /\ Top.op \in {"crash", "shutdown"} /\ raised = FALSE
           /\ Leaves /\ raised' = FALSE
<1>1. /\ Place = "wait" /\ raised = FALSE /\ stack # <<>> /\ Top.op \in {"crash", "shutdown"}
  BY AtIs, PlaceTells DEF WaitForShutdown, Places
<1>2. TypesInv'
  BY DEF WaitForShutdown, TypesInv, polling, machine, units
<1>3. entries' = entries /\ Return
  BY DEF WaitForShutdown, polling
<1> QED
  BY <1>1, <1>2, <1>3, ReturnIs DEF Return

(* What is written is a line of the call at the top. *)
SentLine(cmd) == [cmd |-> cmd, call |-> Top.call, by |-> Top.cond]

LEMMA SendIs ==
    ASSUME StackInv, TypesInv, stack # <<>>, raised = FALSE, entries' = entries,
           Top.op = "execute",
           NEW cmd \in {"test", "show", "list-jobs", "isolate", "status"},
           NEW at \in {"output", "status"}, Send(cmd, at)
    PROVE  \/ /\ alive /\ toGuest' = Append(toGuest, SentLine(cmd)) /\ toGuest' \in Seq(Lines)
              /\ cmd # "isolate" /\ GoesTo(at)
           \/ /\ alive /\ toGuest' = Append(toGuest, SentLine(cmd)) /\ toGuest' \in Seq(Lines)
              /\ cmd = "isolate" /\ Leaves /\ raised' = FALSE
           \/ /\ ~alive /\ toGuest' = toGuest /\ Stays /\ raised' = TRUE
<1>1. SentLine(cmd) \in Lines
  BY TopIs DEF SentLine, Lines, Frames
<1>2. CASE alive /\ cmd # "isolate"
  <2>1. toGuest' = Append(toGuest, SentLine(cmd)) /\ Continue(at) /\ raised' = FALSE
    BY <1>2 DEF Send, SentLine
  <2>2. toGuest' \in Seq(Lines)
    BY <1>1, <2>1, AppendedLine
  <2>3. MayBe(at)
    BY DEF MayBe, Alike, Placed, Starts, Trying
  <2>4. at \in Places
    BY DEF Places
  <2>5. GoesTo(at)
    BY <2>1, <2>3, <2>4, ContinueIs
  <2> QED
    BY <1>2, <2>1, <2>2, <2>5
<1>3. CASE alive /\ cmd = "isolate"
  <2>1. toGuest' = Append(toGuest, SentLine(cmd)) /\ Return
    BY <1>3 DEF Send, SentLine
  <2>2. toGuest' \in Seq(Lines)
    BY <1>1, <2>1, AppendedLine
  <2>3. Leaves /\ raised' = FALSE
    BY <2>1, ReturnIs
  <2> QED
    BY <1>3, <2>1, <2>2, <2>3
<1>4. CASE ~alive
  BY <1>4, RaiseIs DEF Send
<1> QED
  BY <1>2, <1>3, <1>4

LEMMA SendCommandIs ==
    ASSUME StackInv, TypesInv, SendCommand
    PROVE  /\ TypesInv' /\ Place = "send" /\ raised = FALSE /\ Top.op = "execute"
           /\ \/ /\ alive /\ toGuest' = Append(toGuest, SentLine(Top.cmd))
                 /\ Top.cmd # "isolate" /\ GoesTo("output")
              \/ /\ alive /\ toGuest' = Append(toGuest, SentLine(Top.cmd))
                 /\ Top.cmd = "isolate" /\ Leaves /\ raised' = FALSE
              \/ /\ ~alive /\ toGuest' = toGuest /\ Stays /\ raised' = TRUE
<1>1. /\ Place = "send" /\ raised = FALSE /\ stack # <<>> /\ Top.op = "execute"
      /\ Top \in Frames
  BY AtIs, PlaceTells DEF SendCommand, Places
<1>2. PICK cmd \in {"test", "show", "list-jobs", "isolate"} : cmd = Top.cmd
  BY <1>1 DEF Frames
<1>3. Send(cmd, "output") /\ entries' = entries
  BY <1>2 DEF SendCommand, polling
<1>4. \/ /\ alive /\ toGuest' = Append(toGuest, SentLine(cmd)) /\ toGuest' \in Seq(Lines)
         /\ cmd # "isolate" /\ GoesTo("output")
      \/ /\ alive /\ toGuest' = Append(toGuest, SentLine(cmd)) /\ toGuest' \in Seq(Lines)
         /\ cmd = "isolate" /\ Leaves /\ raised' = FALSE
      \/ /\ ~alive /\ toGuest' = toGuest /\ Stays /\ raised' = TRUE
  BY <1>1, <1>3, SendIs
<1>5. toGuest' \in Seq(Lines)
  BY <1>4 DEF TypesInv
<1>6. TypesInv'
  BY <1>5 DEF SendCommand, TypesInv, polling, units
<1> QED
  BY <1>1, <1>2, <1>4, <1>6

LEMMA AskStatusIs ==
    ASSUME StackInv, TypesInv, AskStatus
    PROVE  /\ TypesInv' /\ Place = "ask" /\ raised = FALSE /\ Top.op = "execute"
           /\ \/ alive /\ toGuest' = Append(toGuest, SentLine("status")) /\ GoesTo("status")
              \/ ~alive /\ toGuest' = toGuest /\ Stays /\ raised' = TRUE
<1>1. /\ Place = "ask" /\ raised = FALSE /\ stack # <<>> /\ Top.op = "execute"
  BY AtIs, PlaceTells DEF AskStatus, Places
<1>2. Send("status", "status") /\ entries' = entries
  BY DEF AskStatus, polling
<1>3. \/ /\ alive /\ toGuest' = Append(toGuest, SentLine("status")) /\ toGuest' \in Seq(Lines)
         /\ GoesTo("status")
      \/ /\ ~alive /\ toGuest' = toGuest /\ Stays /\ raised' = TRUE
  BY <1>1, <1>2, SendIs
<1>4. toGuest' \in Seq(Lines)
  BY <1>3 DEF TypesInv
<1>5. TypesInv'
  BY <1>4 DEF AskStatus, TypesInv, polling, units
<1> QED
  BY <1>1, <1>3, <1>5
LEMMA BlocksAre ==
    ASSUME TypesInv, NEW block \in Blocks, Take(block)
    PROVE  /\ block \in Seq(Prints) /\ toDriver' \in Seq(Prints)
           /\ Len(block) <= Len(toDriver) /\ Len(toDriver') = Len(toDriver) - Len(block)
           /\ \A k \in 1 .. Len(block) : block[k] = toDriver[k]
           /\ Len(block) >= 1 \/ (block = <<>> /\ toDriver = <<>> /\ ~alive)
<1>1. PICK s : s = toDriver
  OBVIOUS
<1>2. s \in Seq(Prints)
  BY <1>1 DEF TypesInv
<1>3. PICK n \in 0 .. Len(s) :
          /\ block \in Seq(Prints) /\ Len(block) = n
          /\ \A k \in 1 .. n : block[k] = s[k]
          /\ n >= 1 \/ (block = <<>> /\ s = <<>> /\ ~alive)
  <2>1. CASE s = <<>> /\ ~alive
    <3>1. block = <<>>
      BY <1>1, <2>1 DEF Blocks
    <3>2. block \in Seq(Prints) /\ Len(block) = 0 /\ 0 \in 0 .. Len(s)
      BY ONLY <3>1, <1>2
    <3> QED
      BY <2>1, <3>1, <3>2
  <2>2. CASE ~(s = <<>> /\ ~alive)
    <3>1. PICK n \in 1 .. Len(s) : block = SubSeq(s, 1, n)
      BY <1>1, <2>2 DEF Blocks
    <3>2. block \in Seq(Prints) /\ Len(block) = n /\ \A k \in 1 .. n : block[k] = s[k]
      BY <1>2, <3>1
    <3>3. n \in 0 .. Len(s) /\ n >= 1
      BY <1>2
    <3> QED
      BY <3>2, <3>3
  <2> QED
    BY <2>1, <2>2
<1>4. toDriver' = SubSeq(s, n + 1, Len(s))
  BY <1>1, <1>3 DEF Take
<1>5. toDriver' \in Seq(Prints) /\ Len(toDriver') = Len(s) - n
  BY <1>2, <1>4, RestIsASequence
<1>6. n <= Len(s)
  BY <1>2
<1> QED
  BY <1>1, <1>3, <1>5, <1>6

LEMMA ReadOutputIs ==
    ASSUME StackInv, TypesInv, ReadOutput
    PROVE  /\ TypesInv' /\ Place = "output" /\ raised = FALSE /\ Top.op = "execute"
           /\ \E block \in Blocks, f \in Frames :
                 Take(block) /\ GoesOn(f) /\ f.at = "ask" /\ f.out = block
<1>1. /\ Place = "output" /\ raised = FALSE /\ stack # <<>> /\ Top \in Frames
      /\ Top.op = "execute"
  BY AtIs, PlaceTells DEF ReadOutput, Places
<1>2. PICK block \in Blocks : Take(block) /\ Goto([Top EXCEPT !.at = "ask", !.out = block])
  BY DEF ReadOutput
<1>3. block \in Seq(Prints) /\ toDriver' \in Seq(Prints)
  BY <1>2, BlocksAre
<1>4. PICK f : f = [Top EXCEPT !.at = "ask", !.out = block]
  OBVIOUS
<1>5. f \in Frames /\ f.at = "ask" /\ f.out = block /\ Alike(f, Top)
  BY <1>1, <1>3, <1>4 DEF Frames, Alike, Places
<1>6. Placed(f)
  BY <1>1, <1>5 DEF Alike, Placed, Starts, Trying
<1>7. GoesOn(f)
  BY <1>1, <1>2, <1>4, <1>5, <1>6 DEF ReadOutput, GoesOn, Keeps, Goto, Below, Moved, polling
<1>8. TypesInv'
  BY <1>3 DEF ReadOutput, TypesInv, polling, units
<1> QED
  BY <1>1, <1>2, <1>5, <1>7, <1>8

LEMMA ReadStatusIs ==
    ASSUME StackInv, TypesInv, ReadStatus
    PROVE  /\ TypesInv' /\ Place = "status" /\ raised = FALSE /\ Top.op = "execute"
           /\ \E block \in Blocks :
                 /\ Take(block)
                 /\ \/ /\ Len(block) = 1 /\ block[1].kind = "status"
                       /\ answer' = [call |-> Top.call, out |-> Top.out, rc |-> block[1]]
                       /\ Leaves /\ raised' = FALSE
                    \/ /\ ~(Len(block) = 1 /\ block[1].kind = "status")
                       /\ answer' = answer /\ Stays /\ raised' = TRUE
<1>1. /\ Place = "status" /\ raised = FALSE /\ stack # <<>> /\ Top \in Frames
      /\ Top.op = "execute"
  BY AtIs, PlaceTells DEF ReadStatus, Places
<1>2. PICK block \in Blocks :
          /\ Take(block)
          /\ IF Len(block) = 1 /\ block[1].kind = "status"
             THEN /\ answer' = [call |-> Top.call, out |-> Top.out, rc |-> block[1]]
                  /\ Return
             ELSE Raise /\ UNCHANGED answer
  BY DEF ReadStatus
<1>3. block \in Seq(Prints) /\ toDriver' \in Seq(Prints)
  BY <1>2, BlocksAre
<1>4. entries' = entries
  BY DEF ReadStatus, polling
<1>5. CASE Len(block) = 1 /\ block[1].kind = "status"
  <2>1. block[1] \in Prints
    BY <1>3, <1>5
  <2>2. answer' = [call |-> Top.call, out |-> Top.out, rc |-> block[1]] /\ Return
    BY <1>2, <1>5
  <2>3. answer' \in [call : Calls, out : Seq(Prints), rc : Prints]
    BY <1>1, <2>1, <2>2 DEF Frames
  <2>4. TypesInv'
    BY <1>3, <2>3 DEF ReadStatus, TypesInv, polling, units
  <2>5. Leaves /\ raised' = FALSE
    BY <1>1, <1>4, <2>2, ReturnIs
  <2> QED
    BY <1>1, <1>2, <1>5, <2>2, <2>4, <2>5
<1>6. CASE ~(Len(block) = 1 /\ block[1].kind = "status")
  <2>1. Raise /\ answer' = answer
    BY <1>2, <1>6
  <2>2. TypesInv'
    BY <1>3, <2>1 DEF ReadStatus, TypesInv, polling, units
  <2>3. Stays /\ raised' = TRUE
    BY <1>1, <1>4, <2>1, RaiseIs
  <2> QED
    BY <1>1, <1>2, <1>6, <2>1, <2>2, <2>3
<1> QED
  BY <1>5, <1>6

LEMMA RetryIs ==
    ASSUME StackInv, stack # <<>>, raised = FALSE, entries' = entries, Retry, MayBe("try")
    PROVE  GoesTo("try") \/ (Stays /\ raised' = TRUE)
<1>1. CASE Top.tries < Timeout
  <2>1. Top \in Frames
    BY TopIs
  <2>2. PICK f : f = [Top EXCEPT !.at = "try", !.tries = @ + 1]
    OBVIOUS
  <2>3. Top.tries + 1 \in 0 .. Timeout
    BY <1>1, <2>1, Parameters DEF Frames
  <2>4. f \in Frames /\ f.at = "try" /\ f.out = Top.out /\ Alike(f, Top)
    BY <2>1, <2>2, <2>3 DEF Frames, Alike, Places
  <2>5. Goto(f) /\ raised' = FALSE
    BY <1>1, <2>2 DEF Retry
  <2>6. GoesOn(f)
    BY <2>4, <2>5 DEF GoesOn, Keeps, Goto, Below, Moved, MayBe
  <2> QED
    BY <2>4, <2>6 DEF GoesTo
<1>2. CASE ~(Top.tries < Timeout)
  BY <1>2, RaiseIs DEF Retry
<1> QED
  BY <1>1, <1>2

LEMMA TryIs ==
    ASSUME StackInv, TypesInv, Try
    PROVE  /\ TypesInv' /\ Place = "try" /\ raised = FALSE
           /\ Executes("tried", "test") \/ Executes("tried", "show")
<1>1. /\ Place = "try" /\ raised = FALSE /\ stack # <<>> /\ Top.at = "try"
  BY AtIs DEF Try, Places
<1>2. Top.op \in Trying \cup {"wait_for_unit"}
  BY <1>1, TopIs, PlaceTells DEF Try, Starts
<1>3. raised' = FALSE /\ entries' = entries /\ GoesAndCalls("tried", Command)
  BY <1>1 DEF Try, GoesAndCalls, polling
<1>4. MayBe("tried")
  BY <1>2 DEF MayBe, Alike, Placed, Starts, Trying
<1>5. /\ Executes("tried", "test") \/ Executes("tried", "show")
      /\ calls' \in Calls
  <2>1. CASE Top.op = "wait_for_unit"
    <3>1. MayCall("tried", "show")
      BY <2>1 DEF MayCall, Link, Alike
    <3>2. GoesAndCalls("tried", "show")
      BY <1>3, <2>1 DEF Command
    <3> QED
      BY <1>1, <1>3, <1>4, <3>1, <3>2, ExecuteIs DEF Places
  <2>2. CASE Top.op \in Trying
    <3>1. MayCall("tried", "test")
      BY <2>2 DEF MayCall, Link, Alike
    <3>2. GoesAndCalls("tried", "test")
      BY <1>3, <2>2 DEF Command, Trying
    <3> QED
      BY <1>1, <1>3, <1>4, <3>1, <3>2, ExecuteIs DEF Places
  <2> QED
    BY <1>2, <2>1, <2>2
<1>6. TypesInv'
  BY <1>5 DEF Try, TypesInv, polling, machine, units
<1> QED
  BY <1>1, <1>5, <1>6

(* A poll_wait is called by the script alone, so no condition is being checked. *)
LEMMA BottomOps ==
    ASSUME StackInv, stack # <<>>, Top.op \notin {"check", "execute", "wait_for_unit"}
    PROVE  Len(stack) = 1
<1>1. PICK n : n = Len(stack) /\ n \in Nat /\ n >= 1 /\ Top = stack[1]
  BY TopIs
<1>2. CASE n > 1
  <2>1. 1 \in 1 .. n - 1
    BY <1>1, <1>2
  <2>2. Link(stack[1], stack[2])
    BY <1>1, <2>1 DEF StackInv, Shape
  <2>3. stack[1].op \in {"check", "execute", "wait_for_unit"}
    BY ONLY <2>2 DEF Link
  <2> QED
    BY <1>1, <2>3
<1> QED
  BY <1>1, <1>2

LEMMA TryConditionIs ==
    ASSUME StackInv, TypesInv, TryCondition
    PROVE  TypesInv' /\ Place = "try" /\ raised = FALSE /\ ChecksOne("tried")
<1>1. /\ Place = "try" /\ raised = FALSE /\ stack # <<>> /\ Top.at = "try"
      /\ Top \in Frames /\ Placed(Top) /\ Top = stack[1] /\ Top.op = "poll_wait"
  BY AtIs DEF TryCondition, Places
<1>2. TypesInv' /\ raised' = FALSE
  BY <1>1 DEF TryCondition, TypesInv, machine, units
<1>3. PICK f : f = [Top EXCEPT !.at = "tried"]
  OBVIOUS
<1>4. f \in Frames /\ f.at = "tried" /\ Alike(f, Top)
  BY <1>1, <1>3, Replaced DEF Places
<1>5. Placed(f)
  BY <1>1, <1>4 DEF Placed, Alike, Starts, Trying
<1>6. PICK i \in Polled : i = Top.cond
  BY <1>1 DEF Placed, Frames
<1>7. entries[i] = 0
  <2>1. Len(stack) = 1
    BY <1>1, BottomOps
  <2>2. \A k \in 1 .. Len(stack) : ~Checks(stack, k, i)
    BY <1>1, <2>1 DEF Checks
  <2> QED
    BY <2>2 DEF StackInv, Counted
<1>8. Check(f, i)
  BY <1>3, <1>6 DEF TryCondition
<1>9. ChecksOne(f.at)
  BY <1>1, <1>2, <1>4, <1>5, <1>7, <1>8, CheckIs DEF Alike
<1> QED
  BY <1>1, <1>2, <1>4, <1>9

LEMMA TriedIs ==
    ASSUME StackInv, TypesInv, Tried
    PROVE  /\ TypesInv' /\ Place = "tried" /\ raised = FALSE
           /\ Top.op \in Trying \cup {"poll_wait"}
           /\ (Leaves /\ raised' = FALSE) \/ (Stays /\ raised' = TRUE) \/ GoesTo("try")
<1>1. /\ Place = "tried" /\ raised = FALSE /\ stack # <<>> /\ Top.at = "tried"
  BY AtIs DEF Tried, Places
<1>2. Top.op \in Trying \cup {"poll_wait"}
  BY <1>1, TopIs, PlaceTells DEF Tried
<1>3. TypesInv' /\ entries' = entries
  BY DEF Tried, TypesInv, polling, machine, units
<1>4. CASE answer.rc.val = Wanted
  <2>1. Return
    BY <1>4 DEF Tried
  <2> QED
    BY <1>1, <1>2, <1>3, <2>1, ReturnIs DEF Trying
<1>5. CASE answer.rc.val # Wanted /\ Top.op \in {"succeed", "fail"}
  <2>1. Raise
    BY <1>5 DEF Tried
  <2> QED
    BY <1>1, <1>2, <1>3, <2>1, RaiseIs
<1>6. CASE answer.rc.val # Wanted /\ Top.op \notin {"succeed", "fail"}
  <2>1. Retry
    BY <1>6 DEF Tried
  <2>2. MayBe("try")
    BY <1>1, <1>2, TopIs DEF MayBe, Alike, Placed, Starts, Trying
  <2> QED
    BY <1>1, <1>2, <1>3, <2>1, <2>2, RetryIs
<1> QED
  BY <1>4, <1>5, <1>6
LEMMA UnitSeenIs ==
    ASSUME StackInv, TypesInv, UnitSeen
    PROVE  /\ TypesInv' /\ Place = "tried" /\ raised = FALSE /\ Top.op = "wait_for_unit"
           /\ (Leaves /\ raised' = FALSE) \/ (Stays /\ raised' = TRUE) \/ GoesTo("try")
                 \/ Executes("jobs", "list-jobs")
<1>1. /\ Place = "tried" /\ raised = FALSE /\ stack # <<>> /\ Top.op = "wait_for_unit"
  BY AtIs DEF UnitSeen, Places
<1>2. entries' = entries
  BY DEF UnitSeen, Unchanging, polling
<1>3. /\ (Leaves /\ raised' = FALSE) \/ (Stays /\ raised' = TRUE) \/ GoesTo("try")
            \/ Executes("jobs", "list-jobs")
      /\ calls' \in Calls
  <2>1. CASE Said = "active"
    <3>1. Return /\ calls' = calls
      BY <2>1 DEF UnitSeen
    <3> QED
      BY <1>1, <1>2, <3>1, ReturnIs DEF TypesInv
  <2>2. CASE Said = "activating"
    <3>1. Retry /\ calls' = calls
      BY <2>2 DEF UnitSeen
    <3>2. MayBe("try")
      BY <1>1 DEF MayBe, Alike, Placed, Starts, Trying
    <3> QED
      BY <1>1, <1>2, <3>1, <3>2, RetryIs DEF TypesInv
  <2>3. CASE Said = "inactive"
    <3>1. GoesAndCalls("jobs", "list-jobs") /\ raised' = FALSE
      BY <1>1, <2>3 DEF UnitSeen, GoesAndCalls
    <3>2. MayBe("jobs") /\ MayCall("jobs", "list-jobs")
      BY <1>1 DEF MayBe, MayCall, Link, Alike, Placed, Starts, Trying
    <3> QED
      BY <1>1, <1>2, <3>1, <3>2, ExecuteIs DEF Places
  <2>4. CASE Said \notin {"active", "activating", "inactive"}
    <3>1. Raise /\ calls' = calls
      BY <2>4 DEF UnitSeen
    <3> QED
      BY <1>1, <1>2, <3>1, RaiseIs DEF TypesInv
  <2> QED
    BY <2>1, <2>2, <2>3, <2>4
<1>4. TypesInv'
  BY <1>3 DEF UnitSeen, Unchanging, TypesInv, polling, machine, units
<1> QED
  BY <1>1, <1>3, <1>4

LEMMA JobsSeenIs ==
    ASSUME StackInv, TypesInv, JobsSeen
    PROVE  /\ TypesInv' /\ Place = "jobs" /\ raised = FALSE /\ Top.op = "wait_for_unit"
           /\ \/ Said # "no_jobs" /\ ((Stays /\ raised' = TRUE) \/ GoesTo("try"))
              \/ Said = "no_jobs" /\ Executes("again", "show")
           /\ gone' = gone
<1>1. /\ Place = "jobs" /\ raised = FALSE /\ stack # <<>> /\ Top.op = "wait_for_unit"
  BY AtIs, PlaceTells DEF JobsSeen, Places
<1>2. entries' = entries
  BY DEF JobsSeen, Unchanging, polling
<1>3. /\ \/ Said # "no_jobs" /\ ((Stays /\ raised' = TRUE) \/ GoesTo("try"))
         \/ Said = "no_jobs" /\ Executes("again", "show")
      /\ calls' \in Calls /\ gone' = gone
  <2>1. CASE Said = "no_jobs"
    <3>1. GoesAndCalls("again", "show") /\ raised' = FALSE /\ gone' = gone
      BY <1>1, <2>1 DEF JobsSeen, NoJobs, GoesAndCalls
    <3>2. MayBe("again") /\ MayCall("again", "show")
      BY <1>1 DEF MayBe, MayCall, Link, Alike, Placed, Starts, Trying
    <3>3. Executes("again", "show") /\ calls' \in Calls
      BY <1>1, <1>2, <3>1, <3>2, ExecuteIs DEF Places
    <3> QED
      BY <2>1, <3>1, <3>3
  <2>2. CASE Said # "no_jobs"
    <3>1. Retry /\ calls' = calls /\ gone' = gone
      BY <2>2 DEF JobsSeen, NoJobs
    <3>2. MayBe("try")
      BY <1>1 DEF MayBe, Alike, Placed, Starts, Trying
    <3> QED
      BY <1>1, <1>2, <2>2, <3>1, <3>2, RetryIs DEF TypesInv
  <2> QED
    BY <2>1, <2>2
<1>4. TypesInv'
  BY <1>3 DEF JobsSeen, Unchanging, TypesInv, polling, machine, units
<1> QED
  BY <1>1, <1>3, <1>4

LEMMA UnitSeenAgainIs ==
    ASSUME StackInv, TypesInv, UnitSeenAgain
    PROVE  /\ TypesInv' /\ Place = "again" /\ raised = FALSE
           /\ (Stays /\ raised' = TRUE) \/ GoesTo("try")
           /\ gone' = gone \/ (gone' = TRUE /\ Said = "inactive")
<1>1. /\ Place = "again" /\ raised = FALSE /\ stack # <<>> /\ Top.op = "wait_for_unit"
  BY AtIs, PlaceTells DEF UnitSeenAgain, Places
<1>2. entries' = entries
  BY DEF UnitSeenAgain, Unchanging, polling
<1>3. /\ (Stays /\ raised' = TRUE) \/ GoesTo("try")
      /\ gone' = gone \/ (gone' = TRUE /\ Said = "inactive")
  <2>1. CASE Said = "none"
    <3>1. Raise /\ gone' = gone
      BY <2>1 DEF UnitSeenAgain
    <3> QED
      BY <1>1, <1>2, <3>1, RaiseIs
  <2>2. CASE Said = "inactive"
    <3>1. Raise /\ gone' = TRUE
      BY <2>2 DEF UnitSeenAgain
    <3> QED
      BY <1>1, <1>2, <2>2, <3>1, RaiseIs
  <2>3. CASE Said \notin {"none", "inactive"}
    <3>1. Retry /\ gone' = gone
      BY <2>3 DEF UnitSeenAgain
    <3>2. MayBe("try")
      BY <1>1 DEF MayBe, Alike, Placed, Starts, Trying
    <3> QED
      BY <1>1, <1>2, <3>1, <3>2, RetryIs
  <2> QED
    BY <2>1, <2>2, <2>3
<1>4. gone' \in BOOLEAN
  <2>1. gone \in BOOLEAN
    BY DEF TypesInv
  <2> QED
    BY ONLY <1>3, <2>1, Zenon
<1>5. TypesInv'
  BY <1>4 DEF UnitSeenAgain, Unchanging, TypesInv, polling, machine, units
<1> QED
  BY <1>1, <1>3, <1>5

LEMMA WaitForInitrdIs ==
    ASSUME StackInv, TypesInv, WaitForInitrd
    PROVE  /\ TypesInv' /\ Place = "initrd" /\ raised = FALSE
           /\ \E g \in Frames : Makes("isolate", g) /\ g.op = "wait_for_unit" /\ g.at = "try"
<1>1. /\ Place = "initrd" /\ raised = FALSE /\ stack # <<>> /\ Top.op = "switch_root"
      /\ Top \in Frames
  BY AtIs, PlaceTells DEF WaitForInitrd, Places
<1>2. TypesInv' /\ raised' = FALSE /\ entries' = entries
  BY <1>1 DEF WaitForInitrd, Unchanging, TypesInv, polling, machine, units
<1>3. PICK f : f = [Top EXCEPT !.at = "isolate"]
  OBVIOUS
<1>4. f \in Frames /\ f.at = "isolate" /\ Alike(f, Top)
  BY <1>1, <1>3, Replaced DEF Places
<1>5. PICK g : g = Call("wait_for_unit", "try", 0)
  OBVIOUS
<1>6. g \in Frames /\ g.op = "wait_for_unit" /\ g.at = "try"
  <2>1. /\ "wait_for_unit" \in Op \cup {"check"} /\ "try" \in Places
        /\ 0 \in {0} \cup Polled
    BY DEF Op, Places
  <2> QED
    BY ONLY <1>5, <2>1, NewCall
<1>7. Placed(f) /\ Placed(g) /\ Link(g, f)
  <2>1. Placed(f)
    BY <1>1, <1>4 DEF Placed, Alike, Starts, Trying
  <2>2. Placed(g)
    BY <1>6 DEF Placed, Starts, Trying
  <2> QED
    BY <1>4, <1>6, <2>1, <2>2 DEF Link
<1>8. Pushed(stack', stack, g, f)
  BY <1>3, <1>5 DEF WaitForInitrd, Below, Pushed
<1>9. Enters(g, f)
  BY <1>1, <1>2, <1>4, <1>6, <1>7, <1>8 DEF Enters, Keeps, Counts
<1> QED
  BY <1>1, <1>2, <1>4, <1>6, <1>9 DEF Makes

LEMMA IsolateIs ==
    ASSUME StackInv, TypesInv, Isolate
    PROVE  TypesInv' /\ Place = "isolate" /\ raised = FALSE /\ Executes("isolated", "isolate")
<1>1. /\ Place = "isolate" /\ raised = FALSE /\ stack # <<>> /\ Top.op = "switch_root"
  BY AtIs, PlaceTells DEF Isolate, Places
<1>2. raised' = FALSE /\ entries' = entries /\ GoesAndCalls("isolated", "isolate")
  BY <1>1 DEF Isolate, Unchanging, GoesAndCalls, polling
<1>3. MayBe("isolated") /\ MayCall("isolated", "isolate")
  BY <1>1 DEF MayBe, MayCall, Link, Alike, Placed, Starts, Trying
<1>4. Executes("isolated", "isolate") /\ calls' \in Calls
  BY <1>1, <1>2, <1>3, ExecuteIs DEF Places
<1>5. TypesInv'
  BY <1>4 DEF Isolate, Unchanging, TypesInv, polling, machine, units
<1> QED
  BY <1>1, <1>4, <1>5

LEMMA IsolatedIs ==
    ASSUME StackInv, TypesInv, Isolated
    PROVE  /\ TypesInv' /\ Place = "isolated" /\ Top.op = "switch_root" /\ raised = FALSE
           /\ GoesTo("connect")
<1>1. /\ Place = "isolated" /\ raised = FALSE /\ stack # <<>> /\ Top.op = "switch_root"
  BY AtIs, PlaceTells DEF Isolated, Places
<1>2. raised' = FALSE /\ entries' = entries /\ Continue("connect")
  BY <1>1 DEF Isolated, polling
<1>3. MayBe("connect")
  BY <1>1 DEF MayBe, Alike, Placed, Starts, Trying
<1>4. GoesTo("connect")
  BY <1>1, <1>2, <1>3, ContinueIs DEF Places
<1>5. TypesInv'
  BY DEF Isolated, TypesInv, polling, machine, units
<1> QED
  BY <1>1, <1>4, <1>5

LEMMA ScriptIs ==
    ASSUME StackInv, TypesInv, NEW op \in Op, Script(op)
    PROVE  /\ TypesInv' /\ stack = <<>> /\ raised = FALSE
           /\ \E f \in Frames : Opens(f) /\ f.op = op /\ f.at = Start(op)
<1>1. stack = <<>> /\ raised = FALSE /\ raised' = FALSE /\ entries' = entries
  BY DEF Script, StackInv
<1>2. calls' \in Calls
  BY NextCall DEF Script, TypesInv
<1>3. PICK i \in (IF op = "poll_wait" THEN Polled ELSE {0}) :
          Push([Call(op, Start(op), i) EXCEPT !.call = IF op = "execute" THEN calls' ELSE 0])
  BY DEF Script
<1>4. PICK c : c = IF op = "execute" THEN calls' ELSE 0
  OBVIOUS
<1>5. c \in Calls /\ i \in {0} \cup Polled /\ (op = "poll_wait" => i # 0)
  BY <1>2, <1>3, <1>4, Parameters DEF Calls, Polled
<1>6. PICK n : n = Call(op, Start(op), i)
  OBVIOUS
<1>7. PICK at \in Places : at = Start(op)
  BY DEF Start, Places
<1>8. n \in Frames /\ n.op = op /\ n.at = at /\ n.cond = i /\ n.cmd = "test"
  <2>1. op \in Op \cup {"check"} /\ n = Call(op, at, i) /\ at \in Places
    BY <1>6, <1>7
  <2> QED
    BY ONLY <1>5, <2>1, NewCall
<1>9. PICK f : f = [n EXCEPT !.call = c]
  OBVIOUS
<1>10. f \in Frames /\ f.op = op /\ f.at = Start(op) /\ f.cond = i /\ f.cmd = "test"
  BY <1>5, <1>7, <1>8, <1>9 DEF Frames
<1>11. Placed(f)
  <2>1. /\ op \in {"execute", "reboot", "crash"} => Start(op) = "callbacks"
        /\ op = "shutdown" => Start(op) = "poweroff"
        /\ op = "switch_root" => Start(op) = "initrd"
        /\ op \notin {"execute", "reboot", "crash", "shutdown", "switch_root"} => Start(op) = "try"
    BY DEF Start
  <2>2. op # "check"
    BY DEF Op
  <2> QED
    BY ONLY <1>5, <1>10, <2>1, <2>2 DEF Placed, Starts, Trying
<1>12. stack' = <<f>>
  BY <1>1, <1>3, <1>4, <1>6, <1>9 DEF Push
<1>13. Opens(f)
  BY <1>1, <1>10, <1>11, <1>12 DEF Opens
<1>14. TypesInv'
  <2>1. answer' \in [call : Calls, out : Seq(Prints), rc : Prints]
    <3>1. <<>> \in Seq(Prints) /\ 0 \in Calls
      BY Parameters DEF Calls
    <3> QED
      BY <3>1 DEF Script, Nothing, Status, Prints, Codes
  <2>2. idle' \in BOOLEAN /\ gone' \in BOOLEAN
    BY DEF Script
  <2> QED
    BY <1>2, <2>1, <2>2 DEF Script, TypesInv, machine
<1> QED
  BY <1>1, <1>10, <1>13, <1>14

-----------------------------------------------------------------------------
(* The steps that are not the driver's leave its stack alone.              *)

Still == stack' = stack /\ entries' = entries /\ raised' = raised

LEMMA StillStays ==
    ASSUME StackInv, Still
    PROVE  Stays /\ StackInv' /\ Place' = Place /\ Top' = Top /\ Len(stack') = Len(stack)
BY DEF Still, Stays, StackInv, Place, Top

LEMMA NothingIs ==
    ASSUME TypesInv, UNCHANGED vars
    PROVE  TypesInv' /\ Still
BY DEF vars, driver, polling, machine, units, TypesInv, Still

LEMMA TickIs ==
    ASSUME TypesInv, NEW i \in Polled, Tick(i)
    PROVE  TypesInv' /\ Still
BY DEF Tick, driver, machine, units, TypesInv, Still

LEMMA AppendedPrint ==
    ASSUME TypesInv, NEW x \in Prints, toDriver' = Append(toDriver, x)
    PROVE  /\ toDriver' \in Seq(Prints) /\ Len(toDriver') = Len(toDriver) + 1
           /\ toDriver'[Len(toDriver) + 1] = x /\ toDriver' # <<>>
           /\ \A k \in 1 .. Len(toDriver) : toDriver'[k] = toDriver[k]
<1>1. toDriver \in Seq(Prints)
  BY DEF TypesInv
<1> QED
  BY <1>1

LEMMA ShellUpIs ==
    ASSUME TypesInv, ShellUp
    PROVE  TypesInv' /\ Still
<1>1. Banner \in Prints
  BY Parameters DEF Banner, Prints, Calls
<1>2. toDriver' \in Seq(Prints)
  BY <1>1, AppendedPrint DEF ShellUp
<1> QED
  BY <1>2 DEF ShellUp, driver, polling, units, TypesInv, Still

LEMMA PrintsAre ==
    ASSUME NEW c \in Calls, NEW v \in Codes \cup States \cup {"no_jobs", "jobs", "none"}
    PROVE  Output(c, v) \in Prints /\ Status(c, v) \in Prints /\ Status(0, v) \in Prints
BY Parameters DEF Output, Status, Prints, Calls

LEMMA RunLineIs ==
    ASSUME TypesInv, RunLine
    PROVE  TypesInv' /\ Still
<1>1. PICK line : line = Head(toGuest)
  OBVIOUS
<1>2. line \in Lines /\ Tail(toGuest) \in Seq(Lines)
  BY <1>1, HeadTailProperties DEF RunLine, TypesInv
<1>3. line.call \in Calls /\ line.by \in {0} \cup Polled
  BY <1>2 DEF Lines
<1>4. PICK u : u = unit
  OBVIOUS
<1>5. u \in States
  BY <1>4 DEF TypesInv
<1>6. /\ \A v \in Codes \cup {"no_jobs", "jobs", "none"} :
            Output(line.call, v) \in Prints /\ Status(line.call, v) \in Prints
      /\ Output(line.call, u) \in Prints /\ Status(0, "ok") \in Prints
  BY <1>3, <1>5, PrintsAre DEF Codes
<1>7. Still /\ toGuest' \in Seq(Lines) /\ alive' = alive /\ rebootable' = rebootable
      /\ gone' = gone /\ booted' = booted /\ connected' = connected /\ answer' = answer
      /\ calls' = calls /\ overdue' = overdue /\ blamed' = blamed
  BY <1>2 DEF RunLine, driver, polling, Still
<1>8. /\ toDriver' \in Seq(Prints) /\ ran' \in Prints
      /\ guest' \in {"booting", "shell", "rebooting", "halting"}
      /\ unit' \in States /\ job' \in BOOLEAN /\ idle' \in BOOLEAN
      /\ failing' \subseteq {0} \cup Polled
  <2>0. /\ ran \in Prints /\ unit \in States /\ job \in BOOLEAN /\ idle \in BOOLEAN
        /\ failing \subseteq {0} \cup Polled /\ toDriver \in Seq(Prints)
        /\ guest \in {"booting", "shell", "rebooting", "halting"}
    BY DEF TypesInv
  <2>1. CASE /\ line.cmd = "test"
             /\ \E rc \in Codes :
                  /\ ran' = Status(line.call, rc)
                  /\ failing' = failing \cup (IF rc = "bad" THEN {line.by} ELSE {})
             /\ Says(Output(line.call, "none"))
             /\ UNCHANGED <<guest, units>>
    BY ONLY TypesInv, <2>0, <2>1, <1>3, <1>6, AppendedPrint DEF Says, units
  <2>2. CASE /\ line.cmd = "show"
             /\ Says(Output(line.call, unit)) /\ ran' = Status(line.call, "ok")
             /\ UNCHANGED <<guest, units, failing>>
    BY ONLY TypesInv, <2>0, <2>2, <1>4, <1>6, AppendedPrint DEF Says, units, Codes
  <2>3. CASE /\ line.cmd = "list-jobs"
             /\ \E jobs \in {"no_jobs", "jobs"} :
                  /\ job => jobs = "jobs"
                  /\ Says(Output(line.call, jobs))
             /\ ran' = Status(line.call, "ok")
             /\ UNCHANGED <<guest, units, failing>>
    BY ONLY TypesInv, <2>0, <2>3, <1>6, AppendedPrint DEF Says, units, Codes
  <2>4. CASE /\ line.cmd = "status"
             /\ Says(ran) /\ ran' = Status(0, "ok")
             /\ UNCHANGED <<guest, units, failing>>
    BY ONLY TypesInv, <2>0, <2>4, <1>6, AppendedPrint DEF Says, units
  <2>5. CASE /\ line.cmd = "isolate"
             /\ Says(Output(line.call, "none")) /\ ran' = Status(line.call, "ok")
             /\ guest' = "booting" /\ \E j \in BOOLEAN : SetUnit("inactive", j)
             /\ UNCHANGED failing
    BY ONLY TypesInv, <2>0, <2>5, <1>6, AppendedPrint DEF Says, SetUnit, Codes, States
  <2>6. CASE /\ line.cmd = "poweroff"
             /\ guest' = "halting"
             /\ UNCHANGED <<toDriver, ran, units, failing>>
    BY ONLY <2>0, <2>6 DEF units
  <2> QED
    BY <1>1, <2>1, <2>2, <2>3, <2>4, <2>5, <2>6 DEF RunLine
<1> QED
  BY <1>7, <1>8 DEF TypesInv

LEMMA GuestDownIs ==
    ASSUME TypesInv, GuestDown
    PROVE  TypesInv' /\ Still
<1>1. <<>> \in Seq(Lines)
  OBVIOUS
<1> QED
  BY <1>1 DEF GuestDown, driver, polling, SetUnit, units, States, TypesInv, Still

LEMMA UnitStepIs ==
    ASSUME TypesInv, UnitStep
    PROVE  TypesInv' /\ Still
BY DEF UnitStep, SetUnit, States, driver, polling, machine, TypesInv, Still

LEMMA DieIs ==
    ASSUME TypesInv, Die
    PROVE  TypesInv' /\ Still
BY DEF Die, driver, polling, units, TypesInv, Still

-----------------------------------------------------------------------------
(* Types, and the shape of the stack.                                      *)

GoesOnAny == \E f \in Frames : GoesOn(f)
EntersAny == \E f, g \in Frames : Enters(g, f)
OpensAny  == \E f \in Frames : Opens(f)

LEMMA StackStep ==
    ASSUME StackInv, Stays \/ GoesOnAny \/ EntersAny \/ Leaves \/ OpensAny
    PROVE  StackInv'
<1>1. CASE Stays
  BY <1>1, StaysKeepsStack
<1>2. CASE GoesOnAny
  BY <1>2, GoesOnKeepsStack DEF GoesOnAny
<1>3. CASE EntersAny
  BY <1>3, EntersKeepsStack DEF EntersAny
<1>4. CASE Leaves
  BY <1>4, LeavesKeepsStack
<1>5. CASE OpensAny
  BY <1>5, OpensKeepsStack DEF OpensAny
<1> QED
  BY <1>1, <1>2, <1>3, <1>4, <1>5

LEMMA Stacked ==
    ASSUME NEW at
    PROVE  /\ GoesTo(at) => GoesOnAny
           /\ ChecksOne(at) => EntersAny
           /\ \A cmd : Executes(at, cmd) => EntersAny
           /\ \A g \in Frames : Makes(at, g) => EntersAny
BY DEF GoesTo, GoesOnAny, ChecksOne, Executes, Makes, EntersAny

LEMMA DriverKeepsTypes ==
    ASSUME StackInv, TypesInv, DriverStep
    PROVE  StackInv' /\ TypesInv'
<1> DEFINE Moving == Stays \/ GoesOnAny \/ EntersAny \/ Leaves \/ OpensAny
<1> SUFFICES Moving /\ TypesInv'
  BY StackStep
<1>1. CASE RunCallbacks
  BY <1>1, RunCallbacksIs, Stacked
<1>2. CASE Evaluate
  BY <1>2, EvaluateIs, Stacked
<1>3. CASE Evaluated
  BY <1>3, EvaluatedIs
<1>4. CASE Unwind
  BY <1>4, UnwindIs
<1>5. CASE StartCalled
  BY <1>5, StartCalledIs
<1>6. CASE StartFirst
  BY <1>6, StartFirstIs
<1>7. CASE ReadBanner
  BY <1>7, ReadBannerIs, Stacked
<1>8. CASE ReadNothing
  BY <1>8, NothingIs, StillStays DEF ReadNothing
<1>9. CASE AlreadyConnected
  BY <1>9, AlreadyConnectedIs, Stacked
<1>10. CASE Key
  BY <1>10, KeyIs, Stacked
<1>11. CASE Reset
  BY <1>11, ResetIs
<1>12. CASE Quit
  BY <1>12, QuitIs, Stacked
<1>13. CASE Poweroff
  BY <1>13, PoweroffIs, Stacked
<1>14. CASE WaitForShutdown
  BY <1>14, WaitForShutdownIs
<1>15. CASE SendCommand
  BY <1>15, SendCommandIs, Stacked
<1>16. CASE ReadOutput
  BY <1>16, ReadOutputIs DEF GoesOnAny
<1>17. CASE AskStatus
  BY <1>17, AskStatusIs, Stacked
<1>18. CASE ReadStatus
  BY <1>18, ReadStatusIs
<1>19. CASE Try
  BY <1>19, TryIs, Stacked
<1>20. CASE TryCondition
  BY <1>20, TryConditionIs, Stacked
<1>21. CASE Tried
  BY <1>21, TriedIs, Stacked
<1>22. CASE UnitSeen
  BY <1>22, UnitSeenIs, Stacked
<1>23. CASE JobsSeen
  BY <1>23, JobsSeenIs, Stacked
<1>24. CASE UnitSeenAgain
  BY <1>24, UnitSeenAgainIs, Stacked
<1>25. CASE WaitForInitrd
  BY <1>25, WaitForInitrdIs, Stacked
<1>26. CASE Isolate
  BY <1>26, IsolateIs, Stacked
<1>27. CASE Isolated
  BY <1>27, IsolatedIs, Stacked
<1> QED
  BY <1>1, <1>2, <1>3, <1>4, <1>5, <1>6, <1>7, <1>8, <1>9, <1>10, <1>11, <1>12, <1>13, <1>14,
     <1>15, <1>16, <1>17, <1>18, <1>19, <1>20, <1>21, <1>22, <1>23, <1>24, <1>25, <1>26, <1>27
  DEF DriverStep

LEMMA TypesStep ==
    ASSUME StackInv, TypesInv, Next
    PROVE  StackInv' /\ TypesInv'
<1>1. CASE \E op \in Op : Script(op)
  <2>1. PICK op \in Op : Script(op)
    BY <1>1
  <2>2. OpensAny /\ TypesInv'
    BY <2>1, ScriptIs DEF OpensAny
  <2> QED
    BY <2>2, StackStep
<1>2. CASE DriverStep
  BY <1>2, DriverKeepsTypes
<1>3. CASE Guest \/ UnitStep \/ Die \/ \E i \in Polled : Tick(i)
  BY <1>3, ShellUpIs, RunLineIs, GuestDownIs, UnitStepIs, DieIs, TickIs, StillStays DEF Guest
<1> QED
  BY <1>1, <1>2, <1>3 DEF Next

LEMMA TypesAtFirst ==
    ASSUME Init
    PROVE  StackInv /\ TypesInv
<1>1. TypesInv
  <2>1. /\ <<>> \in Seq(Prints) /\ <<>> \in Seq(Lines) /\ 0 \in Calls /\ NCalls \in Calls
    BY Parameters DEF Calls
  <2>2. Status(0, "ok") \in Prints
    BY <2>1, PrintsAre DEF Codes
  <2>3. Nothing \in [call : Calls, out : Seq(Prints), rc : Prints]
    BY <2>1, <2>2 DEF Nothing
  <2> QED
    BY <2>1, <2>2, <2>3 DEF Init, TypesInv, States
<1>2. StackInv
  <2>1. stack = <<>> /\ Len(stack) = 0 /\ stack \in Seq(Frames) /\ raised = FALSE
    BY DEF Init
  <2>2. entries \in [Polled -> 0 .. 1] /\ \A i \in Polled : entries[i] = 0
    BY DEF Init
  <2>3. Shape(stack)
    BY <2>1 DEF Shape
  <2>4. Counted(entries, stack)
    BY <2>1, <2>2 DEF Counted
  <2> QED
    BY <2>1, <2>2, <2>3, <2>4 DEF StackInv
<1> QED
  BY <1>1, <1>2

LEMMA TypesAreKept == Spec => [](StackInv /\ TypesInv)
<1>1. Init => StackInv /\ TypesInv
  BY TypesAtFirst
<1>2. StackInv /\ TypesInv /\ [Next]_vars => (StackInv /\ TypesInv)'
  <2> SUFFICES ASSUME StackInv, TypesInv, [Next]_vars PROVE StackInv' /\ TypesInv'
    OBVIOUS
  <2>1. CASE Next
    BY <2>1, TypesStep
  <2>2. CASE UNCHANGED vars
    BY <2>2, NothingIs, StillStays
  <2> QED
    BY <2>1, <2>2
<1> QED
  BY <1>1, <1>2, PTL DEF Spec

(* Every variable stays in its set, whatever the script calls, however     *)
(* careless it is and whether or not QEMU exits by itself: no condition is *)
(* checked inside its own check (run_callbacks, entry_count), so that the  *)
(* driver's calls are never nested deeper than 3 + 2 * Conditions.         *)
THEOREM TypeCorrect == Spec => []TypeOK
<1>1. StackInv /\ TypesInv => TypeOK
  <2> SUFFICES ASSUME StackInv, TypesInv PROVE TypeOK
    OBVIOUS
  <2>1. \A k \in DOMAIN stack : stack[k] \in Frames
    BY DEF StackInv
  <2>2. Len(stack) <= 3 + 2 * Conditions
    BY StackIsBounded DEF StackInv
  <2> QED
    BY <2>1, <2>2 DEF StackInv, TypesInv, TypeOK
<1> QED
  BY <1>1, TypesAreKept, PTL

-----------------------------------------------------------------------------
(* What is in the socket.  While the driver is connected and no command is *)
(* on its way the guest's shell waits for a line and the socket is empty;  *)
(* while it is not, the banner of one shell is still to come.              *)

Here  == guest = "shell" /\ toGuest = <<>>
Quiet == Here /\ toDriver = <<>>

NoBanner(s) == \A k \in 1 .. Len(s) : s[k] # Banner
Heralded(s) == s # <<>> /\ s[Len(s)] = Banner /\ \A k \in 1 .. Len(s) - 1 : s[k] # Banner

Leaving == guest = "shell" /\ toGuest # <<>> /\ Tail(toGuest) = <<>>
           /\ Head(toGuest).cmd = "isolate" /\ toDriver = <<>>
GoneBy  == guest \in {"booting", "rebooting"} /\ toGuest = <<>> /\ NoBanner(toDriver)
Coming  == Leaving \/ GoneBy \/ (Here /\ Heralded(toDriver))

IsOutput(p) == p.kind = "output" /\ p.call = Top.call
IsStatus(p) == p.kind = "status" /\ p.call = Top.call
Sent(cmd)   == guest = "shell" /\ toDriver = <<>> /\ toGuest = <<SentLine(cmd)>>
HasRead     == Len(Top.out) = 1 /\ IsOutput(Top.out[1])
Printed     == Here /\ IsStatus(ran) /\ Len(toDriver) = 1 /\ IsOutput(toDriver[1])
Echoed      == Here /\ Len(toDriver) = 1 /\ IsStatus(toDriver[1])
Speaking    == Sent(Top.cmd) \/ Printed
Answering   == HasRead /\ ((Sent("status") /\ IsStatus(ran)) \/ Echoed)

(* Where the driver waits for something of the guest, or has just sent it *)
(* away, so that connected says nothing yet.                              *)
Bound == {"output", "ask", "status", "reset", "isolated", "wait"}

AtWire ==
    /\ Place \in {"send", "output", "ask", "status"} => connected
    /\ Place \in {"output", "ask", "status"} => Top.cmd # "isolate"
    /\ Place = "output" => Speaking
    /\ Place = "ask" /\ alive => Quiet /\ HasRead /\ IsStatus(ran)
    /\ Place = "status" => Answering
    /\ alive /\ Place \in {"reset", "isolated"} => Coming
    /\ alive /\ Place \notin Bound => IF connected THEN Quiet ELSE Coming

(* The script's own call. *)
RootOp == IF stack = <<>> THEN "none" ELSE stack[Len(stack)].op

Attached ==
    /\ alive => booted
    /\ connected => booted
    /\ RootOp = "reboot" => connected
    /\ RootOp \in Starts => ~booted

WireInv == Attached /\ AtWire /\ OutputsArePaired

(* Where the driver is after a step of the stack. *)
LEMMA PlaceAfter ==
    ASSUME StackInv
    PROVE  /\ Stays /\ raised' = TRUE => Place' = "free"
           /\ Stays /\ raised' = raised => Place' = Place /\ Top' = Top
           /\ \A at : GoesTo(at) => /\ Place' = at /\ Alike(Top', Top) /\ Top'.out = Top.out
           /\ \A at : ChecksOne(at) => Place' = "evaluate"
           /\ \A at, cmd : Executes(at, cmd) => Place' = "callbacks"
           /\ \A at : \A g \in Frames : Makes(at, g) => Place' = g.at
<1>1. Stays /\ raised' = TRUE => Place' = "free"
  BY DEF Stays, Place
<1>2. Stays /\ raised' = raised => Place' = Place /\ Top' = Top
  BY DEF Stays, Place, Top
<1>3. ASSUME NEW at, GoesTo(at)
      PROVE  Place' = at /\ Alike(Top', Top) /\ Top'.out = Top.out
  <2>1. PICK f \in Frames : GoesOn(f) /\ f.at = at /\ f.out = Top.out
    BY <1>3 DEF GoesTo
  <2>2. Place' = f.at /\ Top' = f
    BY <2>1, GoesOnKeepsStack
  <2> QED
    BY <2>1, <2>2 DEF GoesOn, Keeps
<1>4. ASSUME NEW at, NEW g \in Frames, Makes(at, g)
      PROVE  Place' = g.at
  <2>1. PICK f \in Frames : Enters(g, f)
    BY <1>4 DEF Makes
  <2> QED
    BY <2>1, EntersKeepsStack
<1>5. ASSUME NEW at, ChecksOne(at) PROVE Place' = "evaluate"
  BY <1>4, <1>5 DEF ChecksOne
<1>6. ASSUME NEW at, NEW cmd, Executes(at, cmd) PROVE Place' = "callbacks"
  BY <1>4, <1>6 DEF Executes
<1> QED
  BY <1>1, <1>2, <1>3, <1>4, <1>5, <1>6

LEMMA RootStays ==
    ASSUME StackInv, Stays \/ GoesOnAny \/ EntersAny
    PROVE  RootOp' = RootOp
<1>1. CASE Stays
  BY <1>1 DEF Stays, RootOp
<1>2. CASE GoesOnAny
  <2>1. PICK f \in Frames : GoesOn(f)
    BY <1>2 DEF GoesOnAny
  <2>2. PICK t : t = stack'
    OBVIOUS
  <2>3. PICK n : n = Len(stack) /\ n \in Nat /\ n >= 1 /\ Top = stack[1] /\ stack # <<>>
    BY <2>1, TopIs DEF GoesOn
  <2>4. /\ t # <<>> /\ Len(t) = n /\ \A k \in 2 .. n : t[k] = stack[k]
    BY <2>1, <2>2, <2>3, GoesOnKeepsStack
  <2>5. t[1].op = stack[1].op
    <3>1. t[1] = f
      BY <2>1, <2>2, MovedIs DEF StackInv, GoesOn, Keeps
    <3> QED
      BY <2>1, <2>3, <3>1 DEF GoesOn, Keeps, Alike
  <2>6. t[n].op = stack[n].op
    BY <2>3, <2>4, <2>5
  <2> QED
    BY <2>2, <2>3, <2>4, <2>6 DEF RootOp
<1>3. CASE EntersAny
  <2>1. PICK f \in Frames, g \in Frames : Enters(g, f)
    BY <1>3 DEF EntersAny
  <2>2. PICK t : t = stack'
    OBVIOUS
  <2>3. PICK n : n = Len(stack) /\ n \in Nat /\ n >= 1 /\ Top = stack[1] /\ stack # <<>>
    BY <2>1, TopIs DEF Enters
  <2>4. /\ t # <<>> /\ Len(t) = n + 1 /\ \A k \in 3 .. n + 1 : t[k] = stack[k - 1]
        /\ t[2] = f
    BY <2>1, <2>2, <2>3, EntersKeepsStack
  <2>5. f.op = stack[1].op
    BY <2>1, <2>3 DEF Enters, Keeps, Alike
  <2>6. t[n + 1].op = stack[n].op
    <3>1. CASE n = 1
      <4>1. n + 1 = 2 /\ stack[n] = stack[1] /\ t[n + 1] = t[2]
        BY ONLY <3>1
      <4> QED
        BY <2>4, <2>5, <4>1
    <3>2. CASE n # 1
      <4>1. n + 1 \in 3 .. n + 1 /\ n + 1 - 1 = n
        BY <2>3, <3>2
      <4>2. PICK m : m = n + 1
        OBVIOUS
      <4>3. m \in 3 .. n + 1 /\ m - 1 = n
        <5>1. n \in Nat /\ n >= 1
          BY ONLY <2>3
        <5> QED
          BY ONLY <5>1, <3>2, <4>2
      <4>4. t[m] = stack[m - 1]
        BY ONLY <2>4, <4>3
      <4> QED
        BY <4>2, <4>3, <4>4
    <3> QED
      BY <3>1, <3>2
  <2> QED
    BY <2>2, <2>3, <2>4, <2>6 DEF RootOp
<1> QED
  BY <1>1, <1>2, <1>3

LEMMA RootLeaves ==
    ASSUME StackInv, Leaves
    PROVE  RootOp' = RootOp \/ RootOp' = "none"
<1>1. PICK t : t = stack'
  OBVIOUS
<1>2. PICK n : n = Len(stack) /\ n \in Nat /\ n >= 1 /\ stack # <<>>
  BY TopIs DEF Leaves
<1>3. Len(t) = n - 1 /\ \A k \in 1 .. n - 1 : t[k] = stack[k + 1]
  BY <1>1, <1>2, LeavesKeepsStack
<1>4. t \in Seq(Frames)
  BY <1>1, LeavesKeepsStack DEF StackInv
<1>5. CASE t # <<>>
  <2>1. n - 1 \in 1 .. n - 1 /\ n - 1 + 1 = n
    BY <1>2, <1>3, <1>4, <1>5
  <2>2. t[n - 1] = stack[n]
    BY <1>3, <2>1
  <2> QED
    BY <1>1, <1>2, <1>3, <1>5, <2>2 DEF RootOp
<1> QED
  BY <1>1, <1>5 DEF RootOp

LEMMA RootIsTop ==
    ASSUME StackInv, stack # <<>>, Top.op \notin {"check", "execute", "wait_for_unit"}
    PROVE  /\ RootOp = Top.op
           /\ Leaves => stack' = <<>> /\ RootOp' = "none" /\ Place' = "free"
<1>1. Len(stack) = 1 /\ Top = stack[1]
  BY BottomOps, TopIs
<1>2. Leaves => stack' = <<>>
  <2> SUFFICES ASSUME Leaves PROVE stack' = <<>>
    OBVIOUS
  <2>1. stack' # <<>> => Len(stack) > 1
    BY LeavesKeepsStack
  <2> QED
    BY <1>1, <2>1
<1> QED
  BY <1>1, <1>2 DEF RootOp, Place

(* start makes no call of its own. *)
LEMMA StartIsAlone ==
    ASSUME StackInv, RootOp \in Starts
    PROVE  stack # <<>> /\ Top.op \in Starts
<1>1. stack # <<>>
  BY DEF RootOp, Starts
<1>2. PICK n : n = Len(stack) /\ n \in Nat /\ n >= 1 /\ Top = stack[1]
  BY <1>1, TopIs
<1>3. stack[n].op \in Starts /\ Placed(stack[n])
  BY <1>1, <1>2 DEF RootOp, StackInv, Shape
<1>4. stack[n].at = "try"
  BY <1>3 DEF Placed
<1>5. CASE n > 1
  <2>1. PICK m : m = n - 1
    OBVIOUS
  <2>2. m \in 1 .. n - 1 /\ m + 1 = n
    BY <1>2, <1>5, <2>1
  <2>3. Link(stack[m], stack[n])
    BY <1>2, <2>2 DEF StackInv, Shape
  <2>4. /\ stack[n].op \notin {"poll_wait", "wait_for_unit"} \cup Trying
        /\ stack[n].at \notin {"callbacks", "evaluated", "jobs", "isolated", "isolate"}
    BY <1>3, <1>4 DEF Starts, Trying
  <2> QED
    BY ONLY <2>3, <2>4 DEF Link
<1> QED
  BY <1>1, <1>2, <1>3, <1>5

LEMMA LeavesTo ==
    ASSUME StackInv, Leaves
    PROVE  /\ Place' # "free" => stack' # <<>> /\ Place' = stack[2].at /\ Top' = stack[2]
           /\ Top.op = "check" => Place' \in {"free", "callbacks", "tried"}
           /\ Top.op = "wait_for_unit" => Place' \in {"free", "isolate"}
           /\ Top.op = "execute" /\ Top.cmd # "isolate"
                => Place' \in {"free", "evaluated", "tried", "jobs", "again"}
           /\ Top.op = "execute" /\ Top.cmd = "isolate" /\ raised' = FALSE
                => Place' = "isolated"
<1>1. /\ stack' # <<>> => Len(stack) > 1 /\ Top' = stack[2] /\ Link(Top, stack[2])
      /\ stack' # <<>> /\ ~raised' => Place' = stack[2].at
      /\ stack' = <<>> \/ raised' => Place' = "free"
  BY LeavesKeepsStack
<1>2. stack' # <<>> =>
          /\ Top.op = "check" => stack[2].at \in {"callbacks", "tried"}
          /\ Top.op = "wait_for_unit" => stack[2].at = "isolate"
          /\ Top.op = "execute" /\ Top.cmd # "isolate"
               => stack[2].at \in {"evaluated", "tried", "jobs", "again"}
          /\ Top.op = "execute" /\ Top.cmd = "isolate" => stack[2].at = "isolated"
  BY <1>1 DEF Link
<1>3. Top.op = "execute" /\ Top.cmd = "isolate" => stack' # <<>>
  <2> SUFFICES ASSUME Top.op = "execute", Top.cmd = "isolate", stack' = <<>> PROVE FALSE
    OBVIOUS
  <2>1. PICK n : n = Len(stack) /\ n \in Nat /\ n >= 1 /\ Top = stack[1] /\ stack # <<>>
    BY TopIs DEF Leaves
  <2>2. Len(stack') = n - 1
    BY <2>1, LeavesKeepsStack
  <2>3. PICK t : t = stack'
    OBVIOUS
  <2>4. t = <<>> /\ Len(t) = n - 1
    BY <2>2, <2>3
  <2>5. n = 1
    <3>1. Len(t) = 0
      BY ONLY <2>4
    <3>2. n - 1 = 0
      BY ONLY <2>4, <3>1
    <3>3. n \in Nat
      BY ONLY <2>1
    <3> QED
      BY ONLY <3>2, <3>3
  <2>6. stack[n].op = "execute" => stack[n].cmd = "test"
    BY <2>1 DEF StackInv, Shape
  <2> QED
    BY <2>1, <2>5, <2>6
<1>4. stack[2].at # "free" \/ stack' = <<>>
  BY LeavesKeepsStack DEF Frames, Places
<1> QED
  BY <1>1, <1>2, <1>3, <1>4

Moves == Stays \/ GoesOnAny \/ EntersAny \/ Leaves
Rests == UNCHANGED <<booted, connected, guest, toGuest, toDriver>> /\ (alive' => alive)

LEMMA GoesToIs ==
    ASSUME StackInv, NEW at, GoesTo(at)
    PROVE  Moves /\ Place' = at /\ Alike(Top', Top) /\ Top'.out = Top.out
BY PlaceAfter, Stacked DEF Moves

LEMMA ChecksOneIs ==
    ASSUME StackInv, NEW at, ChecksOne(at)
    PROVE  Moves /\ Place' = "evaluate"
BY PlaceAfter, Stacked DEF Moves

LEMMA ExecutesIs ==
    ASSUME StackInv, NEW at, NEW cmd, Executes(at, cmd)
    PROVE  Moves /\ Place' = "callbacks"
BY PlaceAfter, Stacked DEF Moves

LEMMA RaisesIs ==
    ASSUME StackInv, Stays, raised' = TRUE
    PROVE  Moves /\ Place' = "free"
BY PlaceAfter DEF Moves

LEMMA AttachedKept ==
    ASSUME StackInv, Attached, Moves, booted' = booted, connected' = connected, alive' => alive
    PROVE  Attached'
<1>1. RootOp' = RootOp \/ RootOp' = "none"
  BY RootStays, RootLeaves DEF Moves
<1> QED
  BY <1>1 DEF Attached, Starts

LEMMA AtOpen ==
    ASSUME Place' \notin Bound \cup {"send"}, alive' => IF connected' THEN Quiet' ELSE Coming'
    PROVE  AtWire'
BY DEF AtWire, Bound

LEMMA WireRests ==
    ASSUME Rests
    PROVE  (Quiet' <=> Quiet) /\ (Coming' <=> Coming)
BY DEF Rests, Quiet, Here, Coming, Leaving, GoneBy, Heralded, NoBanner

(* A step between two places where the socket is left alone. *)
LEMMA PauseKeepsWire ==
    ASSUME StackInv, Attached, AtWire, Moves, Rests,
           Place \notin Bound \/ ~alive, Place' \notin Bound \cup {"send"}
    PROVE  Attached' /\ AtWire'
<1>1. Attached'
  BY AttachedKept DEF Rests
<1>2. alive' => alive /\ IF connected THEN Quiet ELSE Coming
  BY DEF Rests, AtWire
<1>3. alive' => IF connected' THEN Quiet' ELSE Coming'
  BY <1>2, WireRests DEF Rests
<1> QED
  BY <1>1, <1>3, AtOpen

LEMMA PairsKept ==
    ASSUME OutputsArePaired, answer' = answer
    PROVE  OutputsArePaired'
BY DEF OutputsArePaired

LEMMA NoPair ==
    ASSUME answer'.call = 0
    PROVE  OutputsArePaired'
BY DEF OutputsArePaired

Pause == RunCallbacks \/ Evaluate \/ Evaluated \/ Unwind \/ Try \/ TryCondition \/ Tried
         \/ UnitSeen \/ JobsSeen \/ UnitSeenAgain \/ WaitForInitrd \/ Isolate

LEMMA PauseRests ==
    ASSUME Pause
    PROVE  Rests
BY DEF Pause, RunCallbacks, Evaluate, Evaluated, Unwind, Try, TryCondition, Tried, UnitSeen,
       JobsSeen, UnitSeenAgain, WaitForInitrd, Isolate, Unchanging, machine, Rests

LEMMA PauseAnswers ==
    ASSUME Pause
    PROVE  answer' = answer \/ answer'.call = 0
BY DEF Pause, RunCallbacks, Evaluate, Evaluated, Unwind, Try, TryCondition, Tried, UnitSeen,
       JobsSeen, UnitSeenAgain, WaitForInitrd, Isolate, Unchanging, Nothing

LEMMA PauseMoves ==
    ASSUME StackInv, TypesInv, Pause
    PROVE  Moves /\ Place \notin Bound /\ Place' \notin Bound \cup {"send", "evaluated", "jobs", "again"}
<1>1. CASE RunCallbacks
  <2>1. /\ Place = "callbacks"
        /\ ChecksOne("callbacks") \/ GoesTo("connect") \/ GoesTo("key") \/ GoesTo("quit")
    BY <1>1, RunCallbacksIs
  <2>2. Moves /\ Place' \in {"evaluate", "connect", "key", "quit"}
    BY <2>1, ChecksOneIs, GoesToIs
  <2> QED
    BY <2>1, <2>2 DEF Bound
<1>2. CASE Evaluate
  <2>1. Place = "evaluate" /\ Executes("evaluated", "test")
    BY <1>2, EvaluateIs
  <2>2. Moves /\ Place' = "callbacks"
    BY <2>1, ExecutesIs
  <2> QED
    BY <2>1, <2>2 DEF Bound
<1>3. CASE Evaluated
  <2>1. stack # <<>> /\ Top.op = "check" /\ Leaves
    BY <1>3, EvaluatedIs
  <2>2. Place \in {"free", "evaluate", "evaluated"}
    BY <2>1, TopIs DEF Place, Placed
  <2>3. Place' \in {"free", "callbacks", "tried"}
    BY <2>1, LeavesTo
  <2> QED
    BY <2>1, <2>2, <2>3 DEF Moves, Bound
<1>4. CASE Unwind
  <2>1. raised = TRUE /\ Leaves /\ (raised' \/ stack' = <<>>)
    BY <1>4, UnwindIs
  <2>2. Place = "free" /\ Place' = "free"
    BY <2>1 DEF Place
  <2> QED
    BY <2>1, <2>2 DEF Moves, Bound
<1>5. CASE Try
  <2>1. Place = "try" /\ (Executes("tried", "test") \/ Executes("tried", "show"))
    BY <1>5, TryIs
  <2>2. Moves /\ Place' = "callbacks"
    BY <2>1, ExecutesIs
  <2> QED
    BY <2>1, <2>2 DEF Bound
<1>6. CASE TryCondition
  <2>1. Place = "try" /\ ChecksOne("tried")
    BY <1>6, TryConditionIs
  <2>2. Moves /\ Place' = "evaluate"
    BY <2>1, ChecksOneIs
  <2> QED
    BY <2>1, <2>2 DEF Bound
<1>7. CASE Tried
  <2>1. /\ Place = "tried" /\ Top.op \in Trying \cup {"poll_wait"}
        /\ (Leaves /\ raised' = FALSE) \/ (Stays /\ raised' = TRUE) \/ GoesTo("try")
    BY <1>7, TriedIs
  <2>2. stack # <<>>
    BY <2>1 DEF Place
  <2>3. Leaves => Place' = "free" /\ Moves
    BY <2>1, <2>2, RootIsTop DEF Trying, Moves
  <2>4. Moves /\ Place' \in {"free", "try"}
    BY <2>1, <2>3, RaisesIs, GoesToIs
  <2> QED
    BY <2>1, <2>4 DEF Bound
<1>8. CASE UnitSeen
  <2>1. /\ Place = "tried" /\ Top.op = "wait_for_unit"
        /\ (Leaves /\ raised' = FALSE) \/ (Stays /\ raised' = TRUE) \/ GoesTo("try")
              \/ Executes("jobs", "list-jobs")
    BY <1>8, UnitSeenIs
  <2>2. Leaves => Moves /\ Place' \in {"free", "isolate"}
    BY <2>1, LeavesTo DEF Moves
  <2>3. Moves /\ Place' \in {"free", "isolate", "try", "callbacks"}
    BY <2>1, <2>2, RaisesIs, GoesToIs, ExecutesIs
  <2> QED
    BY <2>1, <2>3 DEF Bound
<1>9. CASE JobsSeen
  <2>1. /\ Place = "jobs"
        /\ (Stays /\ raised' = TRUE) \/ GoesTo("try") \/ Executes("again", "show")
    BY <1>9, JobsSeenIs
  <2>2. Moves /\ Place' \in {"free", "try", "callbacks"}
    BY <2>1, RaisesIs, GoesToIs, ExecutesIs
  <2> QED
    BY <2>1, <2>2 DEF Bound
<1>10. CASE UnitSeenAgain
  <2>1. Place = "again" /\ ((Stays /\ raised' = TRUE) \/ GoesTo("try"))
    BY <1>10, UnitSeenAgainIs
  <2>2. Moves /\ Place' \in {"free", "try"}
    BY <2>1, RaisesIs, GoesToIs
  <2> QED
    BY <2>1, <2>2 DEF Bound
<1>11. CASE WaitForInitrd
  <2>1. PICK g \in Frames : Makes("isolate", g) /\ g.at = "try"
    BY <1>11, WaitForInitrdIs
  <2>2. Moves /\ Place' = "try"
    BY <2>1, PlaceAfter, Stacked DEF Moves
  <2> QED
    BY <1>11, <2>2, WaitForInitrdIs DEF Bound
<1>12. CASE Isolate
  <2>1. Place = "isolate" /\ Executes("isolated", "isolate")
    BY <1>12, IsolateIs
  <2>2. Moves /\ Place' = "callbacks"
    BY <2>1, ExecutesIs
  <2> QED
    BY <2>1, <2>2 DEF Bound
<1> QED
  BY <1>1, <1>2, <1>3, <1>4, <1>5, <1>6, <1>7, <1>8, <1>9, <1>10, <1>11, <1>12 DEF Pause

LEMMA PausesKeepWire ==
    ASSUME StackInv, TypesInv, WireInv, Pause
    PROVE  WireInv'
<1>1. OutputsArePaired'
  BY PauseAnswers, PairsKept, NoPair DEF WireInv
<1>2. Attached' /\ AtWire'
  BY PauseMoves, PauseRests, PauseKeepsWire DEF WireInv
<1> QED
  BY <1>1, <1>2 DEF WireInv

(* What was to be done of a machine whose QEMU is gone raises. *)
LEMMA FailureKeepsWire ==
    ASSUME StackInv, Attached, AtWire, OutputsArePaired, Rests, answer' = answer,
           ~alive, Stays, raised' = TRUE
    PROVE  WireInv'
<1>1. Moves /\ Place' = "free"
  BY RaisesIs
<1>2. Attached' /\ AtWire'
  BY <1>1, PauseKeepsWire DEF Bound
<1> QED
  BY <1>2, PairsKept DEF WireInv

(* A machine that starts prints nothing before its banner. *)
LEMMA StartsComing ==
    ASSUME StartVm(TRUE) \/ StartVm(FALSE)
    PROVE  Coming'
<1>1. guest' = "booting" /\ toGuest' = <<>> /\ toDriver' = <<>>
  BY DEF StartVm
<1>2. PICK s : s = toDriver'
  OBVIOUS
<1>3. NoBanner(s)
  BY <1>1, <1>2 DEF NoBanner
<1> QED
  BY <1>1, <1>2, <1>3 DEF Coming, GoneBy

LEMMA StartCalledKeepsWire ==
    ASSUME StackInv, TypesInv, WireInv, StartCalled
    PROVE  WireInv'
<1>1. /\ stack # <<>> /\ Top.op \in Starts /\ Leaves
      /\ booted' = TRUE /\ connected' = connected /\ answer' = answer
      /\ StartVm(TRUE) \/ StartVm(FALSE)
  BY StartCalledIs DEF StartCalled, StartVm
<1>2. RootOp = Top.op /\ RootOp' = "none" /\ Place' = "free"
  BY <1>1, RootIsTop DEF Starts
<1>3. connected = FALSE
  BY <1>1, <1>2 DEF WireInv, Attached, TypesInv
<1>4. Coming'
  BY <1>1, StartsComing
<1>5. AtWire'
  BY <1>1, <1>2, <1>3, <1>4, AtOpen DEF Bound
<1>6. Attached'
  BY <1>1, <1>2 DEF Attached, Starts
<1> QED
  BY <1>1, <1>5, <1>6, PairsKept DEF WireInv

LEMMA StartFirstKeepsWire ==
    ASSUME StackInv, TypesInv, WireInv, StartFirst
    PROVE  WireInv'
<1>1. /\ Place = "connect" /\ Stays /\ raised' = raised
      /\ booted' = TRUE /\ connected = FALSE /\ connected' = connected /\ answer' = answer
      /\ StartVm(FALSE)
  BY StartFirstIs DEF StartFirst, StartVm, TypesInv
<1>2. Place' = "connect" /\ RootOp' = RootOp
  BY <1>1, PlaceAfter, RootStays
<1>3. Coming'
  BY <1>1, StartsComing
<1>4. AtWire'
  BY <1>1, <1>2, <1>3, AtOpen DEF Bound
<1>5. RootOp \notin Starts
  <2> SUFFICES ASSUME RootOp \in Starts PROVE FALSE
    OBVIOUS
  <2>1. stack # <<>> /\ Top.op \in Starts /\ Top \in Frames /\ Placed(Top) /\ Top.at = "connect"
    BY <1>1, StartIsAlone, TopIs DEF Place
  <2> QED
    BY <2>1 DEF Placed
<1>6. Attached'
  BY <1>1, <1>2, <1>5 DEF WireInv, Attached
<1> QED
  BY <1>1, <1>4, <1>6, PairsKept DEF WireInv

(* Once it is connected the driver sends its command, or leaves. *)
LEMMA ConnectedKeepsWire ==
    ASSUME StackInv, WireInv, Place = "connect", booted, connected' = TRUE, booted' = booted,
           alive' = alive, alive' => Quiet', answer' = answer,
           GoesTo("send") \/ Leaves, Leaves => Top.op = "switch_root"
    PROVE  WireInv'
<1>1. Moves
  BY GoesToIs DEF Moves
<1>2. stack # <<>>
  BY DEF Place
<1>3. Place' \in {"send", "free"}
  BY <1>2, GoesToIs, RootIsTop
<1>4. AtWire'
  BY <1>3 DEF AtWire, Bound
<1>5. RootOp' = RootOp \/ RootOp' = "none"
  BY <1>1, RootStays, RootLeaves DEF Moves
<1>6. RootOp \notin Starts
  BY DEF WireInv, Attached
<1>7. Attached'
  BY <1>5, <1>6 DEF Attached, Starts
<1> QED
  BY <1>4, <1>7, PairsKept DEF WireInv

LEMMA AlreadyConnectedKeepsWire ==
    ASSUME StackInv, TypesInv, WireInv, AlreadyConnected
    PROVE  WireInv'
<1>1. /\ Place = "connect" /\ connected /\ connected' = TRUE
      /\ GoesTo("send") \/ Leaves
      /\ Leaves => Top.op = "switch_root"
  BY AlreadyConnectedIs DEF AlreadyConnected, Connected
<1>2. booted' = booted /\ alive' = alive /\ answer' = answer /\ (Quiet' <=> Quiet)
  BY DEF AlreadyConnected, machine, Quiet, Here
<1>3. booted /\ (alive => Quiet)
  BY <1>1 DEF WireInv, Attached, AtWire, Bound
<1> QED
  BY <1>1, <1>2, <1>3, ConnectedKeepsWire

(* What is left of the stream after a read that begins it. *)
Rest(s, n, t) == t = SubSeq(s, n + 1, Len(s))

LEMMA RestOfStream ==
    ASSUME NEW s \in Seq(Prints), NEW n \in 1 .. Len(s), NEW t, Rest(s, n, t)
    PROVE  /\ NoBanner(s) => NoBanner(t) /\ \A k \in 1 .. n : s[k] # Banner
           /\ Heralded(s) /\ (\A k \in 1 .. n : s[k] # Banner) => Heralded(t)
           /\ Heralded(s) /\ (\E k \in 1 .. n : s[k] = Banner) => t = <<>>
<1>1. PICK m : m = Len(s) /\ m \in Nat
  OBVIOUS
<1>2. n \in 0 .. Len(s) /\ n \in Nat /\ n >= 1 /\ n <= m
  BY <1>1
<1>3. /\ t \in Seq(Prints) /\ Len(t) = m - n
      /\ \A k \in 1 .. m - n : t[k] = s[k + n]
  BY <1>1, <1>2, RestIsASequence DEF Rest
<1>4. \A k \in 1 .. m - n : k + n \in 1 .. m
  BY ONLY <1>1, <1>2
<1>5. \A k \in 1 .. n : k \in 1 .. m
  BY ONLY <1>1, <1>2
<1>6. ASSUME NoBanner(s) PROVE NoBanner(t) /\ \A k \in 1 .. n : s[k] # Banner
  BY ONLY <1>1, <1>3, <1>4, <1>5, <1>6 DEF NoBanner
<1>7. ASSUME Heralded(s), \A k \in 1 .. n : s[k] # Banner PROVE Heralded(t)
  <2>1. s[m] = Banner /\ \A k \in 1 .. m - 1 : s[k] # Banner
    BY ONLY <1>1, <1>7 DEF Heralded
  <2>2. n # m
    BY ONLY <1>2, <1>7, <2>1, n \in 1 .. Len(s), <1>1
  <2>3. m - n \in 1 .. m - n /\ m - n + n = m
    BY ONLY <1>1, <1>2, <2>2
  <2>4. t[m - n] = Banner
    BY ONLY <1>3, <2>1, <2>3
  <2>5. \A k \in 1 .. m - n - 1 : k \in 1 .. m - n /\ k + n \in 1 .. m - 1
    BY ONLY <1>1, <1>2, <2>2
  <2>6. \A k \in 1 .. m - n - 1 : t[k] # Banner
    BY ONLY <1>3, <2>1, <2>5
  <2>7. t # <<>>
    BY <1>3, <2>3
  <2> QED
    BY ONLY <1>3, <2>4, <2>6, <2>7 DEF Heralded
<1>8. ASSUME Heralded(s), NEW k \in 1 .. n, s[k] = Banner PROVE t = <<>>
  <2>1. \A i \in 1 .. m - 1 : s[i] # Banner
    BY ONLY <1>1, <1>8 DEF Heralded
  <2>2. n = m
    <3>1. k \notin 1 .. m - 1
      BY ONLY <1>8, <2>1
    <3> QED
      BY ONLY <3>1, <1>1, <1>2, k \in 1 .. n
  <2>3. Len(t) = 0
    BY ONLY <1>1, <1>3, <2>2
  <2> QED
    BY <1>3, <2>3
<1> QED
  BY <1>6, <1>7, <1>8

LEMMA ReadBannerKeepsWire ==
    ASSUME StackInv, TypesInv, WireInv, ReadBanner
    PROVE  WireInv'
<1>1. /\ Place = "connect" /\ raised = FALSE /\ raised' = FALSE /\ stack # <<>>
      /\ GoesTo("send") \/ Leaves \/ Stays
      /\ Leaves => Top.op = "switch_root"
      /\ connected = FALSE /\ booted = TRUE /\ booted' = booted /\ alive' = alive
      /\ answer' = answer /\ guest' = guest /\ toGuest' = toGuest /\ entries' = entries
  BY ReadBannerIs, AtIs DEF ReadBanner, TypesInv, Places, polling
<1>2. PICK s, t : s = toDriver /\ t = toDriver'
  OBVIOUS
<1>3. PICK n \in 1 .. Len(s) :
          /\ Rest(s, n, t)
          /\ IF \E k \in 1 .. n : s[k] = Banner THEN Connected ELSE UNCHANGED <<connected, stack>>
  BY <1>2 DEF ReadBanner, Rest
<1>4. s \in Seq(Prints)
  BY <1>2 DEF TypesInv
<1>5. /\ NoBanner(s) => NoBanner(t) /\ \A k \in 1 .. n : s[k] # Banner
      /\ Heralded(s) /\ (\A k \in 1 .. n : s[k] # Banner) => Heralded(t)
      /\ Heralded(s) /\ (\E k \in 1 .. n : s[k] = Banner) => t = <<>>
  BY ONLY <1>3, <1>4, n \in 1 .. Len(s), RestOfStream
<1>6. alive => Coming
  BY <1>1 DEF WireInv, AtWire, Bound
<1>7. ~Leaving
  <2> SUFFICES ASSUME Leaving PROVE FALSE
    OBVIOUS
  <2>1. s = <<>>
    BY <1>2 DEF Leaving
  <2>2. Len(s) = 0
    BY <2>1
  <2> QED
    BY <1>3, <2>2
<1>8. CASE \E k \in 1 .. n : s[k] = Banner
  <2>1. connected' = TRUE /\ (GoesTo("send") \/ Leaves)
    <3>1. Connected
      BY <1>3, <1>8
    <3>2. At("connect")
      BY DEF ReadBanner
    <3> QED
      BY <1>1, <3>1, <3>2, ConnectedIs
  <2>2. alive => Quiet'
    <3> SUFFICES ASSUME alive PROVE Quiet'
      OBVIOUS
    <3>1. ~NoBanner(s)
      BY <1>5, <1>8
    <3>2. Here /\ Heralded(s)
      BY <1>2, <1>6, <1>7, <3>1 DEF Coming, GoneBy
    <3>3. t = <<>>
      BY <1>5, <1>8, <3>2
    <3> QED
      BY <1>1, <1>2, <3>2, <3>3 DEF Quiet, Here
  <2> QED
    BY <1>1, <2>1, <2>2, ConnectedKeepsWire
<1>9. CASE ~ \E k \in 1 .. n : s[k] = Banner
  <2>1. connected' = FALSE /\ Stays /\ raised' = raised
    BY <1>1, <1>3, <1>9 DEF Stays
  <2>2. Place' = "connect" /\ Moves
    BY <1>1, <2>1, PlaceAfter DEF Moves
  <2>3. Attached'
    BY <1>1, <2>1, <2>2, AttachedKept DEF WireInv
  <2>4. alive => Coming'
    <3> SUFFICES ASSUME alive PROVE Coming'
      OBVIOUS
    <3>1. CASE GoneBy
      BY <1>1, <1>2, <1>5, <3>1 DEF Coming, GoneBy
    <3>2. CASE Here /\ Heralded(toDriver)
      BY <1>1, <1>2, <1>5, <1>9, <3>2 DEF Coming, Here
    <3> QED
      BY <1>6, <1>7, <3>1, <3>2 DEF Coming
  <2>5. AtWire'
    BY <1>1, <2>1, <2>2, <2>4, AtOpen DEF Bound
  <2> QED
    BY <1>1, <2>3, <2>5, PairsKept DEF WireInv
<1> QED
  BY <1>8, <1>9

Careful == ~(Hasty /\ "reboot" \in Operations)

LEMMA ScriptKeepsWire ==
    ASSUME StackInv, TypesInv, WireInv, Careful, NEW op \in Op, Script(op)
    PROVE  WireInv'
<1>1. /\ stack = <<>> /\ Rests /\ op \in Operations
      /\ op \in Starts => ~booted
      /\ op = "reboot" => connected
      /\ answer' = Nothing
  BY DEF Script, machine, Rests, Starts, Careful
<1>2. PICK f \in Frames : Opens(f) /\ f.op = op /\ f.at = Start(op)
  BY ScriptIs
<1>3. Place' = f.at /\ stack' = <<f>>
  BY <1>2, OpensKeepsStack DEF Opens
<1>4. f.at \in {"callbacks", "poweroff", "initrd", "try"}
  BY <1>2 DEF Start
<1>5. RootOp' = op
  <2>1. PICK t : t = stack'
    OBVIOUS
  <2>2. t = <<f>>
    BY <1>3, <2>1
  <2>3. t # <<>> /\ t[Len(t)] = f
    BY <2>2
  <2> QED
    BY <1>2, <2>1, <2>3 DEF RootOp
<1>6. Attached'
  BY <1>1, <1>5 DEF WireInv, Attached, Rests
<1>7. Place = "free"
  BY <1>1 DEF Place
<1>8. alive' => IF connected' THEN Quiet' ELSE Coming'
  BY <1>1, <1>7, WireRests DEF WireInv, AtWire, Bound, Rests
<1>9. AtWire'
  BY <1>3, <1>4, <1>8, AtOpen DEF Bound
<1>10. OutputsArePaired'
  BY <1>1, NoPair DEF Nothing
<1> QED
  BY <1>6, <1>9, <1>10 DEF WireInv

LEMMA KeyKeepsWire ==
    ASSUME StackInv, TypesInv, WireInv, Key
    PROVE  WireInv'
<1>1. Place = "key" /\ answer' = answer /\ booted' = booted /\ connected' = connected
      /\ alive' = alive /\ toGuest' = toGuest /\ toDriver' = toDriver
  BY KeyIs DEF Key
<1>2. CASE alive
  <2>1. GoesTo("reset")
    BY <1>2, KeyIs
  <2>2. Moves /\ Place' = "reset"
    BY <2>1, GoesToIs
  <2>3. Attached'
    BY <1>1, <2>2, AttachedKept DEF WireInv
  <2>4. RootOp = "reboot"
    <3>1. stack # <<>> /\ Top.op = "reboot"
      BY AtIs, PlaceTells DEF Key, Places
    <3> QED
      BY <3>1, RootIsTop
  <2>5. Quiet
    BY <1>1, <1>2, <2>4 DEF WireInv, Attached, AtWire, Bound
  <2>6. guest' = "rebooting"
    BY <1>2, <2>5 DEF Key, Quiet, Here
  <2>7. Coming'
    <3>1. PICK s : s = toDriver'
      OBVIOUS
    <3>2. s = <<>>
      BY <1>1, <2>5, <3>1 DEF Quiet
    <3>3. NoBanner(s)
      BY <3>2 DEF NoBanner
    <3> QED
      BY <1>1, <2>5, <2>6, <3>1, <3>3 DEF Coming, GoneBy, Quiet, Here
  <2>8. AtWire'
    BY <2>2, <2>7 DEF AtWire, Bound
  <2> QED
    BY <1>1, <2>3, <2>8, PairsKept DEF WireInv
<1>3. CASE ~alive
  <2>1. Rests
    BY <1>1, <1>3 DEF Key, Rests
  <2>2. Stays /\ raised' = TRUE
    BY <1>3, KeyIs
  <2> QED
    BY <1>1, <1>3, <2>1, <2>2, FailureKeepsWire DEF WireInv
<1> QED
  BY <1>2, <1>3

LEMMA QuitKeepsWire ==
    ASSUME StackInv, TypesInv, WireInv, Quit
    PROVE  WireInv'
<1>1. Rests /\ answer' = answer /\ alive' = FALSE
  BY QuitIs DEF Quit, Rests
<1>2. CASE GoesTo("wait")
  <2>1. Moves /\ Place' = "wait"
    BY <1>2, GoesToIs
  <2>2. Attached'
    BY <1>1, <2>1, AttachedKept DEF WireInv, Rests
  <2>3. AtWire'
    BY <2>1 DEF AtWire, Bound
  <2> QED
    BY <1>1, <2>2, <2>3, PairsKept DEF WireInv
<1>3. CASE ~alive /\ Stays /\ raised' = TRUE
  BY <1>1, <1>3, FailureKeepsWire DEF WireInv
<1> QED
  BY <1>2, <1>3, QuitIs

LEMMA PoweroffKeepsWire ==
    ASSUME StackInv, TypesInv, WireInv, Poweroff
    PROVE  WireInv'
<1>1. answer' = answer /\ booted' = booted /\ connected' = connected /\ alive' = alive
      /\ guest' = guest /\ toDriver' = toDriver
  BY DEF Poweroff
<1>2. CASE alive /\ GoesTo("wait")
  <2>1. Moves /\ Place' = "wait"
    BY <1>2, GoesToIs
  <2>2. Attached'
    BY <1>1, <2>1, AttachedKept DEF WireInv
  <2>3. AtWire'
    BY <2>1 DEF AtWire, Bound
  <2> QED
    BY <1>1, <2>2, <2>3, PairsKept DEF WireInv
<1>3. CASE ~alive /\ Stays /\ raised' = TRUE /\ toGuest' = toGuest
  <2>1. Rests
    BY <1>1, <1>3 DEF Rests
  <2> QED
    BY <1>1, <1>3, <2>1, FailureKeepsWire DEF WireInv
<1> QED
  BY <1>2, <1>3, PoweroffIs

LEMMA ResetKeepsWire ==
    ASSUME StackInv, TypesInv, WireInv, Reset
    PROVE  WireInv'
<1>1. /\ Place = "reset" /\ Top.op = "reboot" /\ Leaves /\ stack # <<>>
      /\ connected' = FALSE /\ answer' = answer /\ booted' = booted /\ alive' = alive
      /\ Coming' <=> Coming
  BY ResetIs DEF Reset, Place, machine, Coming, Leaving, GoneBy, Here, Heralded, NoBanner
<1>2. RootOp' = "none" /\ Place' = "free"
  BY <1>1, RootIsTop
<1>3. Attached'
  BY <1>1, <1>2 DEF WireInv, Attached, Starts
<1>4. AtWire'
  BY <1>1, <1>2, AtOpen DEF WireInv, AtWire, Bound
<1> QED
  BY <1>1, <1>3, <1>4, PairsKept DEF WireInv

LEMMA WaitKeepsWire ==
    ASSUME StackInv, TypesInv, WireInv, WaitForShutdown
    PROVE  WireInv'
<1>1. /\ Top.op \in {"crash", "shutdown"} /\ Leaves /\ stack # <<>> /\ answer' = answer
      /\ connected' = FALSE /\ booted' = FALSE /\ alive' = alive /\ ~alive
  BY WaitForShutdownIs DEF WaitForShutdown, Leaves, machine
<1>2. RootOp' = "none" /\ Place' = "free"
  BY <1>1, RootIsTop
<1>3. Attached'
  BY <1>1, <1>2 DEF Attached, Starts
<1>4. AtWire'
  BY <1>1, <1>2, AtOpen DEF Bound
<1> QED
  BY <1>1, <1>3, <1>4, PairsKept DEF WireInv

LEMMA IsolatedKeepsWire ==
    ASSUME StackInv, TypesInv, WireInv, Isolated
    PROVE  WireInv'
<1>1. /\ Place = "isolated" /\ Top.op = "switch_root" /\ stack # <<>> /\ GoesTo("connect")
      /\ connected' = FALSE /\ answer' = answer /\ booted' = booted /\ alive' = alive
      /\ Coming' <=> Coming
  BY IsolatedIs DEF Isolated, Place, machine, Coming, Leaving, GoneBy, Here, Heralded, NoBanner
<1>2. Moves /\ Place' = "connect" /\ GoesOnAny
  BY <1>1, GoesToIs, Stacked
<1>3. RootOp' = "switch_root"
  BY <1>1, <1>2, RootIsTop, RootStays
<1>4. Attached'
  BY <1>1, <1>3 DEF WireInv, Attached, Starts
<1>5. AtWire'
  BY <1>1, <1>2, AtOpen DEF WireInv, AtWire, Bound
<1> QED
  BY <1>1, <1>4, <1>5, PairsKept DEF WireInv

LEMMA SendKeepsWire ==
    ASSUME StackInv, TypesInv, WireInv, SendCommand
    PROVE  WireInv'
<1>1. /\ answer' = answer /\ booted' = booted /\ connected' = connected /\ alive' = alive
      /\ guest' = guest /\ toDriver' = toDriver /\ ran' = ran
      /\ Place = "send" /\ Top.op = "execute"
  BY SendCommandIs DEF SendCommand
<1>2. connected /\ (alive => Quiet)
  BY <1>1 DEF WireInv, AtWire, Bound
<1>3. CASE alive /\ toGuest' = Append(toGuest, SentLine(Top.cmd))
  <2>1. PICK line : line = SentLine(Top.cmd)
    OBVIOUS
  <2>2. PICK q : q = toGuest'
    OBVIOUS
  <2>3. q = <<line>> /\ guest' = "shell" /\ toDriver' = <<>>
    BY <1>1, <1>2, <1>3, <2>1, <2>2 DEF Quiet, Here
  <2>4. CASE Top.cmd # "isolate" /\ GoesTo("output")
    <3>1. Moves /\ Place' = "output" /\ Alike(Top', Top)
      BY <2>4, GoesToIs
    <3>2. Attached'
      BY <1>1, <3>1, AttachedKept DEF WireInv
    <3>3. SentLine(Top.cmd)' = line
      BY <2>1, <3>1 DEF SentLine, Alike
    <3>4. Speaking'
      BY <2>2, <2>3, <3>3 DEF Speaking, Sent
    <3>5. Top'.cmd # "isolate"
      BY <2>4, <3>1 DEF Alike
    <3>6. AtWire'
      BY <1>1, <1>2, <3>1, <3>4, <3>5 DEF AtWire, Bound
    <3> QED
      BY <1>1, <3>2, <3>6, PairsKept DEF WireInv
  <2>5. CASE Top.cmd = "isolate" /\ Leaves /\ raised' = FALSE
    <3>1. Moves /\ Place' = "isolated"
      BY <1>1, <2>5, LeavesTo DEF Moves
    <3>2. Attached'
      BY <1>1, <3>1, AttachedKept DEF WireInv
    <3>3. q # <<>> /\ Tail(q) = <<>> /\ Head(q).cmd = "isolate"
      BY <2>1, <2>3, <2>5 DEF SentLine
    <3>4. Coming'
      BY <2>2, <2>3, <3>3 DEF Coming, Leaving
    <3>5. AtWire'
      BY <3>1, <3>4 DEF AtWire, Bound
    <3> QED
      BY <1>1, <3>2, <3>5, PairsKept DEF WireInv
  <2>6. (Top.cmd # "isolate" /\ GoesTo("output")) \/ (Top.cmd = "isolate" /\ Leaves /\ raised' = FALSE)
    BY <1>3, SendCommandIs
  <2> QED
    BY <2>4, <2>5, <2>6
<1>4. CASE ~alive /\ toGuest' = toGuest /\ Stays /\ raised' = TRUE
  <2>1. Rests
    BY <1>1, <1>4 DEF Rests
  <2> QED
    BY <1>1, <1>4, <2>1, FailureKeepsWire DEF WireInv
<1> QED
  BY <1>3, <1>4, SendCommandIs

LEMMA ReadOutputKeepsWire ==
    ASSUME StackInv, TypesInv, WireInv, ReadOutput
    PROVE  WireInv'
<1>1. /\ answer' = answer /\ booted' = booted /\ connected' = connected /\ alive' = alive
      /\ guest' = guest /\ toGuest' = toGuest /\ ran' = ran /\ Place = "output"
  BY ReadOutputIs DEF ReadOutput
<1>2. PICK block \in Blocks, f \in Frames : Take(block) /\ GoesOn(f) /\ f.at = "ask" /\ f.out = block
  BY ReadOutputIs
<1>3. Moves /\ Place' = "ask" /\ Top' = f /\ Alike(f, Top)
  BY <1>2, GoesOnKeepsStack DEF Moves, GoesOnAny, GoesOn, Keeps
<1>4. Attached'
  BY <1>1, <1>3, AttachedKept DEF WireInv
<1>5. connected' /\ Top'.cmd # "isolate" /\ Speaking
  BY <1>1, <1>3 DEF WireInv, AtWire, Alike
<1>6. alive => Quiet' /\ HasRead' /\ IsStatus(ran)'
  <2> SUFFICES ASSUME alive PROVE Quiet' /\ HasRead' /\ IsStatus(ran)'
    OBVIOUS
  <2>1. /\ Len(block) <= Len(toDriver) /\ Len(toDriver') = Len(toDriver) - Len(block)
        /\ \A k \in 1 .. Len(block) : block[k] = toDriver[k]
        /\ Len(block) >= 1
        /\ block \in Seq(Prints) /\ toDriver' \in Seq(Prints)
    BY <1>2, BlocksAre
  <2>2. PICK n \in Nat : n = Len(block)
    BY <2>1
  <2>3. ~Sent(Top.cmd)
    <3> SUFFICES ASSUME Sent(Top.cmd) PROVE FALSE
      OBVIOUS
    <3>1. Len(toDriver) = 0
      BY DEF Sent
    <3>2. n <= 0 /\ n >= 1
      BY ONLY <2>1, <2>2, <3>1
    <3> QED
      BY ONLY <3>2, n \in Nat
  <2>4. Printed
    BY <1>5, <2>3 DEF Speaking
  <2>5. n = 1 /\ Len(toDriver') = 0
    <3>1. Len(toDriver) = 1
      BY <2>4 DEF Printed
    <3>2. n <= 1 /\ n >= 1 /\ Len(toDriver') = 1 - n
      BY ONLY <2>1, <2>2, <3>1
    <3>3. n = 1
      BY ONLY <3>2, n \in Nat
    <3> QED
      BY ONLY <3>2, <3>3
  <2>6. PICK t : t = toDriver'
    OBVIOUS
  <2>7. t = <<>>
    BY <2>1, <2>5, <2>6
  <2>8. block[1] = toDriver[1]
    BY ONLY <2>1, <2>2, <2>5
  <2>9. Quiet'
    BY <1>1, <2>4, <2>6, <2>7 DEF Quiet, Here, Printed
  <2>10. HasRead'
    BY <1>2, <1>3, <2>2, <2>4, <2>5, <2>8 DEF HasRead, Printed, IsOutput, Alike
  <2>11. IsStatus(ran)'
    BY <1>1, <1>3, <2>4 DEF Printed, IsStatus, Alike
  <2> QED
    BY <2>9, <2>10, <2>11
<1>7. AtWire'
  BY <1>1, <1>3, <1>5, <1>6 DEF AtWire, Bound
<1> QED
  BY <1>1, <1>4, <1>7, PairsKept DEF WireInv

LEMMA AskKeepsWire ==
    ASSUME StackInv, TypesInv, WireInv, AskStatus
    PROVE  WireInv'
<1>1. /\ answer' = answer /\ booted' = booted /\ connected' = connected /\ alive' = alive
      /\ guest' = guest /\ toDriver' = toDriver /\ ran' = ran
      /\ Place = "ask"
  BY AskStatusIs DEF AskStatus
<1>2. connected /\ Top.cmd # "isolate" /\ (alive => Quiet /\ HasRead /\ IsStatus(ran))
  BY <1>1 DEF WireInv, AtWire
<1>3. CASE alive /\ toGuest' = Append(toGuest, SentLine("status")) /\ GoesTo("status")
  <2>1. PICK line : line = SentLine("status")
    OBVIOUS
  <2>2. PICK q : q = toGuest'
    OBVIOUS
  <2>3. q = <<line>> /\ guest' = "shell" /\ toDriver' = <<>>
    BY <1>1, <1>2, <1>3, <2>1, <2>2 DEF Quiet, Here
  <2>4. Moves /\ Place' = "status" /\ Alike(Top', Top) /\ Top'.out = Top.out
    BY <1>3, GoesToIs
  <2>5. Attached'
    BY <1>1, <2>4, AttachedKept DEF WireInv
  <2>6. SentLine("status")' = line
    BY <2>1, <2>4 DEF SentLine, Alike
  <2>7. Sent("status")'
    BY <2>2, <2>3, <2>6 DEF Sent
  <2>8. HasRead' /\ IsStatus(ran)'
    BY <1>1, <1>2, <1>3, <2>4 DEF HasRead, IsOutput, IsStatus, Alike
  <2>9. Top'.cmd # "isolate"
    BY <1>2, <2>4 DEF Alike
  <2>10. AtWire'
    BY <1>1, <1>2, <2>4, <2>7, <2>8, <2>9 DEF AtWire, Answering, Bound
  <2> QED
    BY <1>1, <2>5, <2>10, PairsKept DEF WireInv
<1>4. CASE ~alive /\ toGuest' = toGuest /\ Stays /\ raised' = TRUE
  <2>1. Rests
    BY <1>1, <1>4 DEF Rests
  <2> QED
    BY <1>1, <1>4, <2>1, FailureKeepsWire DEF WireInv
<1> QED
  BY <1>3, <1>4, AskStatusIs

LEMMA ReadStatusKeepsWire ==
    ASSUME StackInv, TypesInv, WireInv, ReadStatus
    PROVE  WireInv'
<1>1. /\ booted' = booted /\ connected' = connected /\ alive' = alive
      /\ guest' = guest /\ toGuest' = toGuest /\ ran' = ran /\ Place = "status"
      /\ Top.op = "execute"
  BY ReadStatusIs DEF ReadStatus
<1>2. connected /\ Top.cmd # "isolate" /\ Answering
  BY <1>1 DEF WireInv, AtWire
<1>3. PICK block \in Blocks :
          /\ Take(block)
          /\ \/ /\ Len(block) = 1 /\ block[1].kind = "status"
                /\ answer' = [call |-> Top.call, out |-> Top.out, rc |-> block[1]]
                /\ Leaves /\ raised' = FALSE
             \/ /\ ~(Len(block) = 1 /\ block[1].kind = "status")
                /\ answer' = answer /\ Stays /\ raised' = TRUE
  BY ReadStatusIs
<1>4. /\ Len(block) <= Len(toDriver) /\ Len(toDriver') = Len(toDriver) - Len(block)
      /\ \A k \in 1 .. Len(block) : block[k] = toDriver[k]
      /\ Len(block) >= 1 \/ (block = <<>> /\ toDriver = <<>> /\ ~alive)
      /\ block \in Seq(Prints) /\ toDriver' \in Seq(Prints)
  BY <1>3, BlocksAre
<1>5. PICK n \in Nat : n = Len(block)
  BY <1>4
<1>6. CASE n >= 1
  <2>1. Echoed
    <3> SUFFICES ASSUME ~Echoed PROVE FALSE
      OBVIOUS
    <3>1. Len(toDriver) = 0
      BY <1>2 DEF Answering, Sent
    <3>2. n <= 0
      BY ONLY <1>4, <1>5, <3>1
    <3> QED
      BY ONLY <3>2, <1>6, n \in Nat
  <2>2. n = 1 /\ Len(toDriver') = 0
    <3>1. Len(toDriver) = 1
      BY <2>1 DEF Echoed
    <3>2. n <= 1 /\ Len(toDriver') = 1 - n
      BY ONLY <1>4, <1>5, <3>1
    <3>3. n = 1
      BY ONLY <3>2, <1>6, n \in Nat
    <3> QED
      BY ONLY <3>2, <3>3
  <2>3. PICK t : t = toDriver'
    OBVIOUS
  <2>4. t = <<>>
    BY <1>4, <2>2, <2>3
  <2>5. block[1] = toDriver[1]
    BY ONLY <1>4, <1>5, <2>2
  <2>6. block[1].kind = "status" /\ block[1].call = Top.call
    BY <2>1, <2>5 DEF Echoed, IsStatus
  <2>7. /\ answer' = [call |-> Top.call, out |-> Top.out, rc |-> block[1]]
        /\ Leaves /\ raised' = FALSE
    BY <1>3, <1>5, <2>2, <2>6
  <2>8. Quiet'
    BY <1>1, <2>1, <2>3, <2>4 DEF Quiet, Here, Echoed
  <2>9. Moves /\ Place' \in {"free", "evaluated", "tried", "jobs", "again"}
    BY <1>1, <1>2, <2>7, LeavesTo DEF Moves
  <2>10. Attached'
    BY <1>1, <2>9, AttachedKept DEF WireInv
  <2>11. AtWire'
    BY <1>1, <1>2, <2>8, <2>9, AtOpen DEF Bound
  <2>12. OutputsArePaired'
    <3>1. HasRead
      BY <1>2 DEF Answering
    <3> QED
      BY <2>6, <2>7, <3>1 DEF OutputsArePaired, HasRead, IsOutput
  <2> QED
    BY <2>10, <2>11, <2>12 DEF WireInv
<1>7. CASE ~(n >= 1)
  <2>1. ~alive /\ ~(Len(block) = 1)
    BY ONLY <1>4, <1>5, <1>7
  <2>2. answer' = answer /\ Stays /\ raised' = TRUE
    BY <1>3, <2>1
  <2>3. Moves /\ Place' = "free"
    BY <2>2, RaisesIs
  <2>4. Attached'
    BY <1>1, <2>3, AttachedKept DEF WireInv
  <2>5. AtWire'
    BY <1>1, <2>1, <2>3, AtOpen DEF Bound
  <2> QED
    BY <2>2, <2>4, <2>5, PairsKept DEF WireInv
<1> QED
  BY <1>6, <1>7

(* The guest's steps. *)
LEMMA StillAttached ==
    ASSUME StackInv, Attached, Still, booted' = booted, connected' = connected, alive' => alive
    PROVE  Attached'
BY StillStays, AttachedKept DEF Moves

LEMMA SilentKeepsWire ==
    ASSUME StackInv, WireInv, Still, Rests, ran' = ran, answer' = answer
    PROVE  WireInv'
<1>1. Attached'
  BY StillAttached DEF WireInv, Rests
<1>2. Place' = Place /\ Top' = Top
  BY StillStays
<1>3. (Quiet' <=> Quiet) /\ (Coming' <=> Coming)
  BY WireRests
<1>4. (Speaking' <=> Speaking) /\ (Answering' <=> Answering) /\ (HasRead' <=> HasRead)
      /\ (IsStatus(ran)' <=> IsStatus(ran))
  BY <1>2 DEF Rests, Speaking, Answering, Printed, Echoed, Sent, SentLine, Here, HasRead,
              IsStatus, IsOutput
<1>5. AtWire'
  BY <1>2, <1>3, <1>4 DEF WireInv, AtWire, Rests
<1> QED
  BY <1>1, <1>5, PairsKept DEF WireInv

(* Whoever has a shell, or is going down, waits for a banner: nobody. *)
LEMMA ComingKeepsWire ==
    ASSUME StackInv, TypesInv, WireInv, Still, alive, guest \in {"booting", "rebooting"},
           booted' = booted, connected' = connected, answer' = answer, alive' = alive,
           Coming => Coming'
    PROVE  WireInv'
<1>1. Attached'
  BY StillAttached DEF WireInv
<1>2. Place' = Place /\ Top' = Top
  BY StillStays
<1>3. ~Quiet /\ ~Speaking /\ ~Answering
  BY DEF Quiet, Speaking, Answering, Printed, Echoed, Sent, Here
<1>4. Place \notin {"output", "ask", "status"}
  BY <1>3 DEF WireInv, AtWire
<1>5. Place \notin Bound => ~connected /\ Coming
  BY <1>3 DEF WireInv, AtWire, TypesInv
<1>6. Place \in {"reset", "isolated"} => Coming
  BY DEF WireInv, AtWire
<1>7. AtWire'
  BY <1>2, <1>4, <1>5, <1>6 DEF WireInv, AtWire, Bound
<1> QED
  BY <1>1, <1>7, PairsKept DEF WireInv

LEMMA ShellUpKeepsWire ==
    ASSUME StackInv, TypesInv, WireInv, ShellUp
    PROVE  WireInv'
<1>1. /\ Still /\ alive /\ guest = "booting" /\ guest' = "shell" /\ toGuest' = toGuest
      /\ toDriver' = Append(toDriver, Banner)
      /\ booted' = booted /\ connected' = connected /\ answer' = answer /\ alive' = alive
  BY ShellUpIs DEF ShellUp, driver
<1>2. ASSUME Coming PROVE Coming'
  <2>1. GoneBy
    BY <1>1, <1>2 DEF Coming, Leaving, Here
  <2>2. PICK s : s = toDriver
    OBVIOUS
  <2>3. PICK t : t = toDriver'
    OBVIOUS
  <2>4. s \in Seq(Prints) /\ Len(s) \in Nat
    BY <2>2 DEF TypesInv
  <2>5. Banner \in Prints
    BY Parameters DEF Banner, Prints, Calls
  <2>6. /\ Len(t) = Len(s) + 1 /\ t[Len(s) + 1] = Banner /\ t # <<>>
        /\ \A k \in 1 .. Len(s) : t[k] = s[k]
    BY <1>1, <2>2, <2>3, <2>5, AppendedPrint
  <2>7. \A k \in 1 .. Len(s) : s[k] # Banner
    BY <2>1, <2>2 DEF GoneBy, NoBanner
  <2>8. PICK n \in Nat : n = Len(s)
    BY <2>4
  <2>9. Len(t) = n + 1 /\ n + 1 - 1 = n
    BY ONLY <2>6, <2>8, n \in Nat
  <2>10. Heralded(t)
    <3>1. t[Len(t)] = Banner /\ t # <<>>
      BY ONLY <2>6, <2>8, <2>9
    <3>2. \A k \in 1 .. Len(t) - 1 : t[k] # Banner
      BY ONLY <2>6, <2>7, <2>8, <2>9
    <3> QED
      BY ONLY <3>1, <3>2 DEF Heralded
  <2> QED
    BY <1>1, <2>1, <2>3, <2>10 DEF Coming, GoneBy, Here
<1> QED
  BY <1>1, <1>2, ComingKeepsWire

LEMMA GuestDownKeepsWire ==
    ASSUME StackInv, TypesInv, WireInv, GuestDown
    PROVE  WireInv'
<1>1. /\ Still /\ alive /\ toDriver' = toDriver /\ ran' = ran
      /\ booted' = booted /\ connected' = connected /\ answer' = answer
  BY GuestDownIs DEF GuestDown, driver
<1>2. CASE guest = "rebooting" /\ rebootable
  <2>1. alive' = alive /\ guest' = "booting" /\ toGuest' \in {toGuest, <<>>}
    BY <1>2 DEF GuestDown
  <2>2. Coming => Coming'
    BY <1>1, <1>2, <2>1 DEF Coming, GoneBy, Leaving, Here, NoBanner
  <2> QED
    BY <1>1, <1>2, <2>1, <2>2, ComingKeepsWire
<1>3. CASE ~(guest = "rebooting" /\ rebootable)
  <2>1. Rests
    BY <1>1, <1>3 DEF GuestDown, Rests
  <2> QED
    BY <1>1, <2>1, SilentKeepsWire
<1> QED
  BY <1>2, <1>3

(* The shell runs the one line that there is: of the command whose output is *)
(* waited for, of the question for its status, or of the stage 1 that ends.  *)
LEMMA RunLineKeepsWire ==
    ASSUME StackInv, TypesInv, WireInv, RunLine
    PROVE  WireInv'
<1>1. /\ Still /\ alive /\ guest = "shell" /\ toGuest # <<>> /\ toGuest' = Tail(toGuest)
      /\ booted' = booted /\ connected' = connected /\ answer' = answer /\ alive' = alive
  BY RunLineIs DEF RunLine, driver
<1>2. Attached'
  BY <1>1, StillAttached DEF WireInv
<1>3. Place' = Place /\ Top' = Top
  BY <1>1, StillStays
<1>4. PICK line : line = Head(toGuest)
  OBVIOUS
<1>5. ~Quiet /\ ~Printed /\ ~Echoed /\ ~GoneBy /\ ~(Here /\ Heralded(toDriver))
  BY <1>1 DEF Quiet, Printed, Echoed, GoneBy, Here
<1>6. CASE Place = "wait"
  BY <1>1, <1>2, <1>3, <1>6, PairsKept DEF WireInv, AtWire, Bound
<1>7. CASE Place = "output"
  <2>1. Sent(Top.cmd) /\ connected /\ Top.cmd # "isolate"
    BY <1>5, <1>7 DEF WireInv, AtWire, Speaking
  <2>2. PICK q : q = toGuest
    OBVIOUS
  <2>3. q = <<SentLine(Top.cmd)>>
    BY <2>1, <2>2 DEF Sent
  <2>4. Head(q) = SentLine(Top.cmd) /\ Tail(q) = <<>>
    BY <2>3
  <2>5. line.cmd = Top.cmd /\ line.call = Top.call /\ toGuest' = <<>> /\ toDriver = <<>>
    BY <1>1, <1>4, <2>1, <2>2, <2>4 DEF SentLine, Sent
  <2>6. line.cmd \in {"test", "show", "list-jobs"}
    <3>1. Top \in Frames
      BY <1>7, TopIs DEF Place
    <3> QED
      BY <2>1, <2>5, <3>1 DEF Frames
  <2>7. guest' = guest /\ \E v, w : Says(Output(line.call, v)) /\ ran' = Status(line.call, w)
    BY <1>4, <2>6 DEF RunLine
  <2>8. PICK v, w : Says(Output(line.call, v)) /\ ran' = Status(line.call, w)
    BY <2>7
  <2>9. PICK t : t = toDriver'
    OBVIOUS
  <2>10. t = <<Output(line.call, v)>>
    BY <2>5, <2>8, <2>9 DEF Says
  <2>11. Len(t) = 1 /\ t[1].kind = "output" /\ t[1].call = line.call
    BY <2>10 DEF Output
  <2>12. ran'.kind = "status" /\ ran'.call = line.call
    BY <2>8 DEF Status
  <2>13. Printed'
    BY <1>1, <1>3, <2>5, <2>7, <2>9, <2>11, <2>12 DEF Printed, Here, IsOutput, IsStatus
  <2>14. AtWire'
    BY <1>1, <1>3, <1>7, <2>1, <2>13 DEF AtWire, Speaking, Bound
  <2> QED
    BY <1>1, <1>2, <2>14, PairsKept DEF WireInv
<1>8. CASE Place = "status"
  <2>1. HasRead /\ Sent("status") /\ IsStatus(ran) /\ connected /\ Top.cmd # "isolate"
    BY <1>5, <1>8 DEF WireInv, AtWire, Answering
  <2>2. PICK q : q = toGuest
    OBVIOUS
  <2>3. q = <<SentLine("status")>>
    BY <2>1, <2>2 DEF Sent
  <2>4. Head(q) = SentLine("status") /\ Tail(q) = <<>>
    BY <2>3
  <2>5. line.cmd = "status" /\ toGuest' = <<>> /\ toDriver = <<>>
    BY <1>1, <1>4, <2>1, <2>2, <2>4 DEF SentLine, Sent
  <2>6. guest' = guest /\ Says(ran)
    BY <1>4, <2>5 DEF RunLine
  <2>7. PICK t : t = toDriver'
    OBVIOUS
  <2>8. t = <<ran>>
    BY <2>5, <2>6, <2>7 DEF Says
  <2>9. Len(t) = 1 /\ t[1] = ran
    BY <2>8
  <2>10. Echoed'
    BY <1>1, <1>3, <2>1, <2>5, <2>6, <2>7, <2>9 DEF Echoed, Here, IsStatus
  <2>11. HasRead'
    BY <1>3, <2>1 DEF HasRead, IsOutput
  <2>12. AtWire'
    BY <1>1, <1>3, <1>8, <2>1, <2>10, <2>11 DEF AtWire, Answering, Bound
  <2> QED
    BY <1>1, <1>2, <2>12, PairsKept DEF WireInv
<1>9. CASE Place \notin {"wait", "output", "status"}
  <2>1. Leaving
    BY <1>1, <1>5, <1>9 DEF WireInv, AtWire, Bound, Coming
  <2>2. line.cmd = "isolate" /\ toGuest' = <<>> /\ toDriver = <<>>
    BY <1>1, <1>4, <2>1 DEF Leaving
  <2>3. guest' = "booting" /\ Says(Output(line.call, "none"))
    BY <1>4, <2>2 DEF RunLine
  <2>4. PICK t : t = toDriver'
    OBVIOUS
  <2>5. t = <<Output(line.call, "none")>>
    BY <2>2, <2>3, <2>4 DEF Says
  <2>6. NoBanner(t)
    BY <2>5 DEF NoBanner, Output, Banner
  <2>7. Coming'
    BY <2>2, <2>3, <2>4, <2>6 DEF Coming, GoneBy
  <2>8. Place # "ask" /\ (Place \notin Bound => ~connected) /\ Place # "send"
    BY <1>1, <1>5, <1>9 DEF WireInv, AtWire, Bound
  <2>9. AtWire'
    BY <1>1, <1>3, <1>9, <2>7, <2>8 DEF AtWire, Bound
  <2> QED
    BY <1>1, <1>2, <2>9, PairsKept DEF WireInv
<1> QED
  BY <1>6, <1>7, <1>8, <1>9

LEMMA StutterKeepsWire ==
    ASSUME StackInv, TypesInv, WireInv, UNCHANGED vars
    PROVE  WireInv'
<1>1. Still /\ Rests /\ ran' = ran /\ answer' = answer
  BY NothingIs DEF vars, driver, machine, Rests
<1> QED
  BY <1>1, SilentKeepsWire

LEMMA QuietlyKeepsWire ==
    ASSUME StackInv, TypesInv, WireInv, UnitStep \/ Die \/ \E i \in Polled : Tick(i)
    PROVE  WireInv'
<1>1. Still
  BY UnitStepIs, DieIs, TickIs
<1>2. Rests /\ ran' = ran /\ answer' = answer
  <2>1. CASE UnitStep
    BY <2>1 DEF UnitStep, driver, machine, Rests
  <2>2. CASE Die
    BY <2>2 DEF Die, driver, Rests
  <2>3. CASE \E i \in Polled : Tick(i)
    BY <2>3 DEF Tick, driver, machine, Rests
  <2> QED
    BY <2>1, <2>2, <2>3
<1> QED
  BY <1>1, <1>2, SilentKeepsWire

LEMMA WireStep ==
    ASSUME StackInv, TypesInv, WireInv, Careful, Next
    PROVE  WireInv'
<1>1. CASE \E op \in Op : Script(op)
  BY <1>1, ScriptKeepsWire
<1>2. CASE Pause
  BY <1>2, PausesKeepWire
<1>3. CASE StartCalled \/ StartFirst \/ ReadBanner \/ AlreadyConnected
  BY <1>3, StartCalledKeepsWire, StartFirstKeepsWire, ReadBannerKeepsWire,
     AlreadyConnectedKeepsWire
<1>4. CASE ReadNothing
  BY <1>4, StutterKeepsWire DEF ReadNothing
<1>5. CASE Key \/ Quit \/ Poweroff \/ Reset \/ WaitForShutdown \/ Isolated
  BY <1>5, KeyKeepsWire, QuitKeepsWire, PoweroffKeepsWire, ResetKeepsWire, WaitKeepsWire,
     IsolatedKeepsWire
<1>6. CASE SendCommand \/ ReadOutput \/ AskStatus \/ ReadStatus
  BY <1>6, SendKeepsWire, ReadOutputKeepsWire, AskKeepsWire, ReadStatusKeepsWire
<1>7. CASE Guest
  BY <1>7, ShellUpKeepsWire, RunLineKeepsWire, GuestDownKeepsWire DEF Guest
<1>8. CASE UnitStep \/ Die \/ \E i \in Polled : Tick(i)
  BY <1>8, QuietlyKeepsWire
<1> QED
  BY <1>1, <1>2, <1>3, <1>4, <1>5, <1>6, <1>7, <1>8 DEF Next, DriverStep, Pause

LEMMA WireAtFirst ==
    ASSUME Init
    PROVE  WireInv
<1>1. stack = <<>> /\ ~alive /\ ~connected /\ ~booted /\ answer = Nothing
  BY DEF Init
<1>2. RootOp = "none" /\ Place = "free"
  BY <1>1 DEF RootOp, Place
<1>3. Attached
  BY <1>1, <1>2 DEF Attached, Starts
<1>4. AtWire
  BY <1>1, <1>2 DEF AtWire, Bound
<1>5. OutputsArePaired
  BY <1>1 DEF OutputsArePaired, Nothing
<1> QED
  BY <1>3, <1>4, <1>5 DEF WireInv

LEMMA WireIsKept == Careful => (Spec => [](StackInv /\ TypesInv /\ WireInv))
<1> SUFFICES ASSUME Careful PROVE Spec => [](StackInv /\ TypesInv /\ WireInv)
  OBVIOUS
<1>1. Init => WireInv
  BY WireAtFirst
<1>2. (StackInv /\ TypesInv) /\ WireInv /\ [Next]_vars => WireInv'
  <2> SUFFICES ASSUME StackInv, TypesInv, WireInv, [Next]_vars PROVE WireInv'
    OBVIOUS
  <2>1. CASE Next
    BY <2>1, WireStep
  <2>2. CASE UNCHANGED vars
    BY <2>2, StutterKeepsWire
  <2> QED
    BY <2>1, <2>2
<1> QED
  BY <1>1, <1>2, TypesAreKept, PTL DEF Spec

(* What execute returns is the output and the exit status of its own       *)
(* command, whatever was polled, rebooted or killed before it or in        *)
(* between (execute, l.517-549), provided the script does not reboot a     *)
(* machine that it is not connected to.                                    *)
THEOREM OutputsBelongToTheirCommands == Careful => (Spec => []OutputsArePaired)
<1>1. WireInv => OutputsArePaired
  BY DEF WireInv
<1> QED
  BY <1>1, WireIsKept, PTL

(* A command is written to a shell that is there to read it and that has   *)
(* nothing left to say (l.674, 1150, 1253): connected is never left over   *)
(* from a shell that is gone.                                              *)
THEOREM CommandsMeetAShell == Careful => (Spec => []ShellIsThere)
<1>1. WireInv => ShellIsThere
  <2> SUFFICES ASSUME WireInv, At("send"), alive
               PROVE  guest = "shell" /\ toGuest = <<>> /\ toDriver = <<>>
    BY DEF ShellIsThere
  <2>1. Place = "send"
    BY DEF At, Place
  <2> QED
    BY <2>1 DEF WireInv, AtWire, Bound, Quiet, Here
<1> QED
  BY <1>1, WireIsKept, PTL

-----------------------------------------------------------------------------
(* Whoever is blamed.  An exit status that is not 0, and an exception in a *)
(* command or a check, is excused by a command that did fail or by QEMU's  *)
(* being gone.                                                             *)

Failing == failing \ {0} # {}
Excused == Failing \/ (booted /\ ~alive)

Owed ==
    /\ blamed # 0 /\ alive => Failing
    /\ stack # <<>> /\ blamed # 0 => Excused
    /\ Place = "evaluated" /\ answer.rc.val # "ok" => Excused
    /\ stack # <<>> /\ raised = TRUE /\ Top.op \in {"check", "execute"} => Excused

(* The exit status of a condition's command, on its way to the driver. *)
StatusKnown ==
    /\ Place = "output" /\ toDriver # <<>> /\ ran.val # "ok" => Failing
    /\ Place = "ask" /\ alive /\ ran.val # "ok" => Failing
    /\ Place = "status" /\ toDriver = <<>> /\ ran.val # "ok" => Failing
    /\ Place = "status" /\ toDriver # <<>> /\ toDriver[1].val # "ok" => Failing

StatusInv == Place \in {"output", "ask", "status"} /\ Top.cond # 0 => StatusKnown

BlameInv == Owed /\ StatusInv

LEMMA OwedKept ==
    ASSUME Owed, stack' # <<>> => stack # <<>>, blamed' = blamed,
           Place' # "evaluated" \/ (Place' = Place /\ answer' = answer),
           failing' = failing, alive' => alive, Excused => Excused',
           stack' # <<>> /\ raised' = TRUE /\ Top'.op \in {"check", "execute"} => Excused'
    PROVE  Owed'
BY DEF Owed, Failing

LEMMA NoStatus ==
    ASSUME Place' \notin {"output", "ask", "status"}
    PROVE  StatusInv'
BY DEF StatusInv

LEMMA NotRaised ==
    ASSUME NEW at
    PROVE  /\ GoesTo(at) => raised' = FALSE
           /\ ChecksOne(at) => raised' = FALSE
           /\ \A cmd : Executes(at, cmd) => raised' = FALSE
           /\ \A g \in Frames : Makes(at, g) => raised' = FALSE
BY DEF GoesTo, GoesOn, ChecksOne, Executes, Makes, Enters

LEMMA PauseRaises ==
    ASSUME StackInv, TypesInv, Pause, ~Evaluated, stack' # <<>>, raised' = TRUE,
           Top'.op \in {"check", "execute"}
    PROVE  stack # <<>> /\ raised = TRUE /\ Top.op = "execute"
<1>1. CASE RunCallbacks \/ Evaluate \/ Try \/ TryCondition \/ WaitForInitrd \/ Isolate
  <2>1. raised' = FALSE
    BY <1>1, RunCallbacksIs, EvaluateIs, TryIs, TryConditionIs, WaitForInitrdIs, IsolateIs,
       NotRaised
  <2> QED
    BY <2>1
<1>2. CASE Tried \/ UnitSeen \/ JobsSeen \/ UnitSeenAgain
  <2>1. /\ Top.op \in Trying \cup {"poll_wait", "wait_for_unit"}
        /\ (Stays /\ raised' = TRUE) \/ raised' = FALSE
    <3>1. CASE Tried
      BY <3>1, TriedIs, NotRaised
    <3>2. CASE UnitSeen
      BY <3>2, UnitSeenIs, NotRaised
    <3>3. CASE JobsSeen
      BY <3>3, JobsSeenIs, NotRaised
    <3>4. CASE UnitSeenAgain
      <4>1. Top.op = "wait_for_unit"
        BY <3>4, AtIs, PlaceTells DEF UnitSeenAgain, Places
      <4> QED
        BY <3>4, <4>1, UnitSeenAgainIs, NotRaised
    <3> QED
      BY <1>2, <3>1, <3>2, <3>3, <3>4
  <2>2. Stays
    BY <2>1
  <2>3. Top' = Top
    BY <2>2 DEF Stays, Top
  <2> QED
    BY <2>1, <2>3 DEF Trying
<1>3. CASE Unwind
  <2>1. raised = TRUE /\ Leaves /\ stack # <<>> /\ Top.op # "check"
    BY <1>3, UnwindIs
  <2>2. Top' = stack[2] /\ Link(Top, stack[2]) /\ stack[2] \in Frames /\ Placed(stack[2])
    BY <2>1, LeavesKeepsStack
  <2>3. Top.op = "execute" \/ (Top.op = "wait_for_unit" /\ stack[2].at = "isolate")
    BY <2>1, <2>2 DEF Link
  <2>4. stack[2].at = "isolate" => stack[2].op = "switch_root"
    BY <2>2, PlaceTells
  <2> QED
    BY <2>1, <2>2, <2>3, <2>4
<1> QED
  BY <1>1, <1>2, <1>3 DEF Pause

LEMMA PauseBlames ==
    ASSUME Pause, ~Evaluated
    PROVE  /\ blamed' = blamed /\ answer' = answer /\ failing' = failing
           /\ booted' = booted /\ alive' = alive
BY DEF Pause, RunCallbacks, Evaluate, Unwind, Try, TryCondition, Tried, UnitSeen,
       JobsSeen, UnitSeenAgain, WaitForInitrd, Isolate, Unchanging, machine, polling

LEMMA PauseKeepsBlame ==
    ASSUME StackInv, TypesInv, BlameInv, Pause, ~Evaluated
    PROVE  BlameInv'
<1>1. /\ blamed' = blamed /\ answer' = answer /\ failing' = failing
      /\ booted' = booted /\ alive' = alive
  BY PauseBlames
<1>2. stack # <<>> \/ stack' = <<>>
  BY DEF Pause, RunCallbacks, Evaluate, Unwind, Try, TryCondition, Tried, UnitSeen,
         JobsSeen, UnitSeenAgain, WaitForInitrd, Isolate, At
<1>3. stack' # <<>> /\ raised' = TRUE /\ Top'.op \in {"check", "execute"} => Excused
  BY PauseRaises DEF BlameInv, Owed
<1>4. Excused' <=> Excused
  BY <1>1 DEF Excused, Failing
<1>5. Owed'
  BY <1>1, <1>2, <1>3, <1>4, PauseMoves, OwedKept DEF BlameInv
<1>6. StatusInv'
  BY PauseMoves, NoStatus DEF Bound
<1> QED
  BY <1>5, <1>6 DEF BlameInv

(* A check that fails blames its condition, and is excused. *)
LEMMA EvaluatedKeepsBlame ==
    ASSUME StackInv, TypesInv, BlameInv, Evaluated
    PROVE  BlameInv'
<1>1. /\ stack # <<>> /\ Top.op = "check"
      /\ failing' = failing /\ booted' = booted /\ alive' = alive
  BY DEF Evaluated, machine
<1>2. Excused' <=> Excused
  BY <1>1 DEF Excused, Failing
<1>3. raised \in BOOLEAN
  BY DEF StackInv
<1>4. \/ answer'.rc.val = "ok" /\ raised' = FALSE /\ blamed' = blamed
      \/ (raised = TRUE \/ answer.rc.val # "ok")
  BY <1>3 DEF Evaluated, Nothing, Status
<1>5. raised = TRUE \/ answer.rc.val # "ok" => Excused
  <2>1. raised = FALSE => Place = "evaluated"
    BY <1>1 DEF Evaluated, Place
  <2> QED
    BY <1>1, <1>3, <2>1 DEF BlameInv, Owed
<1>0. Place' # "evaluated"
  BY PauseMoves DEF Pause
<1>6. Owed'
  <2>1. CASE answer'.rc.val = "ok" /\ raised' = FALSE /\ blamed' = blamed
    BY <1>1, <1>2, <2>1, <1>0 DEF BlameInv, Owed, Failing
  <2>2. CASE raised = TRUE \/ answer.rc.val # "ok"
    <3>1. Excused' /\ (alive' => Failing')
      BY <1>1, <1>2, <1>5, <2>2 DEF Excused, Failing
    <3> QED
      BY <3>1 DEF Owed
  <2> QED
    BY <1>4, <2>1, <2>2
<1>7. StatusInv'
  BY PauseMoves, NoStatus DEF Pause, Bound
<1> QED
  BY <1>6, <1>7 DEF BlameInv

LEMMA ScriptKeepsBlame ==
    ASSUME StackInv, TypesInv, BlameInv, NEW op \in Op, Script(op)
    PROVE  BlameInv'
<1>1. blamed' = 0 /\ answer' = Nothing
  BY DEF Script
<1>2. PICK f \in Frames : Opens(f) /\ f.op = op /\ f.at = Start(op)
  BY ScriptIs
<1>3. Place' = f.at /\ raised' = FALSE
  BY <1>2, OpensKeepsStack DEF Opens
<1>4. f.at \in {"callbacks", "poweroff", "initrd", "try"}
  BY <1>2 DEF Start
<1>5. Owed'
  BY <1>1, <1>3, <1>4 DEF Owed
<1> QED
  BY <1>3, <1>4, <1>5, NoStatus DEF BlameInv

LEMMA StartsKeepBlame ==
    ASSUME StackInv, TypesInv, WireInv, BlameInv, StartCalled \/ StartFirst
    PROVE  BlameInv'
<1>1. /\ stack # <<>> /\ ~booted /\ raised' = FALSE
      /\ blamed' = blamed /\ answer' = answer /\ failing' = failing
      /\ stack' = <<>> \/ Place' = "connect"
  <2>1. CASE StartCalled
    <3>1. stack # <<>> /\ raised' = FALSE /\ Top.op \in Starts /\ Leaves
      BY <2>1, StartCalledIs
    <3>2. RootOp = Top.op /\ stack' = <<>>
      BY <3>1, RootIsTop DEF Starts
    <3> QED
      BY <2>1, <3>1, <3>2 DEF StartCalled, WireInv, Attached, polling
  <2>2. CASE StartFirst
    <3>1. Place = "connect" /\ Stays /\ raised' = raised /\ raised' = FALSE /\ stack # <<>>
      BY <2>2, StartFirstIs DEF Place
    <3>2. Place' = "connect"
      BY <3>1, PlaceAfter
    <3> QED
      BY <2>2, <3>1, <3>2 DEF StartFirst, polling
  <2> QED
    BY <2>1, <2>2
<1>2. blamed # 0 => Failing
  BY <1>1 DEF BlameInv, Owed, Excused
<1>3. Place' \in {"free", "connect"}
  BY <1>1 DEF Place
<1>4. Owed'
  BY <1>1, <1>2, <1>3 DEF Owed, Excused, Failing
<1> QED
  BY <1>3, <1>4, NoStatus DEF BlameInv

(* The other steps of the driver that leave the shell alone. *)
Other == \/ ReadBanner \/ AlreadyConnected \/ Key \/ Quit \/ Poweroff \/ Reset \/ Isolated
         \/ SendCommand

LEMMA OtherBlames ==
    ASSUME Other
    PROVE  /\ blamed' = blamed /\ answer' = answer /\ failing' = failing
           /\ booted' = booted /\ (alive' => alive) /\ stack # <<>> /\ ran' = ran
BY DEF Other, ReadBanner, AlreadyConnected, Key, Quit, Poweroff, Reset, Isolated, SendCommand,
       At, machine, polling

LEMMA OtherMoves ==
    ASSUME StackInv, TypesInv, WireInv, Other
    PROVE  /\ Place' \notin {"ask", "status", "evaluated", "jobs", "again"}
           /\ Place' = "output" => toDriver' = <<>>
           /\ raised' = TRUE => Top' = Top /\ (Top.op \in {"reboot", "crash", "shutdown"}
                                                \/ (booted /\ ~alive))
<1>1. CASE ReadBanner \/ AlreadyConnected
  <2>1. /\ raised' = FALSE /\ stack # <<>> /\ Place = "connect"
        /\ GoesTo("send") \/ Leaves \/ (Stays /\ raised' = raised)
        /\ Leaves => Top.op = "switch_root"
    BY <1>1, ReadBannerIs, AlreadyConnectedIs DEF ReadBanner, AlreadyConnected, At
  <2>2. Place' \in {"send", "free", "connect"}
    BY <2>1, GoesToIs, RootIsTop, PlaceAfter
  <2> QED
    BY <2>1, <2>2
<1>2. CASE Key
  <2>1. GoesTo("reset") \/ (Stays /\ raised' = TRUE)
    BY <1>2, KeyIs
  <2>2. Place' \in {"reset", "free"} /\ (raised' = TRUE => Top' = Top)
    BY <2>1, GoesToIs, RaisesIs, NotRaised DEF Stays, Top
  <2>3. Top.op = "reboot"
    BY <1>2, AtIs, PlaceTells DEF Key, Places
  <2> QED
    BY <2>2, <2>3
<1>3. CASE Quit
  <2>1. GoesTo("wait") \/ (Stays /\ raised' = TRUE)
    BY <1>3, QuitIs
  <2>2. Place' \in {"wait", "free"} /\ (raised' = TRUE => Top' = Top)
    BY <2>1, GoesToIs, RaisesIs, NotRaised DEF Stays, Top
  <2>3. Top.op = "crash"
    BY <1>3, AtIs, PlaceTells DEF Quit, Places
  <2> QED
    BY <2>2, <2>3
<1>4. CASE Poweroff
  <2>1. GoesTo("wait") \/ (Stays /\ raised' = TRUE)
    BY <1>4, PoweroffIs
  <2>2. Place' \in {"wait", "free"} /\ (raised' = TRUE => Top' = Top)
    BY <2>1, GoesToIs, RaisesIs, NotRaised DEF Stays, Top
  <2>3. Top.op = "shutdown"
    BY <1>4, AtIs, PlaceTells DEF Poweroff, Places
  <2> QED
    BY <2>2, <2>3
<1>5. CASE Reset
  <2>1. Top.op = "reboot" /\ Leaves /\ raised' = FALSE /\ stack # <<>>
    BY <1>5, ResetIs DEF Leaves
  <2>2. Place' = "free"
    BY <2>1, RootIsTop
  <2> QED
    BY <2>1, <2>2
<1>6. CASE Isolated
  <2>1. GoesTo("connect")
    BY <1>6, IsolatedIs
  <2>2. Place' = "connect" /\ raised' = FALSE
    BY <2>1, GoesToIs, NotRaised
  <2> QED
    BY <2>2
<1>7. CASE SendCommand
  <2>1. /\ Place = "send" /\ Top.op = "execute" /\ toDriver' = toDriver
        /\ \/ alive /\ GoesTo("output")
           \/ Top.cmd = "isolate" /\ Leaves /\ raised' = FALSE
           \/ ~alive /\ Stays /\ raised' = TRUE
    BY <1>7, SendCommandIs DEF SendCommand
  <2>2. connected /\ booted /\ (alive => Quiet)
    BY <2>1 DEF WireInv, AtWire, Attached, Bound
  <2>3. CASE alive /\ GoesTo("output")
    <3>1. Place' = "output" /\ raised' = FALSE
      BY <2>3, GoesToIs, NotRaised
    <3> QED
      BY <2>1, <2>2, <2>3, <3>1 DEF Quiet
  <2>4. CASE Top.cmd = "isolate" /\ Leaves /\ raised' = FALSE
    BY <2>1, <2>4, LeavesTo
  <2>5. CASE ~alive /\ Stays /\ raised' = TRUE
    BY <2>2, <2>5, RaisesIs DEF Stays, Top
  <2> QED
    BY <2>1, <2>3, <2>4, <2>5
<1> QED
  BY <1>1, <1>2, <1>3, <1>4, <1>5, <1>6, <1>7 DEF Other

LEMMA OtherKeepsBlame ==
    ASSUME StackInv, TypesInv, WireInv, BlameInv, Other
    PROVE  BlameInv'
<1>1. /\ blamed' = blamed /\ answer' = answer /\ failing' = failing
      /\ booted' = booted /\ (alive' => alive) /\ stack # <<>>
  BY OtherBlames
<1>2. Excused => Excused'
  BY <1>1 DEF Excused, Failing
<1>3. raised' = TRUE => Top' = Top /\ (Top.op \in {"reboot", "crash", "shutdown"}
                                        \/ (booted /\ ~alive))
  BY OtherMoves
<1>4. raised' = TRUE /\ Top'.op \in {"check", "execute"} => Excused'
  BY <1>1, <1>3 DEF Excused
<1>5. Owed'
  BY <1>1, <1>2, <1>4, OtherMoves, OwedKept DEF BlameInv
<1>6. StatusInv'
  BY OtherMoves DEF StatusInv, StatusKnown
<1> QED
  BY <1>5, <1>6 DEF BlameInv

LEMMA WaitKeepsBlame ==
    ASSUME StackInv, TypesInv, BlameInv, WaitForShutdown
    PROVE  BlameInv'
<1>1. /\ Top.op \in {"crash", "shutdown"} /\ Leaves /\ stack # <<>> /\ ~alive' /\ raised' = FALSE
  BY WaitForShutdownIs DEF WaitForShutdown, Leaves, machine
<1>2. stack' = <<>> /\ Place' = "free"
  BY <1>1, RootIsTop
<1>3. Owed'
  BY <1>1, <1>2 DEF Owed
<1> QED
  BY <1>2, <1>3, NoStatus DEF BlameInv

LEMMA ReadOutputKeepsBlame ==
    ASSUME StackInv, TypesInv, WireInv, BlameInv, ReadOutput
    PROVE  BlameInv'
<1>1. /\ blamed' = blamed /\ answer' = answer /\ failing' = failing /\ ran' = ran
      /\ booted' = booted /\ alive' = alive /\ stack # <<>>
      /\ Place = "output" /\ raised = FALSE
  BY ReadOutputIs DEF ReadOutput, At, polling
<1>2. Excused' <=> Excused
  BY <1>1 DEF Excused, Failing
<1>3. PICK block \in Blocks, f \in Frames : Take(block) /\ GoesOn(f) /\ f.at = "ask"
  BY ReadOutputIs
<1>4. Place' = "ask" /\ raised' = FALSE /\ Top'.cond = Top.cond
  BY <1>3, GoesOnKeepsStack DEF GoesOn, Keeps, Alike
<1>5. Owed'
  BY <1>1, <1>2, <1>4, OwedKept DEF BlameInv
<1>6. alive => toDriver # <<>>
  <2> SUFFICES ASSUME alive, toDriver = <<>> PROVE FALSE
    OBVIOUS
  <2>1. Len(block) <= Len(toDriver) /\ Len(block) >= 1
    BY <1>3, BlocksAre
  <2>2. Len(toDriver) = 0
    OBVIOUS
  <2>3. Len(block) \in Nat
    BY <1>3, BlocksAre
  <2> QED
    BY ONLY <2>1, <2>2, <2>3
<1>7. StatusInv'
  BY <1>1, <1>4, <1>6 DEF BlameInv, StatusInv, StatusKnown, Failing
<1> QED
  BY <1>5, <1>7 DEF BlameInv

LEMMA AskKeepsBlame ==
    ASSUME StackInv, TypesInv, WireInv, BlameInv, AskStatus
    PROVE  BlameInv'
<1>1. /\ blamed' = blamed /\ answer' = answer /\ failing' = failing /\ ran' = ran
      /\ booted' = booted /\ alive' = alive /\ stack # <<>> /\ toDriver' = toDriver
      /\ Place = "ask" /\ raised = FALSE
  BY AskStatusIs DEF AskStatus, At, polling
<1>2. Excused' <=> Excused
  BY <1>1 DEF Excused, Failing
<1>3. booted /\ (alive => Quiet)
  BY <1>1 DEF WireInv, AtWire, Attached
<1>4. (alive /\ GoesTo("status")) \/ (~alive /\ Stays /\ raised' = TRUE)
  BY AskStatusIs
<1>5. CASE alive /\ GoesTo("status")
  <2>1. Place' = "status" /\ raised' = FALSE /\ Top'.cond = Top.cond
    BY <1>5, GoesToIs, NotRaised DEF Alike
  <2>2. Owed'
    BY <1>1, <1>2, <2>1, OwedKept DEF BlameInv
  <2>3. StatusInv'
    BY <1>1, <1>3, <1>5, <2>1 DEF BlameInv, StatusInv, StatusKnown, Failing, Quiet
  <2> QED
    BY <2>2, <2>3 DEF BlameInv
<1>6. CASE ~alive /\ Stays /\ raised' = TRUE
  <2>1. Place' = "free"
    BY <1>6, RaisesIs
  <2>2. Excused'
    BY <1>1, <1>3, <1>6 DEF Excused, Failing
  <2>3. Owed'
    BY <1>1, <1>2, <2>1, <2>2, OwedKept DEF BlameInv
  <2> QED
    BY <2>1, <2>3, NoStatus DEF BlameInv
<1> QED
  BY <1>4, <1>5, <1>6

LEMMA ReadStatusKeepsBlame ==
    ASSUME StackInv, TypesInv, WireInv, BlameInv, ReadStatus
    PROVE  BlameInv'
<1>1. /\ blamed' = blamed /\ failing' = failing
      /\ booted' = booted /\ alive' = alive /\ stack # <<>>
      /\ Place = "status" /\ raised = FALSE /\ Top.op = "execute"
  BY ReadStatusIs DEF ReadStatus, At, polling
<1>2. Excused' <=> Excused
  BY <1>1 DEF Excused, Failing
<1>3. booted /\ Answering /\ Top.cmd # "isolate"
  BY <1>1 DEF WireInv, AtWire, Attached
<1>4. PICK block \in Blocks :
          /\ Take(block)
          /\ \/ /\ Len(block) = 1 /\ block[1].kind = "status"
                /\ answer' = [call |-> Top.call, out |-> Top.out, rc |-> block[1]]
                /\ Leaves /\ raised' = FALSE
             \/ /\ ~(Len(block) = 1 /\ block[1].kind = "status")
                /\ answer' = answer /\ Stays /\ raised' = TRUE
  BY ReadStatusIs
<1>5. /\ Len(block) <= Len(toDriver)
      /\ \A k \in 1 .. Len(block) : block[k] = toDriver[k]
      /\ Len(block) >= 1 \/ (block = <<>> /\ toDriver = <<>> /\ ~alive)
      /\ block \in Seq(Prints)
  BY <1>4, BlocksAre
<1>6. PICK n \in Nat : n = Len(block)
  BY <1>5
<1>7. CASE n >= 1
  <2>1. toDriver # <<>>
    <3> SUFFICES ASSUME toDriver = <<>> PROVE FALSE
      OBVIOUS
    <3>1. Len(toDriver) = 0
      OBVIOUS
    <3> QED
      BY ONLY <1>5, <1>6, <1>7, <3>1, n \in Nat
  <2>2. Echoed
    BY <1>3, <2>1 DEF Answering, Sent
  <2>3. n = 1
    <3>1. Len(toDriver) = 1
      BY <2>2 DEF Echoed
    <3> QED
      BY ONLY <1>5, <1>6, <1>7, <3>1, n \in Nat
  <2>4. block[1] = toDriver[1]
    BY ONLY <1>5, <1>6, <2>3
  <2>5. /\ answer' = [call |-> Top.call, out |-> Top.out, rc |-> block[1]]
        /\ Leaves /\ raised' = FALSE
    BY <1>4, <1>6, <2>2, <2>3, <2>4 DEF Echoed, IsStatus
  <2>6. answer'.rc = toDriver[1]
    BY <2>4, <2>5
  <2>7. Place' = "evaluated" /\ answer'.rc.val # "ok" => Excused'
    <3> SUFFICES ASSUME Place' = "evaluated", answer'.rc.val # "ok" PROVE Excused'
      OBVIOUS
    <3>1. stack' # <<>> /\ stack[2].at = "evaluated"
      BY <2>5, LeavesTo
    <3>2. Link(Top, stack[2])
      BY <2>5, <3>1, LeavesKeepsStack
    <3>3. Top.cond # 0
      BY <1>1, <3>1, <3>2 DEF Link
    <3>4. StatusKnown
      BY <1>1, <3>3 DEF BlameInv, StatusInv
    <3>5. Failing
      BY <1>1, <2>1, <2>6, <3>4 DEF StatusKnown
    <3> QED
      BY <1>1, <3>5 DEF Excused, Failing
  <2>8. Owed'
    BY <1>1, <1>2, <2>5, <2>7 DEF BlameInv, Owed, Failing
  <2>9. Place' \notin {"output", "ask", "status"}
    BY <1>1, <1>3, <2>5, LeavesTo
  <2> QED
    BY <2>8, <2>9, NoStatus DEF BlameInv
<1>8. CASE ~(n >= 1)
  <2>1. ~alive /\ ~(Len(block) = 1)
    BY ONLY <1>5, <1>6, <1>8
  <2>2. answer' = answer /\ Stays /\ raised' = TRUE
    BY <1>4, <2>1
  <2>3. Place' = "free"
    BY <2>2, RaisesIs
  <2>4. Excused'
    BY <1>1, <1>3, <2>1 DEF Excused, Failing
  <2>5. Owed'
    BY <1>1, <1>2, <2>2, <2>3, <2>4, OwedKept DEF BlameInv
  <2> QED
    BY <2>3, <2>5, NoStatus DEF BlameInv
<1> QED
  BY <1>7, <1>8

(* The guest's steps: a command that fails is remembered in failing. *)
LEMMA StillOwed ==
    ASSUME StackInv, Owed, Still, blamed' = blamed, answer' = answer, booted' = booted,
           failing \subseteq failing', alive' => alive
    PROVE  Owed'
<1>1. stack' = stack /\ raised' = raised /\ Top' = Top /\ Place' = Place
  BY StillStays DEF Still
<1>2. (Excused => Excused') /\ (Failing => Failing')
  BY DEF Excused, Failing
<1> QED
  BY <1>1, <1>2 DEF Owed

LEMMA SilentKeepsBlame ==
    ASSUME StackInv, BlameInv, Still, blamed' = blamed, answer' = answer, booted' = booted,
           failing' = failing, alive' => alive, toDriver' = toDriver, ran' = ran
    PROVE  BlameInv'
<1>1. Owed'
  BY StillOwed DEF BlameInv
<1>2. Place' = Place /\ Top' = Top
  BY StillStays
<1> QED
  BY <1>1, <1>2 DEF BlameInv, StatusInv, StatusKnown, Failing

LEMMA ShellUpKeepsBlame ==
    ASSUME StackInv, TypesInv, WireInv, BlameInv, ShellUp
    PROVE  BlameInv'
<1>1. /\ Still /\ alive /\ guest = "booting" /\ blamed' = blamed /\ answer' = answer
      /\ booted' = booted /\ failing' = failing /\ alive' = alive
  BY ShellUpIs DEF ShellUp, driver, polling
<1>2. Owed'
  BY <1>1, StillOwed DEF BlameInv
<1>3. Place' = Place
  BY <1>1, StillStays
<1>4. Place \notin {"output", "ask", "status"}
  BY <1>1 DEF WireInv, AtWire, Speaking, Answering, Printed, Echoed, Sent, Quiet, Here
<1> QED
  BY <1>2, <1>3, <1>4, NoStatus DEF BlameInv

LEMMA RunLineKeepsBlame ==
    ASSUME StackInv, TypesInv, WireInv, BlameInv, RunLine
    PROVE  BlameInv'
<1>1. /\ Still /\ alive /\ blamed' = blamed /\ answer' = answer /\ toGuest # <<>>
      /\ booted' = booted /\ alive' = alive
  BY RunLineIs DEF RunLine, driver, polling
<1>2. failing \subseteq failing'
  BY DEF RunLine
<1>3. Owed'
  BY <1>1, <1>2, StillOwed DEF BlameInv
<1>4. Place' = Place /\ Top' = Top
  BY <1>1, StillStays
<1>5. PICK line : line = Head(toGuest)
  OBVIOUS
<1>6. ~Quiet /\ ~Printed /\ ~Echoed
  BY <1>1 DEF Quiet, Printed, Echoed, Here
<1>7. CASE Place = "output"
  <2>1. Sent(Top.cmd)
    BY <1>6, <1>7 DEF WireInv, AtWire, Speaking
  <2>2. PICK q : q = toGuest
    OBVIOUS
  <2>3. q = <<SentLine(Top.cmd)>>
    BY <2>1, <2>2 DEF Sent
  <2>4. Head(q) = SentLine(Top.cmd)
    BY <2>3
  <2>5. line.cmd = Top.cmd /\ line.by = Top.cond
    BY <1>5, <2>2, <2>4 DEF SentLine
  <2>6. line.cmd \in {"test", "show", "list-jobs", "isolate"}
    <3>1. Top \in Frames
      BY <1>7, TopIs DEF Place
    <3> QED
      BY <2>5, <3>1 DEF Frames
  <2>7. ran'.val # "ok" /\ Top.cond # 0 => Failing'
    <3>1. CASE line.cmd = "test"
      <4>1. PICK rc \in Codes :
                /\ ran' = Status(line.call, rc)
                /\ failing' = failing \cup (IF rc = "bad" THEN {line.by} ELSE {})
        BY <1>5, <3>1 DEF RunLine
      <4>2. ran'.val = rc /\ (rc # "ok" => rc = "bad")
        BY <4>1 DEF Status, Codes
      <4> QED
        BY <2>5, <4>1, <4>2 DEF Failing
    <3>2. CASE line.cmd # "test"
      <4>1. ran' = Status(line.call, "ok")
        BY <1>5, <2>6, <3>2 DEF RunLine
      <4> QED
        BY <4>1 DEF Status
    <3> QED
      BY <3>1, <3>2
  <2>8. StatusInv'
    BY <1>4, <1>7, <2>7 DEF StatusInv, StatusKnown
  <2> QED
    BY <1>3, <2>8 DEF BlameInv
<1>8. CASE Place = "status"
  <2>1. Sent("status")
    BY <1>6, <1>8 DEF WireInv, AtWire, Answering
  <2>2. PICK q : q = toGuest
    OBVIOUS
  <2>3. q = <<SentLine("status")>>
    BY <2>1, <2>2 DEF Sent
  <2>4. Head(q) = SentLine("status")
    BY <2>3
  <2>5. line.cmd = "status" /\ toDriver = <<>>
    BY <1>5, <2>1, <2>2, <2>4 DEF SentLine, Sent
  <2>6. Says(ran) /\ failing' = failing
    BY <1>5, <2>5 DEF RunLine
  <2>7. PICK t : t = toDriver'
    OBVIOUS
  <2>8. t = <<ran>>
    BY <2>5, <2>6, <2>7 DEF Says
  <2>9. t # <<>> /\ t[1] = ran
    BY <2>8
  <2>10. ran.val # "ok" /\ Top.cond # 0 => Failing
    BY <1>8, <2>5 DEF BlameInv, StatusInv, StatusKnown
  <2>11. StatusInv'
    BY <1>4, <1>8, <2>6, <2>7, <2>9, <2>10 DEF StatusInv, StatusKnown, Failing
  <2> QED
    BY <1>3, <2>11 DEF BlameInv
<1>9. CASE Place \notin {"output", "status"}
  <2>1. Place # "ask"
    BY <1>1, <1>6 DEF WireInv, AtWire
  <2> QED
    BY <1>3, <1>4, <1>9, <2>1, NoStatus DEF BlameInv
<1> QED
  BY <1>7, <1>8, <1>9

LEMMA GuestDownKeepsBlame ==
    ASSUME StackInv, TypesInv, BlameInv, GuestDown
    PROVE  BlameInv'
<1>1. /\ Still /\ blamed' = blamed /\ answer' = answer /\ booted' = booted
      /\ failing' = failing /\ (alive' => alive) /\ toDriver' = toDriver /\ ran' = ran
  BY GuestDownIs DEF GuestDown, driver, polling
<1> QED
  BY <1>1, SilentKeepsBlame

LEMMA QuietlyKeepsBlame ==
    ASSUME StackInv, TypesInv, BlameInv,
           UnitStep \/ Die \/ (\E i \in Polled : Tick(i)) \/ UNCHANGED vars
    PROVE  BlameInv'
<1>1. Still
  BY UnitStepIs, DieIs, TickIs, NothingIs
<1>2. /\ blamed' = blamed /\ answer' = answer /\ booted' = booted
      /\ failing' = failing /\ (alive' => alive) /\ toDriver' = toDriver /\ ran' = ran
  <2>1. CASE UnitStep
    BY <2>1 DEF UnitStep, driver, polling, machine
  <2>2. CASE Die
    BY <2>2 DEF Die, driver, polling
  <2>3. CASE \E i \in Polled : Tick(i)
    BY <2>3 DEF Tick, driver, machine
  <2>4. CASE UNCHANGED vars
    BY <2>4 DEF vars, driver, polling, machine
  <2> QED
    BY <2>1, <2>2, <2>3, <2>4
<1> QED
  BY <1>1, <1>2, SilentKeepsBlame

LEMMA BlameStep ==
    ASSUME StackInv, TypesInv, WireInv, BlameInv, [Next]_vars
    PROVE  BlameInv'
<1>1. CASE \E op \in Op : Script(op)
  BY <1>1, ScriptKeepsBlame
<1>2. CASE Pause
  BY <1>2, PauseKeepsBlame, EvaluatedKeepsBlame
<1>3. CASE StartCalled \/ StartFirst
  BY <1>3, StartsKeepBlame
<1>4. CASE ReadNothing
  BY <1>4, QuietlyKeepsBlame DEF ReadNothing
<1>5. CASE Other \/ WaitForShutdown
  BY <1>5, OtherKeepsBlame, WaitKeepsBlame
<1>6. CASE ReadOutput \/ AskStatus \/ ReadStatus
  BY <1>6, ReadOutputKeepsBlame, AskKeepsBlame, ReadStatusKeepsBlame
<1>7. CASE Guest
  BY <1>7, ShellUpKeepsBlame, RunLineKeepsBlame, GuestDownKeepsBlame DEF Guest
<1>8. CASE UnitStep \/ Die \/ (\E i \in Polled : Tick(i)) \/ UNCHANGED vars
  BY <1>8, QuietlyKeepsBlame
<1> QED
  BY <1>1, <1>2, <1>3, <1>4, <1>5, <1>6, <1>7, <1>8 DEF Next, DriverStep, Pause, Other

(* When the script is told that a polling condition failed while QEMU      *)
(* runs, some condition's command did fail (polling_condition.py,          *)
(* maybe_raise; Machine.execute): a condition is never judged by the       *)
(* answer to another command, be it the script's own.                      *)
THEOREM AlarmsAreTrue == Careful => (Spec => []NoFalseAlarm)
<1> SUFFICES ASSUME Careful PROVE Spec => []NoFalseAlarm
  OBVIOUS
<1>1. Init => BlameInv
  <2> SUFFICES ASSUME Init PROVE BlameInv
    OBVIOUS
  <2>1. stack = <<>> /\ blamed = 0
    BY DEF Init
  <2>2. Place = "free"
    BY <2>1 DEF Place
  <2> QED
    BY <2>1, <2>2 DEF BlameInv, Owed, StatusInv
<1>2. (StackInv /\ TypesInv /\ WireInv) /\ BlameInv /\ [Next]_vars => BlameInv'
  BY BlameStep
<1>3. BlameInv => NoFalseAlarm
  BY DEF BlameInv, Owed, Failing, NoFalseAlarm
<1> QED
  BY <1>1, <1>2, <1>3, WireIsKept, PTL DEF Spec

-----------------------------------------------------------------------------
(* What wait_for_unit is told.  When it has seen an empty queue of jobs,   *)
(* the unit was inactive without a job, or it has come up; when it then    *)
(* sees the unit inactive, it was the former, or the unit went down.       *)

Settled == idle \/ (unit # "inactive" /\ connected)

Told(place, v) == /\ place = "jobs" /\ v = "no_jobs" => Settled
                  /\ place = "again" /\ v = "inactive" => idle

HasAgain == \E k \in 1 .. Len(stack) : stack[k].at = "again"

(* Where the call is that called the one at the top. *)
Asker == IF Len(stack) > 1 THEN stack[2].at ELSE "none"

Reported ==
    /\ Place \in {"jobs", "again"} => Told(Place, Said)
    /\ Place = "output" /\ toDriver # <<>> => Told(Asker, toDriver[1].val)
    /\ Place = "ask" /\ alive => Told(Asker, Top.out[1].val)
    /\ Place = "status" => Told(Asker, Top.out[1].val)

UnitInv ==
    /\ gone => idle
    /\ unit = "inactive" /\ ~job => idle
    /\ HasAgain => Settled
    /\ Reported

LEMMA AgainGoes ==
    ASSUME StackInv, NEW f \in Frames, GoesOn(f), f.at # "again", HasAgain'
    PROVE  HasAgain
<1>1. PICK t : t = stack'
  OBVIOUS
<1>2. PICK n : n = Len(stack) /\ n \in Nat /\ n >= 1 /\ stack # <<>>
  BY TopIs DEF GoesOn
<1>3. Len(t) = n /\ \A k \in 2 .. n : t[k] = stack[k]
  BY <1>1, <1>2, GoesOnKeepsStack
<1>4. t[1] = f
  BY <1>1, MovedIs DEF StackInv, GoesOn, Keeps
<1>5. PICK k \in 1 .. n : t[k].at = "again"
  BY <1>1, <1>2, <1>3 DEF HasAgain
<1>6. k \in 2 .. n
  <2>1. k # 1
    BY <1>4, <1>5
  <2>2. n \in Nat
    BY ONLY <1>2
  <2> QED
    BY ONLY <2>1, <2>2, k \in 1 .. n
<1>7. stack[k].at = "again"
  BY <1>3, <1>5, <1>6
<1> QED
  BY <1>2, <1>7 DEF HasAgain

LEMMA AgainEnters ==
    ASSUME StackInv, NEW f \in Frames, NEW g \in Frames, Enters(g, f), f.at # "again",
           g.at # "again", HasAgain'
    PROVE  HasAgain
<1>1. PICK t : t = stack'
  OBVIOUS
<1>2. PICK n : n = Len(stack) /\ n \in Nat /\ n >= 1 /\ stack # <<>>
  BY TopIs DEF Enters
<1>3. /\ Len(t) = n + 1 /\ t[1] = g /\ t[2] = f
      /\ \A k \in 3 .. n + 1 : t[k] = stack[k - 1]
  BY <1>1, <1>2, PushedIs DEF StackInv, Enters, Keeps
<1>4. PICK k \in 1 .. n + 1 : t[k].at = "again"
  BY <1>1, <1>2, <1>3 DEF HasAgain
<1>5. k # 1 /\ k # 2
  BY <1>3, <1>4
<1>6. n \in Nat
  BY ONLY <1>2
<1>7. k \in 3 .. n + 1 /\ k - 1 \in 1 .. n
  BY ONLY <1>5, <1>6, k \in 1 .. n + 1
<1>8. stack[k - 1].at = "again"
  BY ONLY <1>3, <1>4, <1>7
<1> QED
  BY <1>2, <1>7, <1>8 DEF HasAgain

LEMMA AgainLeaves ==
    ASSUME StackInv, Leaves, HasAgain'
    PROVE  HasAgain
<1>1. PICK t : t = stack'
  OBVIOUS
<1>2. PICK n : n = Len(stack) /\ n \in Nat /\ n >= 1 /\ stack # <<>>
  BY TopIs DEF Leaves
<1>3. Len(t) = n - 1 /\ \A k \in 1 .. n - 1 : t[k] = stack[k + 1]
  BY <1>1, <1>2, LeavesKeepsStack
<1>4. PICK k \in 1 .. n - 1 : t[k].at = "again"
  BY <1>1, <1>3 DEF HasAgain
<1>5. n \in Nat
  BY ONLY <1>2
<1>6. k + 1 \in 1 .. n
  BY ONLY <1>5, k \in 1 .. n - 1
<1>7. stack[k + 1].at = "again"
  BY ONLY <1>3, <1>4, k \in 1 .. n - 1
<1> QED
  BY <1>2, <1>6, <1>7 DEF HasAgain

LEMMA AgainStays ==
    ASSUME Stays
    PROVE  HasAgain' <=> HasAgain
BY DEF Stays, HasAgain

LEMMA AgainSteps ==
    ASSUME StackInv, NEW at, at # "again",
           \/ GoesTo(at) \/ ChecksOne(at) \/ (\E cmd : Executes(at, cmd))
           \/ \E g \in Frames : Makes(at, g) /\ g.at = "try"
    PROVE  HasAgain' => HasAgain
<1>1. CASE GoesTo(at)
  BY <1>1, AgainGoes DEF GoesTo
<1>2. CASE \E f \in Frames, g \in Frames : Enters(g, f) /\ f.at = at /\ g.at # "again"
  BY <1>2, AgainEnters
<1>3. ChecksOne(at) => \E f \in Frames, g \in Frames : Enters(g, f) /\ f.at = at /\ g.at # "again"
  BY DEF ChecksOne, Makes
<1>4. (\E cmd : Executes(at, cmd))
        => \E f \in Frames, g \in Frames : Enters(g, f) /\ f.at = at /\ g.at # "again"
  BY DEF Executes, Makes
<1>5. (\E g \in Frames : Makes(at, g) /\ g.at = "try")
        => \E f \in Frames, g \in Frames : Enters(g, f) /\ f.at = at /\ g.at # "again"
  BY DEF Makes
<1> QED
  BY <1>1, <1>2, <1>3, <1>4, <1>5

LEMMA PauseAgain ==
    ASSUME StackInv, TypesInv, Pause, HasAgain', ~HasAgain
    PROVE  JobsSeen /\ Said = "no_jobs" /\ Place = "jobs"
<1>1. CASE RunCallbacks
  <2>1. ChecksOne("callbacks") \/ GoesTo("connect") \/ GoesTo("key") \/ GoesTo("quit")
    BY <1>1, RunCallbacksIs
  <2> QED
    BY <2>1, AgainSteps
<1>2. CASE Evaluate
  <2>1. Executes("evaluated", "test")
    BY <1>2, EvaluateIs
  <2> QED
    BY <2>1, AgainSteps
<1>3. CASE Evaluated \/ Unwind
  <2>1. Leaves
    BY <1>3, EvaluatedIs, UnwindIs
  <2> QED
    BY <2>1, AgainLeaves
<1>4. CASE Try
  <2>1. Executes("tried", "test") \/ Executes("tried", "show")
    BY <1>4, TryIs
  <2> QED
    BY <2>1, AgainSteps
<1>5. CASE TryCondition
  <2>1. ChecksOne("tried")
    BY <1>5, TryConditionIs
  <2> QED
    BY <2>1, AgainSteps
<1>6. CASE Tried
  <2>1. Leaves \/ Stays \/ GoesTo("try")
    BY <1>6, TriedIs
  <2> QED
    BY <2>1, AgainSteps, AgainLeaves, AgainStays
<1>7. CASE UnitSeen
  <2>1. Leaves \/ Stays \/ GoesTo("try") \/ Executes("jobs", "list-jobs")
    BY <1>7, UnitSeenIs
  <2> QED
    BY <2>1, AgainSteps, AgainLeaves, AgainStays
<1>8. CASE JobsSeen
  <2>1. /\ Place = "jobs"
        /\ Said = "no_jobs" \/ Stays \/ GoesTo("try")
    BY <1>8, JobsSeenIs
  <2> QED
    BY <1>8, <2>1, AgainSteps, AgainStays
<1>9. CASE UnitSeenAgain
  <2>1. Stays \/ GoesTo("try")
    BY <1>9, UnitSeenAgainIs
  <2> QED
    BY <2>1, AgainSteps, AgainStays
<1>10. CASE WaitForInitrd
  <2>1. \E g \in Frames : Makes("isolate", g) /\ g.at = "try"
    BY <1>10, WaitForInitrdIs
  <2> QED
    BY <2>1, AgainSteps
<1>11. CASE Isolate
  <2>1. Executes("isolated", "isolate")
    BY <1>11, IsolateIs
  <2> QED
    BY <2>1, AgainSteps
<1> QED
  BY <1>1, <1>2, <1>3, <1>4, <1>5, <1>6, <1>7, <1>8, <1>9, <1>10, <1>11 DEF Pause

(* The calls that end the connection are the script's own: wait_for_unit is *)
(* not among the callers.                                                   *)
LEMMA AloneNotAgain ==
    ASSUME StackInv, stack # <<>>, Top.op \notin {"check", "execute", "wait_for_unit"}
    PROVE  ~HasAgain
<1>1. Len(stack) = 1 /\ Top = stack[1] /\ Top \in Frames /\ Placed(Top)
  BY BottomOps, TopIs
<1>2. Top.at # "again"
  BY <1>1, PlaceTells
<1> QED
  BY <1>1, <1>2 DEF HasAgain

LEMMA AskerStays ==
    ASSUME StackInv, Stays \/ GoesOnAny
    PROVE  Asker' = Asker
<1>1. CASE Stays
  BY <1>1 DEF Stays, Asker
<1>2. CASE GoesOnAny
  <2>1. PICK f \in Frames : GoesOn(f)
    BY <1>2 DEF GoesOnAny
  <2>2. PICK t : t = stack'
    OBVIOUS
  <2>3. PICK n : n = Len(stack) /\ n \in Nat /\ n >= 1
    BY <2>1, TopIs DEF GoesOn
  <2>4. Len(t) = n /\ \A k \in 2 .. n : t[k] = stack[k]
    BY <2>1, <2>2, <2>3, GoesOnKeepsStack
  <2>5. n \in Nat
    BY ONLY <2>3
  <2>6. n > 1 => t[2] = stack[2]
    <3>1. n > 1 => 2 \in 2 .. n
      BY ONLY <2>5
    <3> QED
      BY ONLY <2>4, <3>1
  <2> QED
    BY <2>2, <2>3, <2>4, <2>6 DEF Asker
<1> QED
  BY <1>1, <1>2

LEMMA AskerIs ==
    ASSUME StackInv, Leaves, Place' # "free"
    PROVE  Place' = Asker
<1>1. stack' # <<>> /\ Place' = stack[2].at /\ Len(stack) > 1
  BY LeavesTo, LeavesKeepsStack
<1> QED
  BY <1>1 DEF Asker

LEMMA ToldStill ==
    ASSUME NEW p, NEW v, Told(p, v), Settled => Settled', idle => idle'
    PROVE  Told(p, v)'
BY DEF Told

LEMMA NothingReported ==
    ASSUME Place' \notin {"jobs", "again", "ask", "status"},
           Place' = "output" => toDriver' = <<>>
    PROVE  Reported'
BY DEF Reported

(* The driver does nothing to the unit. *)
Untouched == unit' = unit /\ job' = job /\ idle' = idle

LEMMA UntouchedSettles ==
    ASSUME Untouched, connected' = connected
    PROVE  (Settled' <=> Settled) /\ (idle' <=> idle)
BY DEF Untouched, Settled

LEMMA DriverKeepsUnits ==
    ASSUME TypesInv, UnitInv, Untouched, Reported', gone' => gone \/ idle,
           connected /\ HasAgain' => connected', HasAgain' => HasAgain \/ Settled
    PROVE  UnitInv'
<1>1. HasAgain' => Settled'
  BY DEF UnitInv, Untouched, Settled
<1> QED
  BY <1>1 DEF UnitInv, Untouched

LEMMA PauseUnits ==
    ASSUME Pause
    PROVE  Untouched /\ connected' = connected /\ (gone' = gone \/ UnitSeenAgain)
BY DEF Pause, RunCallbacks, Evaluate, Evaluated, Unwind, Try, TryCondition, Tried, UnitSeen,
       JobsSeen, NoJobs, WaitForInitrd, Isolate, UnitSeenAgain, Unchanging, units, Untouched

LEMMA PauseKeepsUnits ==
    ASSUME StackInv, TypesInv, UnitInv, Pause
    PROVE  UnitInv'
<1>1. Untouched /\ connected' = connected /\ (gone' = gone \/ UnitSeenAgain)
  BY PauseUnits
<1>2. gone' => gone \/ idle
  <2> SUFFICES ASSUME UnitSeenAgain, gone' # gone PROVE idle
    BY <1>1
  <2>1. Place = "again" /\ Said = "inactive"
    BY UnitSeenAgainIs
  <2> QED
    BY <2>1 DEF UnitInv, Reported, Told
<1>3. HasAgain' => HasAgain \/ Settled
  <2> SUFFICES ASSUME HasAgain', ~HasAgain PROVE Settled
    OBVIOUS
  <2>1. Place = "jobs" /\ Said = "no_jobs"
    BY PauseAgain
  <2> QED
    BY <2>1 DEF UnitInv, Reported, Told
<1>4. Reported'
  BY PauseMoves, NothingReported DEF Bound
<1> QED
  BY <1>1, <1>2, <1>3, <1>4, DriverKeepsUnits

LEMMA ScriptKeepsUnits ==
    ASSUME StackInv, TypesInv, UnitInv, NEW op \in Op, Script(op)
    PROVE  UnitInv'
<1>1. PICK f \in Frames : Opens(f) /\ f.op = op /\ f.at = Start(op)
  BY ScriptIs
<1>2. f.at \in {"callbacks", "poweroff", "initrd", "try"}
  BY <1>1 DEF Start
<1>3. Place' = f.at
  BY <1>1, OpensKeepsStack
<1>4. ~HasAgain'
  <2>1. PICK t : t = stack'
    OBVIOUS
  <2>2. t = <<f>>
    BY <1>1, <2>1 DEF Opens
  <2>3. Len(t) = 1 /\ t[1] = f
    BY <2>2
  <2> QED
    BY <1>2, <2>1, <2>3 DEF HasAgain
<1>5. Reported'
  BY <1>2, <1>3, NothingReported
<1>6. /\ gone' = FALSE /\ unit' = unit /\ job' = job
      /\ idle' = (op \in {"wait_for_unit", "switch_root"} => unit = "inactive" /\ ~job)
  BY DEF Script
<1> QED
  BY <1>4, <1>5, <1>6 DEF UnitInv

LEMMA StartsKeepUnits ==
    ASSUME StackInv, TypesInv, WireInv, UnitInv, StartCalled \/ StartFirst
    PROVE  UnitInv'
<1>1. /\ unit' = "inactive" /\ idle' = (idle \/ ~job') /\ gone' = gone
      /\ connected' = connected
  BY DEF StartCalled, StartFirst, StartVm
<1>2. /\ Place' \in {"free", "connect"} /\ ~connected
      /\ HasAgain' => HasAgain
  <2>1. CASE StartCalled
    <3>1. stack # <<>> /\ Top.op \in Starts /\ Leaves
      BY <2>1, StartCalledIs
    <3>2. RootOp = Top.op /\ Place' = "free"
      BY <3>1, RootIsTop DEF Starts
    <3>3. ~connected
      BY <3>1, <3>2 DEF WireInv, Attached, TypesInv
    <3> QED
      BY <3>1, <3>2, <3>3, AgainLeaves
  <2>2. CASE StartFirst
    <3>1. Place = "connect" /\ Stays /\ raised = FALSE /\ raised' = FALSE /\ ~connected
      BY <2>2, StartFirstIs DEF StartFirst
    <3>2. Place' = "connect"
      BY <3>1, PlaceAfter
    <3> QED
      BY <3>1, <3>2, AgainStays
  <2> QED
    BY <2>1, <2>2
<1>3. Reported'
  BY <1>2, NothingReported
<1>4. HasAgain' => idle'
  BY <1>1, <1>2 DEF UnitInv, Settled
<1> QED
  BY <1>1, <1>3, <1>4 DEF UnitInv, Settled

LEMMA OtherAgain ==
    ASSUME StackInv, TypesInv, Other \/ WaitForShutdown
    PROVE  /\ HasAgain' => HasAgain
           /\ Reset \/ Isolated \/ WaitForShutdown => ~HasAgain
<1>1. CASE ReadBanner \/ AlreadyConnected
  <2>1. GoesTo("send") \/ Leaves \/ Stays
    BY <1>1, ReadBannerIs, AlreadyConnectedIs
  <2>2. Place = "connect"
    BY <1>1, ReadBannerIs, AlreadyConnectedIs
  <2>3. ~(Reset \/ Isolated \/ WaitForShutdown)
    BY <2>2, ResetIs, IsolatedIs, WaitForShutdownIs
  <2> QED
    BY <2>1, <2>3, AgainSteps, AgainLeaves, AgainStays
<1>2. CASE Key \/ Quit \/ Poweroff \/ SendCommand
  <2>1. GoesTo("reset") \/ GoesTo("wait") \/ GoesTo("output") \/ Leaves \/ Stays
    BY <1>2, KeyIs, QuitIs, PoweroffIs, SendCommandIs
  <2>2. Place \in {"key", "quit", "poweroff", "send"}
    BY <1>2, KeyIs, QuitIs, PoweroffIs, SendCommandIs
  <2>3. ~(Reset \/ Isolated \/ WaitForShutdown)
    BY <2>2, ResetIs, IsolatedIs, WaitForShutdownIs
  <2> QED
    BY <2>1, <2>3, AgainSteps, AgainLeaves, AgainStays
<1>3. CASE Reset \/ Isolated \/ WaitForShutdown
  <2>1. /\ stack # <<>> /\ Top.op \in {"reboot", "switch_root", "crash", "shutdown"}
        /\ GoesTo("connect") \/ Leaves
    BY <1>3, ResetIs, IsolatedIs, WaitForShutdownIs DEF Reset, Isolated, WaitForShutdown, At
  <2>2. ~HasAgain
    BY <2>1, AloneNotAgain
  <2>3. HasAgain' => HasAgain
    BY <2>1, AgainSteps, AgainLeaves
  <2> QED
    BY <2>2, <2>3
<1> QED
  BY <1>1, <1>2, <1>3 DEF Other

LEMMA OtherUnits ==
    ASSUME Other \/ WaitForShutdown
    PROVE  /\ Untouched /\ gone' = gone
           /\ Reset \/ Isolated \/ WaitForShutdown \/ connected' = connected \/ connected' = TRUE
BY DEF Other, ReadBanner, Connected, AlreadyConnected, Key, Quit, Poweroff, Reset, Isolated,
       SendCommand, WaitForShutdown, units, Untouched

LEMMA OtherKeepsUnits ==
    ASSUME StackInv, TypesInv, WireInv, UnitInv, Other \/ WaitForShutdown
    PROVE  UnitInv'
<1>1. Reported'
  <2>1. CASE Other
    BY <2>1, OtherMoves, NothingReported
  <2>2. CASE WaitForShutdown
    <3>1. /\ Top.op \in {"crash", "shutdown"} /\ Leaves /\ stack # <<>>
      BY <2>2, WaitForShutdownIs DEF WaitForShutdown, At
    <3>2. Place' = "free"
      BY <3>1, RootIsTop
    <3> QED
      BY <3>2, NothingReported
  <2> QED
    BY <2>1, <2>2
<1>2. Untouched /\ gone' = gone
  BY OtherUnits
<1>3. connected /\ HasAgain' => connected'
  BY OtherUnits, OtherAgain
<1> QED
  BY <1>1, <1>2, <1>3, OtherAgain, DriverKeepsUnits

LEMMA ReadOutputKeepsUnits ==
    ASSUME StackInv, TypesInv, WireInv, UnitInv, ReadOutput
    PROVE  UnitInv'
<1>1. /\ Untouched /\ gone' = gone /\ connected' = connected /\ alive' = alive
      /\ Place = "output"
  BY ReadOutputIs DEF ReadOutput, units, Untouched
<1>2. PICK block \in Blocks, f \in Frames :
          Take(block) /\ GoesOn(f) /\ f.at = "ask" /\ f.out = block
  BY ReadOutputIs
<1>3. Place' = "ask" /\ Top' = f
  BY <1>2, GoesOnKeepsStack
<1>4. Asker' = Asker
  BY <1>2, AskerStays DEF GoesOnAny
<1>5. alive => toDriver # <<>> /\ block[1] = toDriver[1]
  <2> SUFFICES ASSUME alive PROVE toDriver # <<>> /\ block[1] = toDriver[1]
    OBVIOUS
  <2>1. /\ Len(block) <= Len(toDriver) /\ Len(block) >= 1
        /\ \A k \in 1 .. Len(block) : block[k] = toDriver[k]
        /\ block \in Seq(Prints)
    BY <1>2, BlocksAre
  <2>2. PICK n \in Nat : n = Len(block)
    BY <2>1
  <2>3. 1 \in 1 .. n
    BY ONLY <2>1, <2>2, n \in Nat
  <2>4. block[1] = toDriver[1]
    BY ONLY <2>1, <2>2, <2>3
  <2>5. toDriver # <<>>
    <3> SUFFICES ASSUME toDriver = <<>> PROVE FALSE
      OBVIOUS
    <3>1. Len(toDriver) = 0
      OBVIOUS
    <3> QED
      BY ONLY <2>1, <2>2, <3>1, n \in Nat
  <2> QED
    BY <2>4, <2>5
<1>6. PICK p : p = Asker
  OBVIOUS
<1>7. alive => Told(p, block[1].val) /\ Told(p, block[1].val)'
  <2>1. alive => Told(p, block[1].val)
    BY <1>1, <1>5, <1>6 DEF UnitInv, Reported
  <2> QED
    BY <1>1, <2>1, UntouchedSettles, ToldStill
<1>8. Reported'
  BY <1>1, <1>2, <1>3, <1>4, <1>6, <1>7 DEF Reported
<1>9. HasAgain' => HasAgain
  BY <1>2, AgainGoes
<1> QED
  BY <1>1, <1>8, <1>9, DriverKeepsUnits

LEMMA AskKeepsUnits ==
    ASSUME StackInv, TypesInv, WireInv, UnitInv, AskStatus
    PROVE  UnitInv'
<1>1. /\ Untouched /\ gone' = gone /\ connected' = connected /\ alive' = alive
      /\ Place = "ask"
      /\ (alive /\ GoesTo("status")) \/ (~alive /\ Stays /\ raised' = TRUE)
  BY AskStatusIs DEF AskStatus, units, Untouched
<1>2. CASE alive /\ GoesTo("status")
  <2>1. Place' = "status" /\ Top'.out = Top.out
    BY <1>2, GoesToIs
  <2>2. Asker' = Asker
    BY <1>2, AskerStays, Stacked
  <2>3. PICK p, v : p = Asker /\ v = Top.out[1].val
    OBVIOUS
  <2>4. Told(p, v) /\ Told(p, v)'
    <3>1. Told(p, v)
      BY <1>1, <1>2, <2>3 DEF UnitInv, Reported
    <3> QED
      BY <1>1, <3>1, UntouchedSettles, ToldStill
  <2>5. Reported'
    BY <2>1, <2>2, <2>3, <2>4 DEF Reported
  <2>6. HasAgain' => HasAgain
    BY <1>2, AgainSteps
  <2> QED
    BY <1>1, <2>5, <2>6, DriverKeepsUnits
<1>3. CASE ~alive /\ Stays /\ raised' = TRUE
  <2>1. Place' = "free"
    BY <1>3, RaisesIs
  <2>2. HasAgain' => HasAgain
    BY <1>3, AgainStays
  <2> QED
    BY <1>1, <2>1, <2>2, NothingReported, DriverKeepsUnits
<1> QED
  BY <1>1, <1>2, <1>3

LEMMA ReadStatusKeepsUnits ==
    ASSUME StackInv, TypesInv, WireInv, UnitInv, ReadStatus
    PROVE  UnitInv'
<1>1. /\ Untouched /\ gone' = gone /\ connected' = connected
      /\ Place = "status" /\ Top.op = "execute" /\ Top.cmd # "isolate"
  BY ReadStatusIs DEF ReadStatus, units, Untouched, WireInv, AtWire
<1>2. PICK block \in Blocks :
          \/ /\ answer' = [call |-> Top.call, out |-> Top.out, rc |-> block[1]]
             /\ Leaves
          \/ Stays /\ raised' = TRUE
  BY ReadStatusIs
<1>3. CASE Stays /\ raised' = TRUE
  <2>1. Place' = "free"
    BY <1>3, RaisesIs
  <2>2. HasAgain' => HasAgain
    BY <1>3, AgainStays
  <2> QED
    BY <1>1, <2>1, <2>2, NothingReported, DriverKeepsUnits
<1>4. CASE answer' = [call |-> Top.call, out |-> Top.out, rc |-> block[1]] /\ Leaves
  <2>1. Place' \in {"free", "evaluated", "tried", "jobs", "again"}
    BY <1>1, <1>4, LeavesTo
  <2>2. PICK p, v : p = Asker /\ v = Top.out[1].val
    OBVIOUS
  <2>3. Told(p, v)'
    <3>1. Told(p, v)
      BY <1>1, <2>2 DEF UnitInv, Reported
    <3> QED
      BY <1>1, <3>1, UntouchedSettles, ToldStill
  <2>4. Said' = "none" \/ Said' = v
    BY <1>4, <2>2 DEF Said
  <2>5. Place' \in {"jobs", "again"} => Place' = p
    BY <1>4, <2>2, AskerIs
  <2>6. Place' \in {"jobs", "again"} => Told(Place, Said)'
    BY <2>3, <2>4, <2>5 DEF Told
  <2>7. Reported'
    BY <2>1, <2>6 DEF Reported
  <2>8. HasAgain' => HasAgain
    BY <1>4, AgainLeaves
  <2> QED
    BY <1>1, <2>7, <2>8, DriverKeepsUnits
<1> QED
  BY <1>2, <1>3, <1>4

(* The guest's steps.  The unit comes up or down, and a manager that has gone is no*)
(* longer connected to, or is sent away by the script's own call.          *)
LEMMA StillReports ==
    ASSUME StackInv, TypesInv, UnitInv, Still, answer' = answer, alive' => alive,
           Settled => Settled', idle => idle', Place = "output" => toDriver' = toDriver
    PROVE  Reported'
<1>1. Place' = Place /\ Top' = Top /\ Said' = Said /\ Asker' = Asker
  BY StillStays, AskerStays DEF Said
<1>2. PICK p, v, a, w, u : /\ p = Place /\ v = Said /\ a = Asker /\ w = Top.out[1].val
                           /\ u = toDriver[1].val
  OBVIOUS
<1>3. /\ Told(p, v) => Told(p, v)'
      /\ Told(a, w) => Told(a, w)'
      /\ Told(a, u) => Told(a, u)'
  BY ToldStill
<1> QED
  BY <1>1, <1>2, <1>3 DEF UnitInv, Reported

LEMMA AgainStill ==
    ASSUME Still
    PROVE  HasAgain' <=> HasAgain
BY DEF Still, HasAgain

LEMMA QuietlyKeepsUnits ==
    ASSUME StackInv, TypesInv, UnitInv,
           Die \/ ReadNothing \/ (\E i \in Polled : Tick(i)) \/ UNCHANGED vars
    PROVE  UnitInv'
<1>1. Still
  BY DieIs, TickIs, NothingIs DEF ReadNothing
<1>2. /\ Untouched /\ gone' = gone /\ answer' = answer /\ connected' = connected
      /\ (alive' => alive) /\ toDriver' = toDriver
  <2>1. CASE Die
    BY <2>1 DEF Die, driver, units, Untouched
  <2>2. CASE \E i \in Polled : Tick(i)
    BY <2>2 DEF Tick, driver, machine, units, Untouched
  <2>3. CASE ReadNothing \/ UNCHANGED vars
    BY <2>3 DEF ReadNothing, vars, driver, machine, units, Untouched
  <2> QED
    BY <2>1, <2>2, <2>3
<1>3. Reported'
  BY <1>1, <1>2, UntouchedSettles, StillReports
<1> QED
  BY <1>1, <1>2, <1>3, AgainStill, DriverKeepsUnits

LEMMA UnitStepKeepsUnits ==
    ASSUME StackInv, TypesInv, UnitInv, UnitStep
    PROVE  UnitInv'
<1>1. /\ Still /\ gone' = gone /\ answer' = answer /\ connected' = connected
      /\ alive' = alive /\ toDriver' = toDriver
  BY UnitStepIs DEF UnitStep, driver, machine
<1>2. \/ unit' = "inactive" /\ idle' = (idle \/ ~job')
      \/ unit' # "inactive" /\ idle' = idle
      \/ idle' = TRUE
  BY DEF UnitStep, SetUnit, TypesInv, States
<1>3. (idle => idle') /\ (Settled => Settled')
  <2>1. idle => idle'
    BY <1>2
  <2>2. unit' # "inactive" \/ idle' \/ unit = "inactive"
    BY DEF UnitStep, SetUnit, TypesInv, States
  <2> QED
    BY <1>1, <2>1, <2>2 DEF Settled
<1>4. Reported'
  BY <1>1, <1>3, StillReports
<1>5. unit' = "inactive" /\ ~job' => idle'
  BY <1>2
<1> QED
  BY <1>1, <1>3, <1>4, <1>5, AgainStill DEF UnitInv

LEMMA GuestLeaves ==
    ASSUME StackInv, TypesInv, WireInv, alive, ~Quiet, Place \notin {"output", "ask", "status"}
    PROVE  ~connected \/ (Place \in {"reset", "isolated", "wait"} /\ ~HasAgain)
<1> SUFFICES ASSUME connected PROVE Place \in {"reset", "isolated", "wait"} /\ ~HasAgain
  OBVIOUS
<1>1. Place \in {"reset", "isolated", "wait"}
  BY DEF WireInv, AtWire, Bound
<1>2. stack # <<>> /\ Top.at = Place
  BY <1>1 DEF Place
<1>3. Top \in Frames /\ Placed(Top)
  BY <1>2, TopIs
<1>4. Top.op \in {"reboot", "crash", "shutdown", "switch_root"}
  BY <1>1, <1>2, <1>3, PlaceTells
<1> QED
  BY <1>1, <1>2, <1>4, AloneNotAgain

Restarted == unit' = "inactive" /\ idle' = (idle \/ ~job')

LEMMA GuestKeepsUnits ==
    ASSUME StackInv, TypesInv, UnitInv, Still, answer' = answer, gone' = gone,
           connected' = connected, alive' => alive, Untouched \/ Restarted,
           Place \notin {"output", "ask", "status"},
           ~connected \/ (Place \in {"reset", "isolated", "wait"} /\ ~HasAgain)
    PROVE  UnitInv'
<1>1. CASE Untouched
  <2>1. Reported'
    BY <1>1, UntouchedSettles, StillReports
  <2> QED
    BY <1>1, <2>1, AgainStill, DriverKeepsUnits
<1>2. CASE Restarted
  <2>1. idle => idle'
    BY <1>2 DEF Restarted
  <2>2. Reported' /\ (HasAgain' => Settled')
    <3>1. CASE ~connected
      <4>1. Settled => Settled'
        BY <2>1, <3>1 DEF Settled
      <4> QED
        BY <2>1, <4>1, StillReports, AgainStill DEF UnitInv
    <3>2. CASE Place \in {"reset", "isolated", "wait"} /\ ~HasAgain
      BY <3>2, StillStays, NothingReported, AgainStill
    <3> QED
      BY <3>1, <3>2
  <2> QED
    BY <1>2, <2>1, <2>2 DEF UnitInv, Restarted
<1> QED
  BY <1>1, <1>2

LEMMA ShellUpKeepsUnits ==
    ASSUME StackInv, TypesInv, WireInv, UnitInv, ShellUp
    PROVE  UnitInv'
<1>1. /\ Still /\ alive /\ guest = "booting" /\ answer' = answer /\ gone' = gone
      /\ connected' = connected /\ alive' = alive /\ Untouched
  BY ShellUpIs DEF ShellUp, driver, units, Untouched
<1>2. Place \notin {"output", "ask", "status"} /\ ~Quiet
  BY <1>1 DEF WireInv, AtWire, Speaking, Answering, Printed, Echoed, Sent, Quiet, Here
<1> QED
  BY <1>1, <1>2, GuestLeaves, GuestKeepsUnits

LEMMA GuestDownKeepsUnits ==
    ASSUME StackInv, TypesInv, WireInv, UnitInv, GuestDown
    PROVE  UnitInv'
<1>1. /\ Still /\ alive /\ answer' = answer /\ gone' = gone
      /\ connected' = connected /\ (alive' => alive) /\ toDriver' = toDriver
      /\ guest \in {"rebooting", "halting"}
  BY GuestDownIs DEF GuestDown, driver
<1>2. Untouched \/ Restarted
  <2>1. UNCHANGED units \/ \E j \in BOOLEAN : SetUnit("inactive", j)
    BY DEF GuestDown
  <2> QED
    BY <2>1 DEF SetUnit, units, Untouched, Restarted
<1>3. Place \notin {"output", "ask", "status"} /\ ~Quiet
  BY <1>1 DEF WireInv, AtWire, Speaking, Answering, Printed, Echoed, Sent, Quiet, Here
<1> QED
  BY <1>1, <1>2, <1>3, GuestLeaves, GuestKeepsUnits

(* What a command of wait_for_unit prints. *)
LEMMA PrintedIsTold ==
    ASSUME StackInv, TypesInv, WireInv, UnitInv, Place = "output", NEW v,
           Top.cmd = "show" => v = unit,
           Top.cmd = "list-jobs" /\ v = "no_jobs" => ~job
    PROVE  Told(Asker, v)
<1>1. stack # <<>> /\ Top.at = "output" /\ connected
  BY DEF Place, WireInv, AtWire
<1>2. Top = stack[1] /\ Top \in Frames /\ Top.op = "execute"
  BY <1>1, TopIs, PlaceTells
<1>3. CASE Len(stack) > 1
  <2>1. PICK n \in Nat : n = Len(stack)
    BY DEF StackInv
  <2>2. 1 \in 1 .. n - 1 /\ 2 \in 1 .. n
    BY ONLY <1>3, <2>1, n \in Nat
  <2>3. Link(Top, stack[2])
    BY <1>2, <2>1, <2>2 DEF StackInv, Shape
  <2>4. Asker = stack[2].at
    BY <1>3 DEF Asker
  <2>5. Asker = "jobs" => Top.cmd = "list-jobs"
    BY <1>2, <2>3, <2>4 DEF Link
  <2>6. Asker = "again" => Top.cmd = "show" /\ HasAgain
    BY <1>2, <2>1, <2>2, <2>3, <2>4 DEF Link, HasAgain
  <2>7. ~job => Settled
    BY <1>1 DEF UnitInv, Settled, TypesInv, States
  <2>8. HasAgain /\ unit = "inactive" => idle
    BY DEF UnitInv, Settled
  <2> QED
    BY <2>5, <2>6, <2>7, <2>8 DEF Told
<1>4. CASE ~(Len(stack) > 1)
  BY <1>4 DEF Asker, Told
<1> QED
  BY <1>3, <1>4

LEMMA RunLineKeepsUnits ==
    ASSUME StackInv, TypesInv, WireInv, UnitInv, RunLine
    PROVE  UnitInv'
<1>1. /\ Still /\ alive /\ answer' = answer /\ gone' = gone /\ toGuest # <<>>
      /\ connected' = connected /\ alive' = alive
  BY RunLineIs DEF RunLine, driver
<1>2. PICK line : line = Head(toGuest)
  OBVIOUS
<1>3. Untouched \/ Restarted
  BY DEF RunLine, SetUnit, units, Untouched, Restarted
<1>4. line.cmd \in {"test", "show", "list-jobs", "status"} => Untouched
  BY <1>2 DEF RunLine, units, Untouched
<1>5. CASE Place = "output"
  <2>1. Sent(Top.cmd) /\ Top.cmd # "isolate"
    BY <1>1, <1>5 DEF WireInv, AtWire, Speaking, Printed, Here
  <2>2. PICK q, t : q = toGuest /\ t = toDriver'
    OBVIOUS
  <2>3. q = <<SentLine(Top.cmd)>> /\ toDriver = <<>>
    BY <2>1, <2>2 DEF Sent
  <2>4. Head(q) = SentLine(Top.cmd)
    BY <2>3
  <2>5. line.cmd = Top.cmd
    BY <1>2, <2>2, <2>4 DEF SentLine
  <2>6. line.cmd \in {"test", "show", "list-jobs"}
    <3>1. Top \in Frames
      BY <1>5, TopIs DEF Place
    <3> QED
      BY <2>1, <2>5, <3>1 DEF Frames
  <2>7. PICK v : /\ Says(Output(line.call, v))
                 /\ line.cmd = "show" => v = unit
                 /\ line.cmd = "list-jobs" /\ v = "no_jobs" => ~job
    BY <1>2, <2>6 DEF RunLine
  <2>8. t = <<Output(line.call, v)>>
    BY <2>2, <2>3, <2>7 DEF Says
  <2>9. t # <<>> /\ t[1].val = v
    BY <2>8 DEF Output
  <2>10. Untouched
    BY <1>4, <2>6
  <2>11. PICK p : p = Asker
    OBVIOUS
  <2>12. Told(p, v)'
    <3>1. Told(p, v)
      BY <1>5, <2>5, <2>7, <2>11, PrintedIsTold
    <3> QED
      BY <1>1, <2>10, <3>1, UntouchedSettles, ToldStill
  <2>13. Place' = "output" /\ Asker' = Asker
    BY <1>1, <1>5, StillStays, AskerStays
  <2>14. Reported'
    BY <2>2, <2>9, <2>11, <2>12, <2>13 DEF Reported
  <2> QED
    BY <1>1, <2>10, <2>14, AgainStill, DriverKeepsUnits
<1>6. CASE Place = "status"
  <2>1. Sent("status")
    BY <1>1, <1>6 DEF WireInv, AtWire, Answering, Echoed, Here
  <2>2. PICK q : q = toGuest
    OBVIOUS
  <2>3. q = <<SentLine("status")>>
    BY <2>1, <2>2 DEF Sent
  <2>4. Head(q) = SentLine("status")
    BY <2>3
  <2>5. line.cmd = "status"
    BY <1>2, <2>2, <2>4 DEF SentLine
  <2>6. Untouched
    BY <1>4, <2>5
  <2>7. Reported'
    BY <1>1, <1>6, <2>6, UntouchedSettles, StillReports
  <2> QED
    BY <1>1, <2>6, <2>7, AgainStill, DriverKeepsUnits
<1>7. CASE Place \notin {"output", "status"}
  <2>1. ~Quiet
    BY <1>1 DEF Quiet, Here
  <2>2. Place # "ask"
    BY <1>1, <2>1 DEF WireInv, AtWire
  <2> QED
    BY <1>1, <1>3, <1>7, <2>1, <2>2, GuestLeaves, GuestKeepsUnits
<1> QED
  BY <1>5, <1>6, <1>7

LEMMA UnitsStep ==
    ASSUME StackInv, TypesInv, WireInv, UnitInv, [Next]_vars
    PROVE  UnitInv'
<1>1. CASE \E op \in Op : Script(op)
  BY <1>1, ScriptKeepsUnits
<1>2. CASE Pause
  BY <1>2, PauseKeepsUnits
<1>3. CASE StartCalled \/ StartFirst
  BY <1>3, StartsKeepUnits
<1>4. CASE Other \/ WaitForShutdown
  BY <1>4, OtherKeepsUnits
<1>5. CASE ReadOutput \/ AskStatus \/ ReadStatus
  BY <1>5, ReadOutputKeepsUnits, AskKeepsUnits, ReadStatusKeepsUnits
<1>6. CASE Guest
  BY <1>6, ShellUpKeepsUnits, RunLineKeepsUnits, GuestDownKeepsUnits DEF Guest
<1>7. CASE UnitStep
  BY <1>7, UnitStepKeepsUnits
<1>8. CASE Die \/ ReadNothing \/ (\E i \in Polled : Tick(i)) \/ UNCHANGED vars
  BY <1>8, QuietlyKeepsUnits
<1> QED
  BY <1>1, <1>2, <1>3, <1>4, <1>5, <1>6, <1>7, <1>8 DEF Next, DriverStep, Pause, Other

(* wait_for_unit gives up on an inactive unit only if the unit was, at     *)
(* some moment since the call, inactive with no job, or went down          *)
(* (Machine.wait_for_unit l.359-366): looking at the unit again after the  *)
(* queue was empty is enough for that, whatever the guest did in between.  *)
THEOREM VerdictsAreRight == Careful => (Spec => []UnitVerdictIsRight)
<1> SUFFICES ASSUME Careful PROVE Spec => []UnitVerdictIsRight
  OBVIOUS
<1>1. Init => UnitInv
  <2> SUFFICES ASSUME Init PROVE UnitInv
    OBVIOUS
  <2>1. stack = <<>> /\ gone = FALSE /\ idle = TRUE /\ unit = "inactive"
    BY DEF Init
  <2>2. Place = "free"
    BY <2>1 DEF Place
  <2> QED
    BY <2>1, <2>2 DEF UnitInv, Settled, Reported
<1>2. (StackInv /\ TypesInv /\ WireInv) /\ UnitInv /\ [Next]_vars => UnitInv'
  BY UnitsStep
<1>3. UnitInv => UnitVerdictIsRight
  BY DEF UnitInv, UnitVerdictIsRight
<1> QED
  BY <1>1, <1>2, <1>3, WireIsKept, PTL DEF Spec
================================================================================
