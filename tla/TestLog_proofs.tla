---------------------------- MODULE TestLog_proofs ----------------------------
(***************************************************************************)
(* Theorems about TestLog, for any number of lines on the console and in   *)
(* the script, and elements nested to any depth.                           *)
(***************************************************************************)
EXTENDS TestLog, TLAPS

Items  == [kind : {"serial", "line"}, n : Nat, by : Threads]
Places == {"idle", "line", "inside", "leave", "write", "close", "end", "killed"}
Parts  == {"script", "cancel", "set", "off", "release", "terminate", "join", "done", "over",
           "killed"}

TypesInv ==
    /\ out \in Seq(Items) /\ queue \in Seq(Nat) /\ heard \in Nat
    /\ at \in [Threads -> Places] /\ todo \in [Threads -> Parts]
    /\ hand \in [Threads -> SUBSET Nat] /\ known \in [Threads -> Nat]

(* Every line that was heard is somewhere. *)
PlacedInv ==
    \A n \in 1 .. heard :
        \/ \E k \in DOMAIN out : IsSerial(k, n)
        \/ \E i \in DOMAIN queue : queue[i] = n
        \/ \E t \in Threads : n \in hand[t]

(* The queue is in order, and later than all that was ever taken from it. *)
QueueInv ==
    \A i \in DOMAIN queue :
        /\ queue[i] \in 1 .. heard
        /\ \A j \in DOMAIN queue : i < j => queue[i] < queue[j]
        /\ \A k \in DOMAIN out : out[k].kind = "serial" => out[k].n < queue[i]
        /\ \A t \in Threads : \A n \in hand[t] : n < queue[i]

(* What a thread holds is one line that nobody wrote, later than all it wrote. *)
HandInv ==
    \A t \in Threads : \A n \in hand[t] :
        /\ n \in 1 .. heard
        /\ \A m \in hand[t] : m = n
        /\ n \notin hand[Other(t)]
        /\ \A k \in DOMAIN out : out[k].kind = "serial" =>
               out[k].n # n /\ (out[k].by = t => out[k].n < n)

FileInv ==
    \A k \in DOMAIN out : out[k].kind = "serial" =>
        /\ out[k].n \in 1 .. heard
        /\ \A j \in DOMAIN out : IsSerial(j, out[k].n) => j = k

(* A line that overtook one will not overtake another. *)
OvertookInv ==
    \A k \in DOMAIN out, j \in DOMAIN out :
        /\ k < j
        /\ out[k].kind = "serial" /\ out[j].kind = "serial" /\ out[j].n < out[k].n
        => \A t \in Threads : \A n \in hand[t] : out[k].n < n

(* Who is about to write a line found the queue empty, and what is in it by now
   was heard after the line was logged. *)
DrainedInv ==
    \A t \in Threads :
        /\ known[t] <= heard
        /\ hand[t] # {} => at[t] \in {"line", "inside", "leave", "killed"}
        /\ at[t] \in {"write", "close"} => \A i \in DOMAIN queue : known[t] < queue[i]

(* How far the driver's end has got. *)
EndInv ==
    /\ todo["main"] = "done" => at["main"] \in {"idle", "leave", "close", "end"}
    /\ todo["main"] = "over" => at["main"] = "idle"
    /\ todo["main"] \in {"done", "over"} /\ pid => ~thread
    /\ (todo["main"] = "done" /\ at["main"] \in {"close", "end"}) \/ todo["main"] = "over" =>
           (pid => queue = <<>>)

OrderInv == PlacedInv /\ QueueInv /\ HandInv /\ FileInv /\ InOrder /\ OvertookInv

LInv == TypesInv /\ OrderInv /\ LinesComeAfter /\ DrainedInv /\ EndInv

-----------------------------------------------------------------------------

LEMMA ThreadsAre ==
    /\ \A t \in Threads : Other(t) \in Threads /\ Other(t) # t /\ Other(Other(t)) = t
    /\ \A t \in Threads, u \in Threads : u = t \/ u = Other(t)
    /\ "main" \in Threads /\ "timer" \in Threads /\ Other("main") = "timer"
BY DEF Threads, Other

LEMMA InitLog == Init => LInv
<1> SUFFICES ASSUME Init PROVE LInv
  OBVIOUS
<1>1. out = <<>> /\ queue = <<>> /\ DOMAIN out = {} /\ DOMAIN queue = {} /\ heard = 0
  BY DEF Init
<1>2. \A t \in Threads : hand[t] = {} /\ known[t] = 0 /\ at[t] = "idle"
  BY DEF Init
<1>3. TypesInv
  <2>1. out \in Seq(Items) /\ queue \in Seq(Nat)
    BY <1>1
  <2> QED
    BY <2>1 DEF Init, TypesInv, Places, Parts, Threads
<1>4. OrderInv /\ LinesComeAfter
  BY <1>1, <1>2 DEF OrderInv, PlacedInv, QueueInv, HandInv, FileInv, InOrder, OvertookInv,
     LinesComeAfter
<1>5. DrainedInv
  BY <1>1, <1>2 DEF DrainedInv
<1>6. EndInv
  BY DEF EndInv, Init, Threads
<1> QED
  BY <1>3, <1>4, <1>5, <1>6 DEF LInv

(* Steps that take no line and write none. *)
LEMMA SameFile ==
    ASSUME LInv, UNCHANGED file
    PROVE  OrderInv' /\ LinesComeAfter'
<1>1. out' = out /\ queue' = queue /\ heard' = heard /\ hand' = hand
  BY DEF file
<1>2. OrderInv'
  BY <1>1 DEF LInv, OrderInv, PlacedInv, QueueInv, HandInv, FileInv, InOrder, OvertookInv, IsSerial
<1>3. LinesComeAfter'
  BY <1>1 DEF LInv, LinesComeAfter, Missing, IsSerial
<1> QED
  BY <1>2, <1>3

LEMMA LogSerialKeeps == ASSUME LInv, LogSerial PROVE LInv'
<1>1. /\ out \in Seq(Items) /\ queue \in Seq(Nat) /\ heard \in Nat
      /\ hand \in [Threads -> SUBSET Nat] /\ known \in [Threads -> Nat]
  BY DEF LInv, TypesInv
<1>2. PICK x \in Nat : x = heard + 1 /\ heard' = x /\ queue' = Append(queue, x)
  BY <1>1 DEF LogSerial
<1>3. out' = out /\ hand' = hand /\ at' = at /\ known' = known /\ todo' = todo /\ pid' = pid /\ thread
      /\ thread' = thread
  BY DEF LogSerial
<1>4. PICK l \in Nat : l = Len(queue) /\ DOMAIN queue = 1 .. l
  BY <1>1
<1>5. /\ queue' \in Seq(Nat) /\ DOMAIN queue' = 1 .. l + 1 /\ queue'[l + 1] = x
      /\ \A i \in 1 .. l : queue'[i] = queue[i]
  BY <1>1, <1>2, <1>4
<1>6. \A i \in 1 .. l + 1 : i \in 1 .. l \/ i = l + 1
  BY <1>4
<1>7. TypesInv'
  BY <1>2, <1>3, <1>5 DEF LInv, TypesInv
<1>14. /\ \A n \in 1 .. heard : n \in 1 .. x /\ n < x
       /\ \A n \in 1 .. x : n = x \/ n \in 1 .. heard
  <2>1. x = heard + 1 /\ heard \in Nat
    BY <1>1, <1>2
  <2> QED
    BY ONLY <2>1
<1>8. PlacedInv'
  <2>1. ASSUME NEW n \in 1 .. x
        PROVE \/ \E k \in DOMAIN out : IsSerial(k, n)
              \/ \E i \in 1 .. l + 1 : queue'[i] = n
              \/ \E t \in Threads : n \in hand[t]
    <3>1. CASE n = x
      BY <1>4, <1>5, <3>1
    <3>2. CASE n \in 1 .. heard
      <4>1. CASE \E i \in DOMAIN queue : queue[i] = n
        BY <1>4, <1>5, <4>1
      <4> QED
        BY <3>2, <4>1 DEF LInv, OrderInv, PlacedInv
    <3> QED
      BY <1>14, <3>1, <3>2
  <2> QED
    BY <1>2, <1>3, <1>5, <2>1 DEF PlacedInv, IsSerial
<1>9. QueueInv'
  <2>1. ASSUME NEW i \in 1 .. l + 1
        PROVE  /\ queue'[i] \in 1 .. x
               /\ \A j \in 1 .. l + 1 : i < j => queue'[i] < queue'[j]
               /\ \A k \in DOMAIN out : out[k].kind = "serial" => out[k].n < queue'[i]
               /\ \A t \in Threads : \A n \in hand[t] : n < queue'[i]
    <3>1. CASE i \in 1 .. l
      <4>1. /\ queue[i] \in 1 .. heard
            /\ \A j \in 1 .. l : i < j => queue[i] < queue[j]
            /\ \A k \in DOMAIN out : out[k].kind = "serial" => out[k].n < queue[i]
            /\ \A t \in Threads : \A n \in hand[t] : n < queue[i]
        BY <1>4, <3>1 DEF LInv, OrderInv, QueueInv
      <4> QED
        <5>1. queue'[i] = queue[i] /\ queue[i] \in 1 .. x /\ queue[i] < x
          BY <1>5, <1>14, <3>1, <4>1
        <5>2. ASSUME NEW j \in 1 .. l + 1, i < j PROVE queue[i] < queue'[j]
          BY <1>2, <1>5, <1>6, <4>1, <5>1, <5>2
        <5> QED
          BY ONLY <4>1, <5>1, <5>2
    <3>2. CASE i = l + 1
      <4>1. \A k \in DOMAIN out : out[k].kind = "serial" => out[k].n \in 1 .. heard
        BY DEF LInv, OrderInv, FileInv
      <4>2. \A t \in Threads : \A n \in hand[t] : n \in 1 .. heard
        BY DEF LInv, OrderInv, HandInv
      <4>3. queue'[i] = x /\ \A j \in 1 .. l + 1 : ~(i < j)
        BY <1>2, <1>4, <1>5, <3>2
      <4>4. x \in 1 .. x
        BY <1>1, <1>2
      <4> QED
        BY ONLY <1>14, <4>1, <4>2, <4>3, <4>4
    <3> QED
      BY <1>6, <3>1, <3>2
  <2> QED
    BY <1>2, <1>3, <1>5, <2>1 DEF QueueInv
<1>10. HandInv' /\ FileInv' /\ InOrder' /\ OvertookInv'
  <2>1. \A n : n \in 1 .. heard => n \in 1 .. heard'
    BY <1>1, <1>2
  <2> QED
    BY <1>3, <2>1 DEF LInv, OrderInv, HandInv, FileInv, InOrder, OvertookInv, IsSerial
<1>11. LinesComeAfter'
  BY <1>3 DEF LInv, LinesComeAfter, Missing, IsSerial
<1>12. DrainedInv'
  <2>1. ASSUME NEW t \in Threads
        PROVE /\ known[t] <= x
              /\ at[t] \in {"write", "close"} => \A i \in 1 .. l + 1 : known[t] < queue'[i]
    <3>1. known[t] \in Nat /\ known[t] <= heard
      BY <1>1 DEF LInv, DrainedInv
    <3>2. at[t] \in {"write", "close"} => \A i \in 1 .. l : known[t] < queue[i]
      BY <1>4 DEF LInv, DrainedInv
    <3> QED
      BY <1>1, <1>2, <1>5, <1>6, <3>1, <3>2
  <2> QED
    BY <1>2, <1>3, <1>5, <2>1 DEF LInv, DrainedInv
<1>13. EndInv'
  BY <1>1, <1>2, <1>3 DEF LInv, EndInv
<1> QED
  BY <1>7, <1>8, <1>9, <1>10, <1>11, <1>12, <1>13 DEF LInv, OrderInv


LEMMA TakeKeeps == ASSUME LInv, NEW t \in Threads, Take(t) PROVE LInv'
<1>1. /\ out \in Seq(Items) /\ queue \in Seq(Nat) /\ heard \in Nat
      /\ hand \in [Threads -> SUBSET Nat] /\ known \in [Threads -> Nat]
  BY DEF LInv, TypesInv
<1>2. /\ out' = out /\ heard' = heard /\ at' = at /\ known' = known /\ todo' = todo /\ pid' = pid
      /\ thread' = thread /\ queue # <<>> /\ at[t] \in {"line", "inside", "leave"} /\ hand[t] = {}
  BY DEF Take, Drains, Machine
<1>3. PICK x : x = Head(queue)
  OBVIOUS
<1>4. hand' = [hand EXCEPT ![t] = {x}] /\ queue' = Tail(queue)
  BY <1>3 DEF Take
<1>5. PICK l \in Nat \ {0} : l = Len(queue) /\ DOMAIN queue = 1 .. l
  BY <1>1, <1>2
<1>6. x = queue[1] /\ x \in Nat /\ 1 \in 1 .. l
  BY <1>1, <1>2, <1>3, <1>5
<1>7. /\ queue' \in Seq(Nat) /\ DOMAIN queue' = 1 .. l - 1
      /\ \A i \in 1 .. l - 1 : i + 1 \in 1 .. l /\ 1 < i + 1 /\ queue'[i] = queue[i + 1]
  BY <1>1, <1>2, <1>4, <1>5
<1>8. /\ \A u \in Threads : u # t => hand'[u] = hand[u]
      /\ hand'[t] = {x} /\ hand' \in [Threads -> SUBSET Nat]
  BY <1>1, <1>4, <1>6
<1>9. /\ x \in 1 .. heard
      /\ \A j \in 1 .. l : 1 < j => x < queue[j]
      /\ \A k \in DOMAIN out : out[k].kind = "serial" => out[k].n < x
      /\ \A u \in Threads : \A n \in hand[u] : n < x
  BY <1>5, <1>6 DEF LInv, OrderInv, QueueInv
<1>10. TypesInv'
  BY <1>2, <1>7, <1>8 DEF LInv, TypesInv
<1>11. PlacedInv'
  <2>1. ASSUME NEW n \in 1 .. heard
        PROVE \/ \E k \in DOMAIN out : IsSerial(k, n)
              \/ \E i \in 1 .. l - 1 : queue'[i] = n
              \/ \E u \in Threads : n \in hand'[u]
    <3>1. CASE \E i \in 1 .. l : queue[i] = n
      <4>1. PICK i \in 1 .. l : queue[i] = n
        BY <3>1
      <4>2. CASE i = 1
        BY <1>6, <1>8, <4>1, <4>2
      <4>3. CASE i # 1
        <5>1. i - 1 \in 1 .. l - 1 /\ i = (i - 1) + 1
          BY <4>3
        <5> QED
          BY <1>7, <4>1, <5>1
      <4> QED
        BY <4>2, <4>3
    <3>2. CASE \E u \in Threads : n \in hand[u]
      BY <1>2, <1>8, <3>2
    <3> QED
      BY <1>5, <3>1, <3>2 DEF LInv, OrderInv, PlacedInv
  <2> QED
    BY <1>2, <1>7, <2>1 DEF PlacedInv, IsSerial
<1>12. QueueInv'
  <2>1. ASSUME NEW i \in 1 .. l - 1
        PROVE  /\ queue'[i] \in 1 .. heard
               /\ \A j \in 1 .. l - 1 : i < j => queue'[i] < queue'[j]
               /\ \A k \in DOMAIN out : out[k].kind = "serial" => out[k].n < queue'[i]
               /\ \A u \in Threads : \A n \in hand'[u] : n < queue'[i]
    <3>1. /\ queue[i + 1] \in 1 .. heard
          /\ \A j \in 1 .. l : i + 1 < j => queue[i + 1] < queue[j]
          /\ \A k \in DOMAIN out : out[k].kind = "serial" => out[k].n < queue[i + 1]
          /\ \A u \in Threads : \A n \in hand[u] : n < queue[i + 1]
      <4>1. i + 1 \in 1 .. l
        BY <1>7
      <4> QED
        BY <1>5, <4>1 DEF LInv, OrderInv, QueueInv
    <3>2. queue'[i] = queue[i + 1] /\ x < queue[i + 1]
      BY <1>7, <1>9
    <3>3. ASSUME NEW j \in 1 .. l - 1, i < j PROVE queue'[i] < queue'[j]
      <4>1. j + 1 \in 1 .. l /\ i + 1 < j + 1 /\ queue'[j] = queue[j + 1]
        BY <1>7, <3>3
      <4> QED
        BY ONLY <3>1, <3>2, <4>1
    <3>4. ASSUME NEW u \in Threads, NEW n \in hand'[u] PROVE n < queue'[i]
      BY <1>8, <3>1, <3>2, <3>4
    <3> QED
      BY <3>1, <3>2, <3>3, <3>4
  <2> QED
    BY <1>2, <1>7, <2>1 DEF QueueInv
<1>13. HandInv'
  <2>1. ASSUME NEW u \in Threads, NEW n \in hand'[u]
        PROVE  /\ n \in 1 .. heard
               /\ \A m \in hand'[u] : m = n
               /\ n \notin hand'[Other(u)]
               /\ \A k \in DOMAIN out : out[k].kind = "serial" =>
                      out[k].n # n /\ (out[k].by = u => out[k].n < n)
    <3>1. CASE u = t
      <4>1. n = x /\ \A m \in hand'[u] : m = n
        BY <1>8, <2>1, <3>1
      <4>2. Other(t) \in Threads /\ Other(t) # t
        BY ThreadsAre
      <4>3. x \notin hand'[Other(u)]
        <5>1. ASSUME x \in hand[Other(t)] PROVE FALSE
          BY <1>6, <1>9, <4>2, <5>1
        <5> QED
          BY <1>8, <3>1, <4>2, <5>1
      <4>4. \A k \in DOMAIN out : out[k].kind = "serial" => out[k].n # x /\ out[k].n < x
        BY <1>6, <1>9
      <4> QED
        BY <1>9, <4>1, <4>3, <4>4
    <3>2. CASE u # t
      <4>1. hand'[u] = hand[u] /\ n \in hand[u] /\ Other(u) = t /\ n < x
        BY <1>8, <1>9, <2>1, <3>2, ThreadsAre
      <4>2. /\ n \in 1 .. heard
            /\ \A m \in hand[u] : m = n
            /\ \A k \in DOMAIN out : out[k].kind = "serial" =>
                   out[k].n # n /\ (out[k].by = u => out[k].n < n)
        BY <4>1 DEF LInv, OrderInv, HandInv
      <4> QED
        BY <1>6, <1>8, <4>1, <4>2
    <3> QED
      BY <3>1, <3>2
  <2> QED
    BY <1>2, <2>1 DEF HandInv
<1>14. FileInv' /\ InOrder'
  BY <1>2 DEF LInv, OrderInv, FileInv, InOrder, IsSerial
<1>15. OvertookInv'
  <2>1. ASSUME NEW k \in DOMAIN out, NEW j \in DOMAIN out, k < j,
               out[k].kind = "serial", out[j].kind = "serial", out[j].n < out[k].n,
               NEW u \in Threads, NEW n \in hand'[u]
        PROVE  out[k].n < n
    <3>1. CASE u = t
      BY <1>8, <1>9, <2>1, <3>1
    <3>2. CASE u # t
      BY <1>8, <2>1, <3>2 DEF LInv, OrderInv, OvertookInv
    <3> QED
      BY <3>1, <3>2
  <2> QED
    BY <1>2, <2>1 DEF OvertookInv
<1>16. LinesComeAfter'
  <2>1. ASSUME NEW k \in DOMAIN out, out[k].kind = "line", NEW n \in Missing(k)
        PROVE /\ \A m \in Missing(k) : m = n
              /\ \/ n \in hand'[Other(out[k].by)]
                 \/ \E j \in DOMAIN out :
                        k < j /\ IsSerial(j, n) /\ out[j].by = Other(out[k].by)
    <3>1. /\ \A m \in Missing(k) : m = n
          /\ \/ n \in hand[Other(out[k].by)]
             \/ \E j \in DOMAIN out :
                    k < j /\ IsSerial(j, n) /\ out[j].by = Other(out[k].by)
      BY <2>1 DEF LInv, LinesComeAfter
    <3>2. out[k].by \in Threads /\ Other(out[k].by) \in Threads
      <4>1. out[k] \in Items
        BY <1>1
      <4> QED
        BY <4>1, ThreadsAre DEF Items
    <3>3. n \in hand[Other(out[k].by)] => n \in hand'[Other(out[k].by)]
      BY <1>2, <1>8, <3>2
    <3> QED
      BY <3>1, <3>3
  <2> QED
    BY <1>2, <2>1 DEF LinesComeAfter, Missing, IsSerial
<1>17. DrainedInv'
  <2>1. ASSUME NEW u \in Threads
        PROVE /\ hand'[u] # {} => at[u] \in {"line", "inside", "leave", "killed"}
              /\ at[u] \in {"write", "close"} => \A i \in 1 .. l - 1 : known[u] < queue'[i]
    <3>1. hand'[u] # {} => at[u] \in {"line", "inside", "leave", "killed"}
      BY <1>2, <1>8 DEF LInv, DrainedInv
    <3>2. at[u] \in {"write", "close"} => \A i \in 1 .. l : known[u] < queue[i]
      BY <1>5 DEF LInv, DrainedInv
    <3> QED
      BY <1>7, <3>1, <3>2
  <2> QED
    BY <1>2, <1>7, <2>1 DEF LInv, DrainedInv
<1>18. EndInv'
  <2>1. (todo["main"] = "done" /\ at["main"] \in {"close", "end"}) \/ todo["main"] = "over" => ~pid
    BY <1>2 DEF LInv, EndInv
  <2> QED
    BY <1>2, <2>1 DEF LInv, EndInv
<1> QED
  BY <1>10, <1>11, <1>12, <1>13, <1>14, <1>15, <1>16, <1>17, <1>18 DEF LInv, OrderInv

Adds(s1, s, r) == s1 = Append(s, r)

LEMMA Appended ==
    ASSUME NEW s \in Seq(Items), NEW r \in Items, NEW s1, Adds(s1, s, r)
    PROVE  \E l \in Nat :
               /\ DOMAIN s = 1 .. l /\ DOMAIN s1 = 1 .. l + 1 /\ s1 \in Seq(Items)
               /\ s1[l + 1] = r /\ l + 1 \in DOMAIN s1
               /\ \A k \in DOMAIN s : k \in DOMAIN s1 /\ s1[k] = s[k] /\ k < l + 1
               /\ \A k \in DOMAIN s1 : k \in DOMAIN s \/ k = l + 1
<1>1. PICK l \in Nat : l = Len(s)
  OBVIOUS
<1>2. /\ DOMAIN s = 1 .. l /\ DOMAIN s1 = 1 .. l + 1 /\ s1 \in Seq(Items)
      /\ s1[l + 1] = r /\ \A k \in 1 .. l : s1[k] = s[k]
  BY <1>1 DEF Adds
<1>3. \A k \in 1 .. l + 1 : k \in 1 .. l \/ k = l + 1
  BY <1>1
<1>4. l + 1 \in 1 .. l + 1 /\ \A k \in 1 .. l : k \in 1 .. l + 1 /\ k < l + 1
  BY <1>1
<1> QED
  BY <1>2, <1>3, <1>4


LEMMA WriteTakenKeeps == ASSUME LInv, NEW t \in Threads, WriteTaken(t) PROVE LInv'
<1>1. /\ out \in Seq(Items) /\ queue \in Seq(Nat) /\ heard \in Nat
      /\ hand \in [Threads -> SUBSET Nat] /\ known \in [Threads -> Nat]
  BY DEF LInv, TypesInv
<1>2. /\ queue' = queue /\ heard' = heard /\ at' = at /\ known' = known /\ todo' = todo /\ pid' = pid
      /\ thread' = thread /\ hand' = [hand EXCEPT ![t] = {}]
  BY DEF WriteTaken, Machine
<1>3. PICK x \in hand[t] : out' = Append(out, [kind |-> "serial", n |-> x, by |-> t])
  BY DEF WriteTaken, Writes
<1>4. PICK r : r = [kind |-> "serial", n |-> x, by |-> t]
  OBVIOUS
<1>5. x \in Nat /\ r \in Items /\ r.kind = "serial" /\ r.n = x /\ r.by = t
  BY <1>1, <1>3, <1>4 DEF Items
<1>6. PICK l \in Nat :
          /\ DOMAIN out = 1 .. l /\ DOMAIN out' = 1 .. l + 1 /\ out' \in Seq(Items)
          /\ out'[l + 1] = r /\ l + 1 \in DOMAIN out'
          /\ \A k \in DOMAIN out : k \in DOMAIN out' /\ out'[k] = out[k] /\ k < l + 1
          /\ \A k \in DOMAIN out' : k \in DOMAIN out \/ k = l + 1
  <2>1. PICK s1 : s1 = out'
    OBVIOUS
  <2>2. Adds(s1, out, r) /\ out \in Seq(Items) /\ r \in Items
    BY <1>1, <1>3, <1>4, <1>5, <2>1 DEF Adds
  <2>3. \E l \in Nat :
           /\ DOMAIN out = 1 .. l /\ DOMAIN s1 = 1 .. l + 1 /\ s1 \in Seq(Items)
           /\ s1[l + 1] = r /\ l + 1 \in DOMAIN s1
           /\ \A k \in DOMAIN out : k \in DOMAIN s1 /\ s1[k] = out[k] /\ k < l + 1
           /\ \A k \in DOMAIN s1 : k \in DOMAIN out \/ k = l + 1
    BY ONLY <2>2, Appended
  <2> QED
    BY <2>1, <2>3
<1>7. /\ x \in 1 .. heard /\ (\A m \in hand[t] : m = x) /\ x \notin hand[Other(t)]
      /\ \A k \in DOMAIN out : out[k].kind = "serial" =>
             out[k].n # x /\ (out[k].by = t => out[k].n < x)
  BY <1>3 DEF LInv, OrderInv, HandInv
<1>8. /\ hand' \in [Threads -> SUBSET Nat] /\ hand'[t] = {}
      /\ \A u \in Threads : u # t => hand'[u] = hand[u]
  BY <1>1, <1>2
<1>20. \A u \in Threads : \A n \in hand'[u] : u = Other(t) /\ n \in hand[u] /\ n # x
  BY <1>7, <1>8, ThreadsAre
<1>9. \A k \in DOMAIN out : out[k].n \in Nat /\ out[k].by \in Threads
  <2>1. \A k \in DOMAIN out : out[k] \in Items
    BY <1>1
  <2> QED
    BY <2>1 DEF Items
<1>10. TypesInv'
  BY <1>2, <1>6, <1>8 DEF LInv, TypesInv
<1>11. PlacedInv'
  <2>1. ASSUME NEW n \in 1 .. heard
        PROVE \/ \E k \in DOMAIN out' : IsSerial(k, n)'
              \/ \E i \in DOMAIN queue : queue[i] = n
              \/ \E u \in Threads : n \in hand'[u]
    <3>1. CASE \E k \in DOMAIN out : IsSerial(k, n)
      BY <1>6, <3>1 DEF IsSerial
    <3>2. CASE \E u \in Threads : n \in hand[u]
      <4>1. PICK u \in Threads : n \in hand[u]
        BY <3>2
      <4>2. CASE u = t
        <5>1. n = x
          BY <1>7, <4>1, <4>2
        <5> QED
          BY <1>5, <1>6, <5>1 DEF IsSerial
      <4> QED
        BY <1>8, <4>1, <4>2
    <3> QED
      BY <3>1, <3>2 DEF LInv, OrderInv, PlacedInv
  <2> QED
    BY <1>2, <2>1 DEF PlacedInv
<1>12. QueueInv'
  <2>1. ASSUME NEW i \in DOMAIN queue
        PROVE  /\ queue[i] \in 1 .. heard
               /\ \A j \in DOMAIN queue : i < j => queue[i] < queue[j]
               /\ \A k \in DOMAIN out' : out'[k].kind = "serial" => out'[k].n < queue[i]
               /\ \A u \in Threads : \A n \in hand'[u] : n < queue[i]
    <3>1. /\ queue[i] \in 1 .. heard
          /\ \A j \in DOMAIN queue : i < j => queue[i] < queue[j]
          /\ \A k \in DOMAIN out : out[k].kind = "serial" => out[k].n < queue[i]
          /\ \A u \in Threads : \A n \in hand[u] : n < queue[i]
      BY DEF LInv, OrderInv, QueueInv
    <3>2. x < queue[i] /\ \A u \in Threads : \A n \in hand'[u] : n < queue[i]
      BY <1>3, <1>20, <3>1
    <3>3. ASSUME NEW k \in DOMAIN out', out'[k].kind = "serial" PROVE out'[k].n < queue[i]
      BY <1>5, <1>6, <3>1, <3>2, <3>3
    <3> QED
      BY <3>1, <3>2, <3>3
  <2> QED
    BY <1>2, <2>1 DEF QueueInv
<1>13. HandInv'
  <2>1. ASSUME NEW u \in Threads, NEW n \in hand'[u]
        PROVE  /\ n \in 1 .. heard
               /\ \A m \in hand'[u] : m = n
               /\ n \notin hand'[Other(u)]
               /\ \A k \in DOMAIN out' : out'[k].kind = "serial" =>
                      out'[k].n # n /\ (out'[k].by = u => out'[k].n < n)
    <3>1. u = Other(t) /\ n \in hand[u] /\ n # x /\ Other(u) = t /\ u # t /\ hand'[u] = hand[u]
      BY <1>8, <1>20, <2>1, ThreadsAre
    <3>2. /\ n \in 1 .. heard
          /\ \A m \in hand[u] : m = n
          /\ \A k \in DOMAIN out : out[k].kind = "serial" =>
                 out[k].n # n /\ (out[k].by = u => out[k].n < n)
      BY <3>1 DEF LInv, OrderInv, HandInv
    <3>3. ASSUME NEW k \in DOMAIN out', out'[k].kind = "serial"
          PROVE  out'[k].n # n /\ (out'[k].by = u => out'[k].n < n)
      BY <1>5, <1>6, <3>1, <3>2, <3>3
    <3> QED
      BY <1>8, <3>1, <3>2, <3>3
  <2> QED
    BY <1>2, <2>1 DEF HandInv
<1>14. FileInv'
  <2>1. ASSUME NEW k \in DOMAIN out', out'[k].kind = "serial"
        PROVE  /\ out'[k].n \in 1 .. heard
               /\ \A j \in DOMAIN out' : out'[j].kind = "serial" /\ out'[j].n = out'[k].n => j = k
    <3>1. CASE k = l + 1
      BY <1>5, <1>6, <1>7, <3>1
    <3>2. CASE k \in DOMAIN out
      <4>1. /\ out[k].n \in 1 .. heard /\ out[k].n # x
            /\ \A j \in DOMAIN out : out[j].kind = "serial" /\ out[j].n = out[k].n => j = k
        BY <1>6, <1>7, <2>1, <3>2 DEF LInv, OrderInv, FileInv, IsSerial
      <4> QED
        BY <1>5, <1>6, <3>2, <4>1
    <3> QED
      BY <1>6, <3>1, <3>2
  <2> QED
    BY <1>2, <2>1 DEF FileInv, IsSerial
(* The new pairs are those of a line that was written and of x, which is earlier. *)
<1>15. InOrder'
  <2>1. ASSUME NEW k \in DOMAIN out', NEW j \in DOMAIN out', k < j,
               out'[k].kind = "serial", out'[j].kind = "serial", out'[j].n < out'[k].n
        PROVE  /\ out'[j].by = Other(out'[k].by)
               /\ \A i \in DOMAIN out' :
                      k < i /\ out'[i].kind = "serial" /\ out'[i].n < out'[k].n => i = j
    <3>1. k \in DOMAIN out /\ out'[k] = out[k] /\ k \in Nat /\ out[k].n \in Nat /\ out[k].by \in Threads
      <4>1. k # l + 1
        BY <1>6, <2>1
      <4> QED
        BY <1>6, <1>9, <4>1
    <3>2. ASSUME NEW i \in DOMAIN out, k < i, out[i].kind = "serial", out[i].n < out[k].n
          PROVE  out[k].n < x
      BY <1>3, <1>6, <2>1, <3>1, <3>2 DEF LInv, OrderInv, OvertookInv
    <3>3. CASE j = l + 1
      <4>1. x < out[k].n /\ out[k].by # t
        BY <1>5, <1>6, <1>7, <2>1, <3>1, <3>3
      <4>2. out'[j].by = Other(out'[k].by)
        BY <1>5, <1>6, <3>1, <3>3, <4>1, ThreadsAre
      <4>3. ASSUME NEW i \in DOMAIN out', k < i, out'[i].kind = "serial", out'[i].n < out'[k].n
            PROVE  i = j
        <5>1. CASE i \in DOMAIN out
          <6>1. out[k].n < x
            BY <1>6, <3>1, <3>2, <4>3, <5>1
          <6> QED
            BY <1>5, <3>1, <4>1, <6>1
        <5> QED
          BY <1>6, <3>3, <5>1
      <4> QED
        BY <4>2, <4>3
    <3>4. CASE j \in DOMAIN out
      <4>1. /\ out[j].by = Other(out[k].by)
            /\ \A i \in DOMAIN out :
                   k < i /\ out[i].kind = "serial" /\ out[i].n < out[k].n => i = j
        BY <1>6, <2>1, <3>1, <3>4 DEF LInv, OrderInv, InOrder
      <4>2. out[k].n < x
        BY <1>6, <2>1, <3>1, <3>2, <3>4
      <4>3. ASSUME NEW i \in DOMAIN out', k < i, out'[i].kind = "serial", out'[i].n < out'[k].n
            PROVE  i = j
        <5>1. CASE i = l + 1
          BY <1>5, <1>6, <3>1, <4>2, <4>3, <5>1
        <5>2. CASE i \in DOMAIN out
          BY <1>6, <3>1, <4>1, <4>3, <5>2
        <5> QED
          BY <1>6, <5>1, <5>2
      <4> QED
        BY <1>6, <3>1, <3>4, <4>1, <4>3
    <3> QED
      BY <1>6, <3>3, <3>4
  <2> QED
    BY <2>1 DEF InOrder
<1>16. OvertookInv'
  <2>1. ASSUME NEW k \in DOMAIN out', NEW j \in DOMAIN out', k < j,
               out'[k].kind = "serial", out'[j].kind = "serial", out'[j].n < out'[k].n,
               NEW u \in Threads, NEW n \in hand'[u]
        PROVE  out'[k].n < n
    <3>1. k \in DOMAIN out /\ out'[k] = out[k] /\ out[k].n \in Nat /\ out[k].by \in Threads
      <4>1. k # l + 1
        BY <1>6, <2>1
      <4> QED
        BY <1>6, <1>9, <4>1
    <3>2. u = Other(t) /\ n \in hand[u]
      BY <1>20, <2>1
    <3>3. CASE j = l + 1
      <4>1. out[k].by # t
        BY <1>5, <1>6, <1>7, <2>1, <3>1, <3>3
      <4>2. out[k].by = u
        BY <3>1, <3>2, <4>1, ThreadsAre
      <4> QED
        BY <2>1, <3>1, <3>2, <4>2 DEF LInv, OrderInv, HandInv
    <3>4. CASE j \in DOMAIN out
      BY <1>6, <2>1, <3>1, <3>2, <3>4 DEF LInv, OrderInv, OvertookInv
    <3> QED
      BY <1>6, <3>3, <3>4
  <2> QED
    BY <2>1 DEF OvertookInv
<1>17. LinesComeAfter'
  <2>1. ASSUME NEW k \in DOMAIN out', out'[k].kind = "line", NEW n \in Missing(k)'
        PROVE /\ \A m \in Missing(k)' : m = n
              /\ \/ n \in hand'[Other(out'[k].by)]
                 \/ \E j \in DOMAIN out' :
                        k < j /\ IsSerial(j, n)' /\ out'[j].by = Other(out'[k].by)
    <3>1. k \in DOMAIN out /\ out'[k] = out[k] /\ out[k].kind = "line" /\ out[k].by \in Threads
      <4>1. k # l + 1
        BY <1>5, <1>6, <2>1
      <4> QED
        BY <1>6, <1>9, <2>1, <4>1
    <3>2. \A j \in 1 .. k - 1 : j \in DOMAIN out
      BY <1>6, <3>1
    <3>3. Missing(k)' = Missing(k)
      BY <1>6, <3>1, <3>2 DEF Missing, IsSerial
    <3>4. /\ \A m \in Missing(k) : m = n
          /\ \/ n \in hand[Other(out[k].by)]
             \/ \E j \in DOMAIN out :
                    k < j /\ IsSerial(j, n) /\ out[j].by = Other(out[k].by)
      BY <2>1, <3>1, <3>3 DEF LInv, LinesComeAfter
    <3>5. CASE n \in hand[Other(out[k].by)]
      <4>1. CASE Other(out[k].by) = t
        <5>1. n = x
          BY <1>7, <3>5, <4>1
        <5>2. IsSerial(l + 1, n)' /\ k < l + 1 /\ out'[l + 1].by = Other(out'[k].by)
          BY <1>5, <1>6, <3>1, <4>1, <5>1 DEF IsSerial
        <5> QED
          BY <1>6, <3>3, <3>4, <5>2
      <4>2. CASE Other(out[k].by) # t
        <5>1. n \in hand'[Other(out'[k].by)]
          BY <1>8, <3>1, <3>5, <4>2, ThreadsAre
        <5> QED
          BY <3>3, <3>4, <5>1
      <4> QED
        BY <4>1, <4>2
    <3>6. CASE \E j \in DOMAIN out : k < j /\ IsSerial(j, n) /\ out[j].by = Other(out[k].by)
      <4>1. \E j \in DOMAIN out' :
                k < j /\ IsSerial(j, n)' /\ out'[j].by = Other(out'[k].by)
        BY <1>6, <3>1, <3>6 DEF IsSerial
      <4> QED
        BY <3>3, <3>4, <4>1
    <3> QED
      BY <3>4, <3>5, <3>6
  <2> QED
    BY <2>1 DEF LinesComeAfter
<1>18. DrainedInv'
  <2>1. \A u \in Threads : hand'[u] # {} => hand[u] # {}
    BY <1>8
  <2> QED
    BY <1>2, <2>1 DEF LInv, DrainedInv
<1>19. EndInv'
  BY <1>2 DEF LInv, EndInv
<1> QED
  BY <1>10, <1>11, <1>12, <1>13, <1>14, <1>15, <1>16, <1>17, <1>18, <1>19 DEF LInv, OrderInv


LEMMA WriteLineKeeps == ASSUME LInv, NEW t \in Threads, WriteLine(t) PROVE LInv'
<1>1. /\ out \in Seq(Items) /\ queue \in Seq(Nat) /\ heard \in Nat /\ at \in [Threads -> Places]
      /\ hand \in [Threads -> SUBSET Nat] /\ known \in [Threads -> Nat]
  BY DEF LInv, TypesInv
<1>2. /\ queue' = queue /\ heard' = heard /\ hand' = hand /\ todo' = todo /\ pid' = pid
      /\ thread' = thread /\ at[t] \in {"write", "close"}
      /\ at' = [at EXCEPT ![t] = IF @ = "write" THEN "idle" ELSE "end"]
      /\ known' = [known EXCEPT ![t] = 0]
  BY DEF WriteLine, Machine
<1>3. PICK r : r = [kind |-> "line", n |-> known[t], by |-> t]
  OBVIOUS
<1>4. out' = Append(out, r)
  BY <1>3 DEF WriteLine, Writes
<1>5. r \in Items /\ r.kind = "line" /\ r.n = known[t] /\ r.by = t
  BY <1>1, <1>3 DEF Items
<1>6. PICK l \in Nat :
          /\ DOMAIN out = 1 .. l /\ DOMAIN out' = 1 .. l + 1 /\ out' \in Seq(Items)
          /\ out'[l + 1] = r /\ l + 1 \in DOMAIN out'
          /\ \A k \in DOMAIN out : k \in DOMAIN out' /\ out'[k] = out[k] /\ k < l + 1
          /\ \A k \in DOMAIN out' : k \in DOMAIN out \/ k = l + 1
  <2>1. PICK s1 : s1 = out'
    OBVIOUS
  <2>2. Adds(s1, out, r) /\ out \in Seq(Items) /\ r \in Items
    BY <1>1, <1>4, <1>5, <2>1 DEF Adds
  <2>3. \E l \in Nat :
           /\ DOMAIN out = 1 .. l /\ DOMAIN s1 = 1 .. l + 1 /\ s1 \in Seq(Items)
           /\ s1[l + 1] = r /\ l + 1 \in DOMAIN s1
           /\ \A k \in DOMAIN out : k \in DOMAIN s1 /\ s1[k] = out[k] /\ k < l + 1
           /\ \A k \in DOMAIN s1 : k \in DOMAIN out \/ k = l + 1
    BY ONLY <2>2, Appended
  <2> QED
    BY <2>1, <2>3
(* The console lines in the file are the same, at the same places. *)
<1>7. /\ \A n : \A k \in DOMAIN out' : IsSerial(k, n)' <=> (k \in DOMAIN out /\ IsSerial(k, n))
      /\ \A k \in DOMAIN out' : out'[k].kind = "serial" => k \in DOMAIN out /\ out'[k] = out[k]
  <2>1. \A k \in DOMAIN out' : out'[k].kind = "serial" => k \in DOMAIN out /\ out'[k] = out[k]
    BY <1>5, <1>6
  <2> QED
    BY <1>6, <2>1 DEF IsSerial
<1>8. /\ \A u \in Threads : u # t => at'[u] = at[u] /\ known'[u] = known[u]
      /\ at'[t] \in {"idle", "end"} /\ known'[t] = 0 /\ hand[t] = {}
      /\ at' \in [Threads -> Places] /\ known' \in [Threads -> Nat]
  <2>1. hand[t] = {}
    BY <1>2 DEF LInv, DrainedInv
  <2> QED
    BY <1>1, <1>2, <2>1 DEF Places
<1>9. TypesInv'
  BY <1>2, <1>6, <1>8 DEF LInv, TypesInv
<1>10. PlacedInv'
  <2>1. ASSUME NEW n \in 1 .. heard
        PROVE \/ \E k \in DOMAIN out' : IsSerial(k, n)'
              \/ \E i \in DOMAIN queue : queue[i] = n
              \/ \E u \in Threads : n \in hand[u]
    <3>1. CASE \E k \in DOMAIN out : IsSerial(k, n)
      BY <1>6, <3>1 DEF IsSerial
    <3> QED
      BY <3>1 DEF LInv, OrderInv, PlacedInv
  <2> QED
    BY <1>2, <2>1 DEF PlacedInv
<1>11. QueueInv' /\ HandInv' /\ OvertookInv'
  BY <1>2, <1>7 DEF LInv, OrderInv, QueueInv, HandInv, OvertookInv
<1>12. FileInv'
  <2>1. ASSUME NEW k \in DOMAIN out', out'[k].kind = "serial"
        PROVE  /\ out'[k].n \in 1 .. heard
               /\ \A j \in DOMAIN out' : out'[j].kind = "serial" /\ out'[j].n = out'[k].n => j = k
    BY <1>7, <2>1 DEF LInv, OrderInv, FileInv, IsSerial
  <2> QED
    BY <1>2, <2>1 DEF FileInv, IsSerial
<1>13. InOrder'
  BY <1>7 DEF LInv, OrderInv, InOrder
<1>14. LinesComeAfter'
  <2>1. ASSUME NEW k \in DOMAIN out', out'[k].kind = "line"
        PROVE \A n \in Missing(k)' :
                 /\ \A m \in Missing(k)' : m = n
                 /\ \/ n \in hand[Other(out'[k].by)]
                    \/ \E j \in DOMAIN out' :
                           k < j /\ IsSerial(j, n)' /\ out'[j].by = Other(out'[k].by)
    <3>1. CASE k = l + 1
      <4>1. \A n \in Missing(k)' : n \in 1 .. known[t] /\ ~ \E j \in DOMAIN out : IsSerial(j, n)
        BY <1>5, <1>6, <3>1 DEF Missing, IsSerial
      <4>2. \A n \in Missing(k)' : n \in hand[Other(t)]
        <5>1. ASSUME NEW n \in Missing(k)' PROVE n \in hand[Other(t)]
          <6>1. n \in 1 .. heard
            <7>1. known[t] \in Nat /\ known[t] <= heard
              BY <1>1 DEF LInv, DrainedInv
            <7> QED
              BY <1>1, <4>1, <5>1, <7>1
          <6>2. \A i \in DOMAIN queue : queue[i] # n
            <7>1. \A i \in DOMAIN queue : known[t] < queue[i] /\ queue[i] \in Nat
              BY <1>1, <1>2 DEF LInv, DrainedInv
            <7> QED
              BY <1>1, <4>1, <5>1, <7>1
          <6>3. \E u \in Threads : n \in hand[u]
            BY <4>1, <5>1, <6>1, <6>2 DEF LInv, OrderInv, PlacedInv
          <6> QED
            BY <1>8, <6>3, ThreadsAre
        <5> QED
          BY <5>1
      <4>3. \A n \in hand[Other(t)] : \A m \in hand[Other(t)] : m = n
        BY ThreadsAre DEF LInv, OrderInv, HandInv
      <4> QED
        BY <1>5, <1>6, <3>1, <4>2, <4>3
    <3>2. CASE k \in DOMAIN out
      <4>1. out'[k] = out[k] /\ out[k].kind = "line" /\ \A j \in 1 .. k - 1 : j \in DOMAIN out
        BY <1>6, <2>1, <3>2
      <4>2. Missing(k)' = Missing(k)
        BY <1>6, <4>1 DEF Missing, IsSerial
      <4>3. ASSUME NEW n \in Missing(k)
            PROVE  /\ \A m \in Missing(k) : m = n
                   /\ \/ n \in hand[Other(out[k].by)]
                      \/ \E j \in DOMAIN out :
                             k < j /\ IsSerial(j, n) /\ out[j].by = Other(out[k].by)
        BY <3>2, <4>1 DEF LInv, LinesComeAfter
      <4>4. \A n : (\E j \in DOMAIN out : k < j /\ IsSerial(j, n) /\ out[j].by = Other(out[k].by)) =>
                   (\E j \in DOMAIN out' :
                        k < j /\ IsSerial(j, n)' /\ out'[j].by = Other(out'[k].by))
        BY <1>6, <4>1 DEF IsSerial
      <4> QED
        BY <4>1, <4>2, <4>3, <4>4
    <3> QED
      BY <1>6, <3>1, <3>2
  <2> QED
    BY <1>2, <2>1 DEF LinesComeAfter
<1>15. DrainedInv'
  <2>1. ASSUME NEW u \in Threads
        PROVE /\ known'[u] <= heard
              /\ hand[u] # {} => at'[u] \in {"line", "inside", "leave", "killed"}
              /\ at'[u] \in {"write", "close"} => \A i \in DOMAIN queue : known'[u] < queue[i]
    <3>1. CASE u = t
      BY <1>1, <1>8, <3>1
    <3>2. CASE u # t
      BY <1>8, <3>2 DEF LInv, DrainedInv
    <3> QED
      BY <3>1, <3>2
  <2> QED
    BY <1>2, <2>1 DEF DrainedInv
<1>16. EndInv'
  <2>1. CASE t = "main"
    BY <1>1, <1>2, <1>8, <2>1 DEF LInv, EndInv
  <2>2. CASE t # "main"
    BY <1>2, <1>8, <2>2, ThreadsAre DEF LInv, EndInv
  <2> QED
    BY <2>1, <2>2
<1> QED
  BY <1>9, <1>10, <1>11, <1>12, <1>13, <1>14, <1>15, <1>16 DEF LInv, OrderInv

(* A thread moves on, without a line taken or written. *)
LEMMA QuietKeeps ==
    ASSUME LInv, UNCHANGED file, TypesInv', DrainedInv', EndInv'
    PROVE  LInv'
BY SameFile DEF LInv

LEMMA FoundKeeps == ASSUME LInv, NEW t \in Threads, Found(t) PROVE LInv'
<1>1. /\ at \in [Threads -> Places] /\ at[t] \in {"line", "inside", "leave"} /\ hand[t] = {}
      /\ queue = <<>> /\ DOMAIN queue = {}
  BY DEF LInv, TypesInv, Found, Drains, Drained
<1>2. /\ UNCHANGED file /\ out' = out /\ queue' = queue /\ heard' = heard /\ hand' = hand
      /\ known' = known /\ todo' = todo /\ pid' = pid /\ thread' = thread
  BY DEF Found, Machine, file
<1>3. /\ \A u \in Threads : u # t => at'[u] = at[u]
      /\ at'[t] = CASE at[t] = "line"   -> "write"
                    [] at[t] = "leave"  -> "close"
                    [] at[t] = "inside" -> "idle"
      /\ DOMAIN at' = Threads /\ at' = [u \in Threads |-> at'[u]]
  BY <1>1 DEF Found
<1>4. /\ at'[t] \in {"write", "close", "idle"} /\ at' \in [Threads -> Places]
      /\ at'[t] = "close" <=> at[t] = "leave"
      /\ at'[t] = "idle" <=> at[t] = "inside"
  <2>1. CASE at[t] = "line"
    BY <1>1, <1>3, <2>1 DEF Places
  <2>2. CASE at[t] = "leave"
    BY <1>1, <1>3, <2>2 DEF Places
  <2>3. CASE at[t] = "inside"
    BY <1>1, <1>3, <2>3 DEF Places
  <2> QED
    BY <1>1, <2>1, <2>2, <2>3
<1>5. TypesInv'
  BY <1>2, <1>4 DEF LInv, TypesInv
<1>6. DrainedInv'
  <2>1. ASSUME NEW u \in Threads
        PROVE  hand[u] # {} => at'[u] \in {"line", "inside", "leave", "killed"}
    BY <1>1, <1>3 DEF LInv, DrainedInv
  <2> QED
    BY <1>1, <1>2, <2>1 DEF LInv, DrainedInv
<1>7. EndInv'
  <2>1. CASE t = "main"
    BY <1>1, <1>2, <1>4, <2>1 DEF LInv, EndInv
  <2>2. CASE t # "main"
    BY <1>2, <1>3, <2>2, ThreadsAre DEF LInv, EndInv
  <2> QED
    BY <2>1, <2>2
<1> QED
  BY <1>2, <1>5, <1>6, <1>7, QuietKeeps


(* Steps that leave the threads where they are, or only let the console or the
   machine go. *)
LEMMA FlagsKeep ==
    ASSUME LInv, \/ ThreadEnds \/ PowersOff \/ RaiseException \/ Unwind \/ Catch
                 \/ PrintSerialLogs \/ WaitForShutdown \/ UNCHANGED vars
    PROVE  LInv'
<1>1. UNCHANGED file /\ at' = at /\ known' = known /\ todo' = todo
  BY DEF ThreadEnds, PowersOff, RaiseException, Unwind, Catch, PrintSerialLogs, WaitForShutdown,
     Machine, vars
<1>2. TypesInv' /\ DrainedInv'
  BY <1>1 DEF LInv, TypesInv, DrainedInv, file
<1>3. (pid' => pid) /\ (thread' => thread)
  BY DEF ThreadEnds, PowersOff, RaiseException, Unwind, Catch, PrintSerialLogs, WaitForShutdown,
     Machine, Script, vars
<1>4. EndInv'
  BY <1>1, <1>3 DEF LInv, EndInv, file
<1> QED
  BY <1>1, <1>2, <1>4, QuietKeeps

(* Thread t logs a line, or leaves an element. *)
LEMMA LogsKeep ==
    ASSUME LInv, NEW t \in Threads, NEW w \in {"line", "leave"}, Logs(t, w), UNCHANGED file,
           at[t] = "idle", todo' \in [Threads -> Parts], EndInv'
    PROVE  LInv'
<1>1. /\ at \in [Threads -> Places] /\ known \in [Threads -> Nat] /\ heard \in Nat
      /\ heard' = heard /\ queue' = queue /\ hand' = hand
  BY DEF LInv, TypesInv, file
<1>2. /\ at' \in [Threads -> Places] /\ known' \in [Threads -> Nat]
      /\ at'[t] \in {"line", "leave"} /\ known'[t] = heard
      /\ \A u \in Threads : u # t => at'[u] = at[u] /\ known'[u] = known[u]
  BY <1>1 DEF Logs, Places
<1>3. TypesInv'
  BY <1>1, <1>2 DEF LInv, TypesInv, file
<1>4. DrainedInv'
  <2>1. ASSUME NEW u \in Threads
        PROVE /\ known'[u] <= heard
              /\ hand[u] # {} => at'[u] \in {"line", "inside", "leave", "killed"}
              /\ at'[u] \in {"write", "close"} => \A i \in DOMAIN queue : known'[u] < queue[i]
    <3>1. CASE u = t
      BY <1>1, <1>2, <3>1
    <3>2. CASE u # t
      BY <1>2, <3>2 DEF LInv, DrainedInv
    <3> QED
      BY <3>1, <3>2
  <2> QED
    BY <1>1, <2>1 DEF DrainedInv
<1> QED
  BY <1>3, <1>4, QuietKeeps

(* Thread t opens an element. *)
LEMMA OpensKeep ==
    ASSUME LInv, NEW t \in Threads, Opens(t), UNCHANGED file, known' = known,
           todo' \in [Threads -> Parts], EndInv'
    PROVE  LInv'
<1>1. /\ at \in [Threads -> Places] /\ heard' = heard /\ queue' = queue /\ hand' = hand
  BY DEF LInv, TypesInv, file
<1>2. /\ at' \in [Threads -> Places] /\ at'[t] = "inside"
      /\ \A u \in Threads : u # t => at'[u] = at[u]
  BY <1>1 DEF Opens, Places
<1>3. TypesInv'
  BY <1>1, <1>2 DEF LInv, TypesInv, file
<1>4. DrainedInv'
  <2>1. ASSUME NEW u \in Threads
        PROVE /\ hand[u] # {} => at'[u] \in {"line", "inside", "leave", "killed"}
              /\ at'[u] \in {"write", "close"} => \A i \in DOMAIN queue : known[u] < queue[i]
    <3>1. CASE u = t
      BY <1>2, <3>1
    <3>2. CASE u # t
      BY <1>2, <3>2 DEF LInv, DrainedInv
    <3> QED
      BY <3>1, <3>2
  <2> QED
    BY <1>1, <2>1 DEF LInv, DrainedInv
<1> QED
  BY <1>3, <1>4, QuietKeeps

LEMMA ScriptKeeps == ASSUME LInv, Log \/ Nest \/ Leave \/ Cleanup PROVE LInv'
<1>1. /\ at \in [Threads -> Places] /\ todo \in [Threads -> Parts] /\ "main" \in Threads
      /\ todo["main"] = "script" /\ at["main"] = "idle" /\ UNCHANGED file
  BY ThreadsAre DEF LInv, TypesInv, Log, Nest, Leave, Cleanup, Script, file
<1>2. todo' \in [Threads -> Parts] /\ todo'["main"] \in {"script", "cancel"}
  BY <1>1 DEF Log, Nest, Leave, Cleanup, Parts
<1>3. EndInv'
  BY <1>2 DEF EndInv
<1>4. CASE Log
  BY <1>1, <1>2, <1>3, <1>4, LogsKeep DEF Log
<1>5. CASE Leave
  BY <1>1, <1>2, <1>3, <1>5, LogsKeep DEF Leave
<1>6. CASE Nest \/ Cleanup
  <2>1. Opens("main") /\ known' = known
    BY <1>6 DEF Nest, Cleanup
  <2> QED
    BY <1>1, <1>2, <1>3, <2>1, OpensKeep
<1> QED
  BY <1>4, <1>5, <1>6

LEMMA FireKeeps == ASSUME LInv, Fire PROVE LInv'
<1>1. /\ at \in [Threads -> Places] /\ todo \in [Threads -> Parts] /\ UNCHANGED file
      /\ Opens("timer") /\ known' = known /\ UNCHANGED <<pid, thread>>
      /\ todo' = [todo EXCEPT !["timer"] = "release"]
  BY DEF LInv, TypesInv, Fire, Machine, file
<1>2. todo' \in [Threads -> Parts] /\ todo'["main"] = todo["main"] /\ at'["main"] = at["main"]
  BY <1>1 DEF Opens, Parts, Threads
<1>3. EndInv'
  BY <1>1, <1>2 DEF LInv, EndInv, file
<1> QED
  BY <1>1, <1>2, <1>3, OpensKeep, ThreadsAre

(* Steps of todo alone. *)
LEMMA TodoKeeps ==
    ASSUME LInv, UNCHANGED file, at' = at, known' = known, todo' \in [Threads -> Parts], EndInv'
    PROVE  LInv'
<1>1. TypesInv' /\ DrainedInv'
  BY DEF LInv, TypesInv, DrainedInv, file
<1> QED
  BY <1>1, QuietKeeps

LEMMA CancelKeeps == ASSUME LInv, Cancel PROVE LInv'
<1>1. /\ todo \in [Threads -> Parts] /\ UNCHANGED file /\ at' = at /\ known' = known
      /\ todo["main"] \in {"script", "cancel"}
      /\ todo' = [t \in Threads |-> CASE todo[t] = "set"    -> "off"
                                      [] todo[t] = "cancel" -> "release"
                                      [] OTHER              -> todo[t]]
  BY DEF LInv, TypesInv, Cancel
<1>2. todo' \in [Threads -> Parts] /\ todo'["main"] \in {"script", "release"}
  <2>1. ASSUME NEW t \in Threads PROVE todo'[t] \in Parts
    BY <1>1 DEF Parts
  <2>2. todo'["main"] \in {"script", "release"}
    BY <1>1, ThreadsAre
  <2>3. todo' = [t \in Threads |-> todo'[t]]
    BY <1>1
  <2> QED
    BY <2>1, <2>2, <2>3
<1>3. EndInv'
  BY <1>2 DEF EndInv
<1> QED
  BY <1>1, <1>2, <1>3, TodoKeeps

LEMMA EndingKeeps == ASSUME LInv, NEW t \in Threads, Ending(t) PROVE LInv'
<1>1. /\ todo \in [Threads -> Parts] /\ at[t] = "idle" /\ UNCHANGED file /\ queue' = queue
      /\ pid' = pid /\ thread' = thread
  BY DEF LInv, TypesInv, Ending, Release, Released, Terminate, Join, Machine, file
<1>2. PICK p \in Parts : todo' = [todo EXCEPT ![t] = p]
  BY DEF Ending, Release, Released, Terminate, Join, Parts
<1>3. p = "done" => ~pid \/ ~thread
  BY <1>1, <1>2 DEF Ending, Release, Released, Terminate, Join, Joined
<1>4. p # "over"
  BY <1>1, <1>2 DEF Ending, Release, Released, Terminate, Join
<1>5. todo' \in [Threads -> Parts] /\ todo'[t] = p /\ \A u \in Threads : u # t => todo'[u] = todo[u]
  BY <1>1, <1>2
<1>6. CASE Release(t)
  <2>1. p = "terminate" /\ Logs(t, "line")
    BY <1>1, <1>2, <1>5, <1>6 DEF Release
  <2>2. EndInv'
    <3>1. CASE t = "main"
      BY <1>5, <2>1, <3>1 DEF EndInv
    <3>2. CASE t # "main"
      <4>1. todo'["main"] = todo["main"] /\ at'["main"] = at["main"]
        BY <1>5, <2>1, <3>2, ThreadsAre DEF Logs, LInv, TypesInv
      <4> QED
        BY <1>1, <4>1 DEF LInv, EndInv
    <3> QED
      BY <3>1, <3>2
  <2> QED
    BY <1>1, <1>5, <2>1, <2>2, LogsKeep
<1>7. CASE ~Release(t)
  <2>1. at' = at /\ known' = known
    BY <1>7 DEF Ending, Released, Terminate, Join
  <2>2. EndInv'
    <3>1. CASE t = "main"
      BY <1>1, <1>3, <1>4, <1>5, <2>1, <3>1 DEF EndInv
    <3>2. CASE t # "main"
      <4>1. todo'["main"] = todo["main"]
        BY <1>5, <3>2, ThreadsAre
      <4> QED
        BY <1>1, <2>1, <4>1 DEF LInv, EndInv
    <3> QED
      BY <3>1, <3>2
  <2> QED
    BY <1>1, <1>5, <2>1, <2>2, TodoKeeps
<1> QED
  BY <1>6, <1>7

LEMMA ExitKeeps == ASSUME LInv, Exit PROVE LInv'
<1>1. /\ at \in [Threads -> Places] /\ todo \in [Threads -> Parts] /\ "main" \in Threads
      /\ todo["main"] = "done" /\ at["main"] = "idle" /\ UNCHANGED file /\ Logs("main", "leave")
      /\ todo' = todo /\ UNCHANGED <<pid, thread>>
  BY ThreadsAre DEF LInv, TypesInv, Exit, Machine, file
<1>2. at'["main"] = "leave"
  BY <1>1 DEF Logs
<1>3. EndInv'
  BY <1>1, <1>2 DEF LInv, EndInv
<1> QED
  BY <1>1, <1>3, LogsKeep

LEMMA CloseKeeps == ASSUME LInv, NEW t \in Threads, Close(t) PROVE LInv'
<1>1. /\ at \in [Threads -> Places] /\ todo \in [Threads -> Parts] /\ at[t] = "end"
      /\ UNCHANGED file /\ heard' = heard /\ queue' = queue /\ hand' = hand /\ known' = known
      /\ pid' = pid /\ thread' = thread
      /\ at' = [at EXCEPT ![t] = "idle"]
      /\ todo' = [todo EXCEPT ![t] = IF @ = "done" THEN "over" ELSE @]
  BY DEF LInv, TypesInv, Close, Machine, file
<1>2. /\ at' \in [Threads -> Places] /\ at'[t] = "idle"
      /\ \A u \in Threads : u # t => at'[u] = at[u] /\ todo'[u] = todo[u]
      /\ todo' \in [Threads -> Parts]
      /\ todo'[t] = IF todo[t] = "done" THEN "over" ELSE todo[t]
  BY <1>1 DEF Places, Parts
<1>3. TypesInv'
  BY <1>1, <1>2 DEF LInv, TypesInv, file
<1>4. DrainedInv'
  <2>1. ASSUME NEW u \in Threads
        PROVE /\ hand[u] # {} => at'[u] \in {"line", "inside", "leave", "killed"}
              /\ at'[u] \in {"write", "close"} => \A i \in DOMAIN queue : known[u] < queue[i]
    <3>1. CASE u = t
      BY <1>1, <1>2, <3>1 DEF LInv, DrainedInv
    <3>2. CASE u # t
      BY <1>2, <3>2 DEF LInv, DrainedInv
    <3> QED
      BY <3>1, <3>2
  <2> QED
    BY <1>1, <2>1 DEF LInv, DrainedInv
<1>5. EndInv'
  <2>1. CASE t = "main"
    BY <1>1, <1>2, <2>1 DEF LInv, EndInv
  <2>2. CASE t # "main"
    BY <1>1, <1>2, <2>2, ThreadsAre DEF LInv, EndInv
  <2> QED
    BY <2>1, <2>2
<1> QED
  BY <1>1, <1>3, <1>4, <1>5, QuietKeeps

LEMMA KillKeeps == ASSUME LInv, Kill PROVE LInv'
<1>1. /\ UNCHANGED file /\ heard' = heard /\ queue' = queue /\ hand' = hand /\ known' = known
      /\ \A u \in Threads : at'[u] = "killed" /\ todo'[u] = "killed"
      /\ at' \in [Threads -> Places] /\ todo' \in [Threads -> Parts]
  BY DEF Kill, file, Places, Parts
<1>2. TypesInv'
  BY <1>1 DEF LInv, TypesInv, file
<1>3. DrainedInv'
  BY <1>1 DEF LInv, DrainedInv
<1>4. EndInv'
  BY <1>1, ThreadsAre DEF EndInv
<1> QED
  BY <1>1, <1>2, <1>3, <1>4, QuietKeeps

LEMMA NextKeepsLog == LInv /\ [Next]_vars => LInv'
<1> SUFFICES ASSUME LInv, [Next]_vars PROVE LInv'
  OBVIOUS
<1>1. CASE \E t \in Threads : Logger(t) \/ Ending(t)
  <2>1. PICK t \in Threads : Logger(t) \/ Ending(t)
    BY <1>1
  <2> QED
    BY <2>1, TakeKeeps, WriteTakenKeeps, FoundKeeps, WriteLineKeeps, CloseKeeps, EndingKeeps
       DEF Logger
<1>2. CASE \/ ThreadEnds \/ PowersOff \/ RaiseException \/ Unwind \/ Catch
           \/ PrintSerialLogs \/ WaitForShutdown \/ UNCHANGED vars
  BY <1>2, FlagsKeep
<1>3. CASE LogSerial \/ Log \/ Nest \/ Leave \/ Cleanup \/ Cancel \/ Fire \/ Exit \/ Kill
  BY <1>3, LogSerialKeeps, ScriptKeeps, CancelKeeps, FireKeeps, ExitKeeps, KillKeeps
<1> QED
  BY <1>1, <1>2, <1>3 DEF Next

LEMMA LogInvariance == Spec => []LInv
<1> QED
  BY InitLog, NextKeepsLog, PTL DEF Spec

-----------------------------------------------------------------------------

(* Where a line is, it is once, and nowhere else. *)
LEMMA InvMeansOnce == LInv => EachOnce
<1> SUFFICES ASSUME LInv PROVE EachOnce
  OBVIOUS
<1>1. /\ queue \in Seq(Nat) /\ hand \in [Threads -> SUBSET Nat]
      /\ \A i \in DOMAIN queue : queue[i] \in Nat /\ i \in Nat
      /\ PlacedInv /\ QueueInv /\ HandInv /\ FileInv
  BY DEF LInv, TypesInv, OrderInv
<1>2. ASSUME NEW n \in 1 .. heard PROVE \E c \in Copies(n) : Copies(n) = {c}
  <2>1. PICK F, Q, H : /\ F = {i \in DOMAIN out : IsSerial(i, n)}
                       /\ Q = {i \in DOMAIN queue : queue[i] = n}
                       /\ H = {t \in Threads : n \in hand[t]}
    OBVIOUS
  <2>2. Copies(n) = {<<"file", k>> : k \in F} \cup {<<"queue", i>> : i \in Q}
                    \cup {<<"hand", t>> : t \in H}
    BY <2>1 DEF Copies
  <2>3. CASE \E k \in DOMAIN out : IsSerial(k, n)
    <3>1. PICK k \in DOMAIN out : IsSerial(k, n)
      BY <2>3
    <3>2. F = {k}
      BY <1>1, <2>1, <3>1 DEF FileInv, IsSerial
    <3>3. Q = {}
      BY <1>1, <2>1, <3>1 DEF QueueInv, IsSerial
    <3>4. H = {}
      BY <1>1, <2>1, <3>1 DEF HandInv, IsSerial
    <3>5. Copies(n) = {<<"file", k>>}
      BY <2>2, <3>2, <3>3, <3>4
    <3> QED
      BY <3>5
  <2>4. CASE \E i \in DOMAIN queue : queue[i] = n
    <3>1. PICK i \in DOMAIN queue : queue[i] = n
      BY <2>4
    <3>2. F = {}
      BY <1>1, <2>1, <3>1 DEF QueueInv, IsSerial
    <3>3. Q = {i}
      <4>1. ASSUME NEW j \in DOMAIN queue, queue[j] = n PROVE j = i
        BY <1>1, <3>1, <4>1 DEF QueueInv
      <4> QED
        BY <2>1, <3>1, <4>1
    <3>4. H = {}
      BY <1>1, <2>1, <3>1 DEF QueueInv
    <3>5. Copies(n) = {<<"queue", i>>}
      BY <2>2, <3>2, <3>3, <3>4
    <3> QED
      BY <3>5
  <2>5. CASE \E t \in Threads : n \in hand[t]
    <3>1. PICK t \in Threads : n \in hand[t]
      BY <2>5
    <3>2. F = {}
      BY <1>1, <2>1, <3>1 DEF HandInv, IsSerial
    <3>3. Q = {}
      BY <1>1, <2>1, <3>1 DEF QueueInv
    <3>4. H = {t}
      BY <1>1, <2>1, <3>1, ThreadsAre DEF HandInv
    <3>5. Copies(n) = {<<"hand", t>>}
      BY <2>2, <3>2, <3>3, <3>4
    <3> QED
      BY <3>5
  <2> QED
    BY <1>1, <2>3, <2>4, <2>5 DEF PlacedInv
<1>3. \A k \in DOMAIN out : out[k].kind = "serial" => out[k].n \in 1 .. heard
  BY <1>1 DEF FileInv
<1> QED
  BY <1>2, <1>3 DEF EachOnce

(* Console lines are neither lost on the way to the file nor doubled, though the
   main thread and the timer's may empty the queue at the same time: what leaves
   the queue is in the hand of one of them until that one has written it
   (log_serial, drain_log_queue). *)
THEOREM NoLineIsLostOrDoubled == Spec => []EachOnce
<1> QED
  BY InvMeansOnce, LogInvariance, PTL

(* A console line comes after a later one only if another thread wrote it, and
   no line overtakes two (drain_log_queue). *)
THEOREM AtMostOneIsOvertaken == Spec => []InOrder
<1>1. LInv => InOrder
  BY DEF LInv, OrderInv
<1> QED
  BY <1>1, LogInvariance, PTL

(* A line of either thread comes after every console line that was heard before
   it was logged, but for one at most, which the other thread holds or writes
   later (log, nested). *)
THEOREM TheLogIsCauseAndEffect == Spec => []LinesComeAfter
<1>1. LInv => LinesComeAfter
  BY DEF LInv
<1> QED
  BY <1>1, LogInvariance, PTL

(* When the driver is done, what the console of a machine with a pid said is in
   the log, or in the hand of the timer's thread: the console's thread is joined
   before the last element is closed, which empties the queue (Driver.__exit__,
   Machine.release). *)
THEOREM TheLastLinesArrive == Spec => []NothingLost
<1>1. LInv => NothingLost
  <2> SUFFICES ASSUME LInv, todo["main"] = "over", pid
               PROVE  /\ ~thread
                      /\ \A n \in 1 .. heard :
                             (\E k \in DOMAIN out : IsSerial(k, n)) \/ n \in hand["timer"]
    BY DEF NothingLost
  <2>1. ~thread /\ queue = <<>> /\ DOMAIN queue = {} /\ at["main"] = "idle"
    BY DEF LInv, EndInv
  <2>2. hand["main"] = {}
    BY <2>1, ThreadsAre DEF LInv, DrainedInv
  <2> QED
    BY <2>1, <2>2, ThreadsAre DEF LInv, OrderInv, PlacedInv, Threads
<1> QED
  BY <1>1, LogInvariance, PTL

=============================================================================
