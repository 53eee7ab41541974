------------------------------ MODULE PlaneProofs ------------------------------
(***************************************************************************)
(* What the event plane keeps, wherever the daemon or the A2A server stops *)
(* between two of their appends, in every instance: a completed request is *)
(* settled (Orderly), what a post left was vetted (Orderly2), and what the *)
(* daemon took in has its effect, once (Orderly3).                         *)
(***************************************************************************)
EXTENDS PlaneProps, FiniteSetTheorems, TLAPS

-------------------------------------------------------------------------------
(* The invariant *)

\* The files hold records, and calls are made of steps; what else they hold does not
\* matter here.
Records ==
    /\ \E S : requests \in Seq([session : S, run : S, policy : S, ref : S,
                                status : {"pending", "completed"}])
    /\ waits \in Seq({"none", "waiting", "satisfied"}) /\ Len(waits) = Len(requests)
    /\ \E S : items \in Seq([req : S, by : S, key : S, text : S, ref : S, life : S, status : S,
                             wake : S])

StepsOver(S) == [do : S, n : S, run : S]
Called == \E S : todo \in [Callers -> Seq(StepsOver(S))]

\* Steps that say nothing of a request.
Plain == {"item", "wake", "event", "note", "launch", "final", "park"}

\* Whose wait is still to be entered is pending; the A2A server only begins tasks.
Beginning ==
    \A p \in Callers : \A k \in 1..Len(todo[p]) :
        /\ todo[p][k].do = "wait" =>
             todo[p][k].n \in Requests /\ requests[todo[p][k].n].status = "pending"
        /\ p # "daemon" => todo[p][k].do \in {"wait"} \cup Plain

\* The k-th step of the daemon's call is part of taking in a result of i.
Call == todo["daemon"]
Concerns(k, i) ==
    \/ Call[k].do \in {"settle", "complete"} /\ Call[k].n = i
    \/ Call[k].do = "result" /\ items[Call[k].n].req = i

\* Whatever has to be on disk before a request is completed is there, or is ahead of it.
Named(k) ==
    /\ Call[k].do = "result" =>
         Call[k].n \in 1..Len(items) /\ items[Call[k].n].req \in Requests
    /\ Call[k].do \in {"settle", "complete"} => Call[k].n \in Requests
SettledBefore(k, i) ==
    \/ waits[i] # "waiting"
    \/ \E l \in 1..k - 1 : Call[l].do = "settle" /\ Call[l].n = i
RecordedBefore(k, i) ==
    \/ \E x \in results : x.req = i
    \/ \E l \in 1..k - 1 : Call[l].do = "result" /\ items[Call[l].n].req = i
Prepared(k, i) ==
    /\ Concerns(k, i) => Announced(i)
    /\ Call[k].do = "complete" /\ Call[k].n = i => SettledBefore(k, i) /\ RecordedBefore(k, i)
Ending ==
    /\ \A k \in 1..Len(Call) : Named(k)
    /\ \A i \in Requests : \A k \in 1..Len(Call) : Prepared(k, i)

Orderly == Records /\ Called /\ Beginning /\ Ending /\ CompletedIsSettled

-------------------------------------------------------------------------------
(* What keeps it *)

\* Records of more kinds make no file another.
LEMMA Wider == ASSUME NEW A, NEW B, A \subseteq B, NEW s \in Seq(A) PROVE s \in Seq(B)
<1>1. Len(s) \in Nat /\ s = [k \in 1..Len(s) |-> s[k]] /\ \A k \in 1..Len(s) : s[k] \in B
  OBVIOUS
<1> QED BY <1>1

\* What a file holds at a position is a record of it.
LEMMA At == ASSUME NEW A, NEW s \in Seq(A), NEW k \in 1..Len(s) PROVE s[k] \in A
OBVIOUS

\* Items stay the items of their requests.
ItemsKept ==
    /\ Len(items') >= Len(items)
    /\ \A j \in 1..Len(items) : items'[j].req = items[j].req

\* Of the same files.
LEMMA SameFiles ==
    ASSUME Orderly, UNCHANGED <<requests, waits, items>> PROVE Records' /\ ItemsKept
<1>1. Records' BY DEF Orderly, Records
<1>2. Len(items) \in Nat BY DEF Orderly, Records
<1> QED BY <1>1, <1>2 DEF ItemsKept

\* A record of a file replaced by another of its kind.
LEMMA Replaced ==
    ASSUME NEW A, NEW s \in Seq(A), NEW n, NEW v, n \in 1..Len(s) => v \in A
    PROVE  /\ [s EXCEPT ![n] = v] \in Seq(A) /\ Len([s EXCEPT ![n] = v]) = Len(s)
           /\ n \in 1..Len(s) => [s EXCEPT ![n] = v][n] = v
           /\ \A k \in 1..Len(s) \ {n} : [s EXCEPT ![n] = v][k] = s[k]
<1>1. CASE n \in 1..Len(s) BY <1>1
<1>2. CASE n \notin 1..Len(s)
  <2>1. [s EXCEPT ![n] = v] = s BY <1>2
  <2> QED BY <1>2, <2>1
<1> QED BY <1>1, <1>2

\* A call replaced by steps that say nothing of a request.
LEMMA PlainCall ==
    ASSUME Orderly, NEW S, NEW ss \in Seq(StepsOver(S)), Steps("daemon", ss),
           \A k \in 1..Len(ss) : ss[k].do \in Plain,
           UNCHANGED <<requests, waits, results, items>>
    PROVE  Orderly'
<1>1. Called'
  <2>1. PICK T : todo \in [Callers -> Seq(StepsOver(T))] BY DEF Orderly, Called
  <2> DEFINE U == S \cup T
  <2>2. StepsOver(S) \subseteq StepsOver(U) /\ StepsOver(T) \subseteq StepsOver(U)
    BY DEF StepsOver
  <2>3. ss \in Seq(StepsOver(U)) BY <2>2, Wider
  <2>4. \A p \in Callers : todo[p] \in Seq(StepsOver(U)) BY <2>1, <2>2, Wider
  <2>5. todo' \in [Callers -> Seq(StepsOver(U))] BY <2>1, <2>3, <2>4 DEF Steps
  <2> QED BY <2>5 DEF Called
<1>2. todo'["daemon"] = ss /\ \A p \in Callers \ {"daemon"} : todo'[p] = todo[p]
  BY DEF Orderly, Called, Steps, Callers
<1>3. \A i : Announced(i) => Announced(i)' BY <1>2 DEF Announced, Plain, Callers
<1>4. Beginning' BY <1>2 DEF Orderly, Beginning, Plain, Requests
<1>5. Ending' BY <1>2 DEF Ending, Named, Prepared, Concerns, Call, Plain
<1> QED BY <1>1, <1>4, <1>5 DEF Orderly, Records, CompletedIsSettled, Requests

\* A call goes on by one step; the step's own effect is shown to keep what is asked.
LEMMA NextOfCall ==
    ASSUME Orderly, NEW p \in Callers, todo[p] # <<>>, Done(p),
           Records', ItemsKept, requests' = requests,
           \A i \in Requests : waits'[i] = "waiting" =>
              waits[i] = "waiting" \/ (Head(todo[p]).do = "wait" /\ Head(todo[p]).n = i),
           results \subseteq results',
           p = "daemon" /\ Head(todo[p]).do = "settle" => waits'[Head(todo[p]).n] # "waiting",
           p = "daemon" /\ Head(todo[p]).do = "result" =>
              \E x \in results' : x.req = items[Head(todo[p]).n].req
    PROVE  Orderly'
<1>0. PICK S : todo \in [Callers -> Seq(StepsOver(S))] BY DEF Orderly, Called
<1>1. /\ todo[p] \in Seq(StepsOver(S)) /\ Len(todo[p]) \in Nat \ {0}
      /\ Tail(todo[p]) \in Seq(StepsOver(S)) /\ Len(Tail(todo[p])) = Len(todo[p]) - 1
      /\ \A k \in 1..Len(todo[p]) - 1 : Tail(todo[p])[k] = todo[p][k + 1]
      /\ Head(todo[p]) = todo[p][1]
  BY <1>0
<1>2. todo'[p] = Tail(todo[p]) /\ \A q \in Callers \ {p} : todo'[q] = todo[q]
  BY <1>0 DEF Done
<1>3. Called'
  <2>1. todo' \in [Callers -> Seq(StepsOver(S))] BY <1>0, <1>1 DEF Done
  <2> QED BY <2>1 DEF Called
<1>4. \A q \in Callers : \A k \in 1..Len(todo'[q]) :
        \E l \in 1..Len(todo[q]) : todo'[q][k] = todo[q][l]
  <2>1. ASSUME NEW k \in 1..Len(todo'[p])
        PROVE  k + 1 \in 1..Len(todo[p]) /\ todo'[p][k] = todo[p][k + 1]
    BY <1>1, <1>2
  <2>2. ASSUME NEW q \in Callers \ {p}, NEW k \in 1..Len(todo'[q])
        PROVE  k \in 1..Len(todo[q]) /\ todo'[q][k] = todo[q][k]
    BY <1>2, <2>2
  <2>3. ASSUME NEW q \in Callers, NEW k \in 1..Len(todo'[q])
        PROVE  \E l \in 1..Len(todo[q]) : todo'[q][k] = todo[q][l]
    <3>1. CASE q = p BY <2>1, <3>1
    <3>2. CASE q # p BY <2>2, <3>2
    <3> QED BY <3>1, <3>2
  <2> QED BY <2>3
<1>5. \A i : Announced(i) => Announced(i)' BY <1>4 DEF Announced
<1>6. Beginning'
  <2> SUFFICES ASSUME NEW q \in Callers, NEW k \in 1..Len(todo'[q])
               PROVE  /\ todo'[q][k].do = "wait" =>
                           todo'[q][k].n \in Requests'
                              /\ requests'[todo'[q][k].n].status = "pending"
                      /\ q # "daemon" => todo'[q][k].do \in {"wait"} \cup Plain
    BY DEF Beginning
  <2>1. PICK l \in 1..Len(todo[q]) : todo'[q][k] = todo[q][l] BY <1>4
  <2> QED BY <2>1 DEF Orderly, Beginning, Requests
<1>7. \A i \in Requests : Announced(i) /\ waits'[i] = "waiting" => waits[i] = "waiting"
  <2> SUFFICES ASSUME NEW i \in Requests, Announced(i), Head(todo[p]).do = "wait",
                      Head(todo[p]).n = i
               PROVE  FALSE
    OBVIOUS
  <2> QED BY <1>1 DEF Announced
<1>8. Ending'
  <2>1. PICK o \in {0, 1} :
          /\ \A k \in 1..Len(Call') : k + o \in 1..Len(Call) /\ Call'[k] = Call[k + o]
          /\ o = 1 => p = "daemon" /\ Call[1] = Head(todo[p])
    <3>1. CASE p = "daemon"
      <4>1. /\ Len(Call') = Len(Call) - 1 /\ Len(Call) \in Nat
            /\ \A k \in 1..Len(Call) - 1 : Call'[k] = Call[k + 1]
        BY <1>1, <1>2, <3>1 DEF Call
      <4>2. Call[1] = Head(todo[p]) BY <1>1, <3>1 DEF Call
      <4> QED BY <3>1, <4>1, <4>2
    <3>2. CASE p # "daemon"
      <4>1. Call' = Call BY <1>2, <3>2 DEF Call, Callers
      <4>2. Len(Call) \in Nat BY <1>0 DEF Call, Callers
      <4> QED BY <4>1, <4>2
    <3> QED BY <3>1, <3>2
  <2>2. Len(items) \in Nat /\ Len(items') \in Nat BY DEF Orderly, Records
  <2>3. \A k \in 1..Len(Call) : Call[k].do = "result" =>
          Call[k].n \in 1..Len(items') /\ items'[Call[k].n].req = items[Call[k].n].req
    BY <2>2 DEF Orderly, Ending, Named, ItemsKept
  <2>4. ASSUME NEW k \in 1..Len(Call')
        PROVE  Named(k)'
    <3>1. k + o \in 1..Len(Call) /\ Call'[k] = Call[k + o] BY <2>1
    <3> QED BY <2>3, <3>1 DEF Orderly, Ending, Named, Requests
  <2>5. ASSUME NEW i \in Requests, NEW k \in 1..Len(Call')
        PROVE  Prepared(k, i)'
    <3>1. /\ k + o \in 1..Len(Call) /\ Call'[k] = Call[k + o] /\ k \in Nat /\ o \in {0, 1}
          /\ Len(Call') \in Nat /\ Len(Call) \in Nat
      <4>1. Len(Call') \in Nat /\ Len(Call) \in Nat BY <1>0, <1>1, <1>2 DEF Call, Callers
      <4> QED BY <2>1, <4>1
    <3>2. Concerns(k, i)' => Concerns(k + o, i) BY <2>3, <3>1 DEF Concerns
    <3>3. Prepared(k + o, i) BY <3>1 DEF Orderly, Ending
    <3>4. \A l \in 1..(k + o) - 1 :
            \/ o = 1 /\ l = 1
            \/ l - o \in 1..k - 1 /\ Call'[l - o] = Call[l] /\ l \in 1..Len(Call)
      <4> SUFFICES ASSUME NEW l \in 1..(k + o) - 1, ~(o = 1 /\ l = 1)
                   PROVE  l - o \in 1..k - 1 /\ Call'[l - o] = Call[l] /\ l \in 1..Len(Call)
        OBVIOUS
      <4>1. l - o \in 1..k - 1 /\ l - o \in 1..Len(Call') /\ l \in 1..Len(Call) BY <3>1
      <4>2. Call'[l - o] = Call[(l - o) + o] BY <2>1, <4>1
      <4> QED BY <3>1, <4>1, <4>2
    <3>5. ASSUME Call'[k].do = "complete", Call'[k].n = i
          PROVE  SettledBefore(k, i)'
      <4>1. Concerns(k + o, i) BY <3>1, <3>5 DEF Concerns
      <4>2. CASE waits[i] # "waiting"
        BY <1>7, <3>3, <4>1, <4>2 DEF Prepared, SettledBefore
      <4>3. ASSUME NEW l \in 1..(k + o) - 1, Call[l].do = "settle", Call[l].n = i
            PROVE  SettledBefore(k, i)'
        <5>1. CASE o = 1 /\ l = 1 BY <2>1, <4>3, <5>1 DEF SettledBefore
        <5>2. CASE ~(o = 1 /\ l = 1)
          <6>1. l - o \in 1..k - 1 /\ Call'[l - o] = Call[l] BY <3>4, <5>2
          <6> QED BY <4>3, <6>1 DEF SettledBefore
        <5> QED BY <5>1, <5>2
      <4> QED BY <3>1, <3>3, <3>5, <4>2, <4>3 DEF Prepared, SettledBefore
    <3>6. ASSUME Call'[k].do = "complete", Call'[k].n = i
          PROVE  RecordedBefore(k, i)'
      <4>1. CASE \E x \in results : x.req = i BY <4>1 DEF RecordedBefore
      <4>2. ASSUME NEW l \in 1..(k + o) - 1, Call[l].do = "result", items[Call[l].n].req = i
            PROVE  RecordedBefore(k, i)'
        <5>1. CASE o = 1 /\ l = 1 BY <2>1, <4>2, <5>1 DEF RecordedBefore
        <5>2. CASE ~(o = 1 /\ l = 1)
          <6>1. l - o \in 1..k - 1 /\ Call'[l - o] = Call[l] /\ l \in 1..Len(Call)
            BY <3>4, <5>2
          <6>2. items'[Call'[l - o].n].req = i BY <2>3, <4>2, <6>1
          <6> QED BY <4>2, <6>1, <6>2 DEF RecordedBefore
        <5> QED BY <5>1, <5>2
      <4> QED BY <3>1, <3>3, <3>6, <4>1, <4>2 DEF Prepared, RecordedBefore
    <3> QED BY <1>5, <3>2, <3>3, <3>5, <3>6 DEF Prepared
  <2> QED BY <2>4, <2>5 DEF Ending, Requests
<1>9. CompletedIsSettled'
  <2> SUFFICES ASSUME NEW i \in Requests, requests[i].status = "completed"
               PROVE  waits'[i] # "waiting" /\ \E x \in results' : x.req = i
    BY DEF CompletedIsSettled, Requests
  <2>1. waits[i] # "waiting" /\ \E x \in results : x.req = i
    BY DEF Orderly, CompletedIsSettled
  <2>2. ~(Head(todo[p]).do = "wait" /\ Head(todo[p]).n = i)
    BY <1>1 DEF Orderly, Beginning
  <2> QED BY <2>1, <2>2
<1> QED BY <1>3, <1>6, <1>8, <1>9 DEF Orderly

\* Nothing of it changes, but for items that stay their requests'.
LEMMA ItemsOnly ==
    ASSUME Orderly, Records', ItemsKept, UNCHANGED <<requests, waits, results, todo>>
    PROVE  Orderly'
<1>1. Len(items) \in Nat /\ Len(items') \in Nat BY DEF Orderly, Records
<1>2. Called' /\ Beginning' BY DEF Orderly, Called, Beginning, Requests
<1>3. \A k \in 1..Len(Call) : Call[k].do = "result" =>
        Call[k].n \in 1..Len(items') /\ items'[Call[k].n].req = items[Call[k].n].req
  BY <1>1 DEF Orderly, Ending, Named, ItemsKept
<1>4. Call' = Call /\ Len(Call) \in Nat
  <2>1. PICK S : todo \in [Callers -> Seq(StepsOver(S))] BY DEF Orderly, Called
  <2> QED BY <2>1 DEF Call, Callers
<1>5. \A i : Announced(i)' = Announced(i) BY DEF Announced
<1>6. \A k \in 1..Len(Call) : Named(k)'
  BY <1>3, <1>4 DEF Orderly, Ending, Named, Requests
<1>7. ASSUME NEW i \in Requests, NEW k \in 1..Len(Call) PROVE Prepared(k, i)'
  <2>1. Prepared(k, i) BY DEF Orderly, Ending
  <2>2. Concerns(k, i)' => Concerns(k, i) BY <1>3, <1>4 DEF Concerns
  <2>3. SettledBefore(k, i)' = SettledBefore(k, i) BY <1>4 DEF SettledBefore
  <2>4. RecordedBefore(k, i) => RecordedBefore(k, i)'
    <3>1. \A l \in 1..k - 1 : l \in 1..Len(Call) BY <1>4
    <3> QED BY <1>3, <1>4, <3>1 DEF RecordedBefore
  <2> QED BY <1>4, <1>5, <2>1, <2>2, <2>3, <2>4 DEF Prepared
<1>8. Ending' BY <1>4, <1>6, <1>7 DEF Ending, Requests
<1> QED BY <1>2, <1>8 DEF Orderly, CompletedIsSettled, Requests

\* A request is filed, and its wait is ahead of whatever else its caller does.
LEMMA RequestKeeps ==
    ASSUME Orderly, NEW p \in Callers, NEW s, NEW r, NEW policy, NEW ref, NEW S,
           NEW rest \in Seq(StepsOver(S)), \A k \in 1..Len(rest) : rest[k].do \in Plain,
           p = "daemon" => todo["daemon"] = <<>>,
           Request(p, s, r, policy, ref, rest)
    PROVE  Orderly'
<1> DEFINE new == Len(requests) + 1
<1> DEFINE first == Step("wait", new, r)
<1> DEFINE rec == [session |-> s, run |-> r, policy |-> policy, ref |-> ref,
                   status |-> "pending"]
<1>1. /\ requests' = Append(requests, rec) /\ waits' = Append(waits, "none")
      /\ todo' = [todo EXCEPT ![p] = <<first>> \o rest]
      /\ UNCHANGED <<results, items>>
  BY DEF Request, Steps
<1>2. /\ Len(requests) \in Nat /\ Len(requests') = new /\ requests'[new] = rec
      /\ \A i \in Requests : requests'[i] = requests[i]
      /\ Len(waits') = new /\ \A i \in Requests : waits'[i] = waits[i]
      /\ waits' \in Seq({"none", "waiting", "satisfied"})
  BY <1>1 DEF Orderly, Records, Requests
<1>3. Records'
  <2>1. PICK T : requests \in Seq([session : T, run : T, policy : T, ref : T,
                                   status : {"pending", "completed"}])
    BY DEF Orderly, Records
  <2> DEFINE U == T \cup {s, r, policy, ref}
  <2> DEFINE R == [session : U, run : U, policy : U, ref : U, status : {"pending", "completed"}]
  <2>2. requests \in Seq(R) /\ rec \in R BY <2>1, Wider
  <2>3. requests' \in Seq(R) BY <1>1, <2>2
  <2> QED BY <1>1, <1>2, <2>3 DEF Orderly, Records
<1>4. Called'
  <2>1. PICK T : todo \in [Callers -> Seq(StepsOver(T))] BY DEF Orderly, Called
  <2> DEFINE U == S \cup T \cup {"wait", new, r}
  <2>2. StepsOver(S) \subseteq StepsOver(U) /\ StepsOver(T) \subseteq StepsOver(U)
    BY DEF StepsOver
  <2>3. first \in StepsOver(U) BY DEF StepsOver, Step
  <2> HIDE DEF first, new, U
  <2>4. rest \in Seq(StepsOver(U)) BY <2>2, Wider
  <2>5. <<first>> \o rest \in Seq(StepsOver(U)) BY <2>3, <2>4
  <2>6. \A q \in Callers : todo[q] \in Seq(StepsOver(U)) BY <2>1, <2>2, Wider
  <2>7. todo' \in [Callers -> Seq(StepsOver(U))] BY <1>1, <2>1, <2>5, <2>6
  <2> QED BY <2>7 DEF Called
<1>5. /\ \A q \in Callers \ {p} : todo'[q] = todo[q]
      /\ \A k \in 1..Len(todo'[p]) : todo'[p][k] = first \/ todo'[p][k].do \in Plain
  <2>1. todo'[p] = <<first>> \o rest /\ \A q \in Callers \ {p} : todo'[q] = todo[q]
    BY <1>1 DEF Orderly, Called
  <2>2. Len(rest) \in Nat BY DEF StepsOver
  <2>3. \A k \in 1..Len(<<first>> \o rest) :
          (<<first>> \o rest)[k] = IF k = 1 THEN first ELSE rest[k - 1]
    OBVIOUS
  <2>4. Len(<<first>> \o rest) = 1 + Len(rest) OBVIOUS
  <2>5. ASSUME NEW k \in 1..Len(<<first>> \o rest)
        PROVE  (<<first>> \o rest)[k] = first \/ (<<first>> \o rest)[k].do \in Plain
    <3>1. k = 1 \/ k - 1 \in 1..Len(rest) BY <2>2, <2>4
    <3> QED BY <2>3, <3>1
  <2> QED BY <2>1, <2>5
<1>first. first.do = "wait" /\ first.n = new BY DEF Step
<1> HIDE DEF first, rec
<1>new. new \notin Requests /\ Requests' = Requests \cup {new}
  BY <1>2 DEF Requests
<1>6. ASSUME NEW i \in Requests, Announced(i) PROVE Announced(i)'
  <2>1. ASSUME NEW q \in Callers, NEW k \in 1..Len(todo'[q]), todo'[q][k].do = "wait"
        PROVE  todo'[q][k].n # i
    <3>1. CASE q = p BY <1>5, <1>first, <1>new, <2>1, <3>1 DEF Plain
    <3>2. CASE q # p BY <1>5, <1>6, <2>1, <3>2 DEF Announced
    <3> QED BY <3>1, <3>2
  <2> QED BY <2>1 DEF Announced
<1>7. Beginning'
  <2>2. ASSUME NEW q \in Callers \ {p}, NEW k \in 1..Len(todo'[q])
        PROVE  /\ todo'[q][k].do = "wait" =>
                    todo'[q][k].n \in Requests' /\ requests'[todo'[q][k].n].status = "pending"
               /\ q # "daemon" => todo'[q][k].do \in {"wait"} \cup Plain
    BY <1>2, <1>5, <1>new, <2>2 DEF Orderly, Beginning
  <2>3. ASSUME NEW k \in 1..Len(todo'[p])
        PROVE  /\ todo'[p][k].do = "wait" =>
                    todo'[p][k].n \in Requests' /\ requests'[todo'[p][k].n].status = "pending"
               /\ p # "daemon" => todo'[p][k].do \in {"wait"} \cup Plain
    BY <1>2, <1>5, <1>first, <1>new, <2>3 DEF Plain, rec
  <2> QED BY <2>2, <2>3 DEF Beginning
<1>8. Ending'
  <2>1. CASE p = "daemon"
    <3>1. \A k \in 1..Len(Call') : Call'[k] = first \/ Call'[k].do \in Plain
      BY <1>5, <2>1 DEF Call
    <3> QED BY <3>1, <1>first DEF Ending, Named, Prepared, Concerns, Plain
  <2>2. CASE p # "daemon"
    <3>1. Call' = Call BY <1>5, <2>2 DEF Call, Callers
    <3>2. \A k \in 1..Len(Call) : Named(k)' /\ \A i : Concerns(k, i) => i \in Requests
      BY <1>1, <1>new, <3>1 DEF Orderly, Ending, Named, Concerns
    <3>3. ASSUME NEW i \in Requests, NEW k \in 1..Len(Call) PROVE Prepared(k, i)'
      <4>1. Prepared(k, i) BY DEF Orderly, Ending
      <4>2. Concerns(k, i)' = Concerns(k, i) BY <1>1, <3>1 DEF Concerns
      <4>3. SettledBefore(k, i)' = SettledBefore(k, i) BY <1>2, <3>1 DEF SettledBefore
      <4>4. RecordedBefore(k, i)' = RecordedBefore(k, i) BY <1>1, <3>1 DEF RecordedBefore
      <4> QED BY <1>6, <3>1, <4>1, <4>2, <4>3, <4>4 DEF Prepared
    <3>4. ASSUME NEW i \in Requests' \ Requests, NEW k \in 1..Len(Call) PROVE Prepared(k, i)'
      <4>1. Concerns(k, i)' = Concerns(k, i) BY <1>1, <3>1 DEF Concerns
      <4>2. ~Concerns(k, i) BY <3>2
      <4> QED BY <3>1, <4>1, <4>2 DEF Prepared, Concerns
    <3> QED BY <1>new, <3>1, <3>2, <3>3, <3>4 DEF Ending
  <2> QED BY <2>1, <2>2
<1>9. CompletedIsSettled'
  <2> SUFFICES ASSUME NEW i \in Requests', requests'[i].status = "completed"
               PROVE  waits'[i] # "waiting" /\ \E x \in results' : x.req = i
    BY DEF CompletedIsSettled
  <2>1. i \in Requests BY <1>2, <1>new DEF rec
  <2> QED BY <1>1, <1>2, <2>1 DEF Orderly, CompletedIsSettled
<1> QED BY <1>3, <1>4, <1>7, <1>8, <1>9 DEF Orderly

\* The daemon, free, takes in a result: its item is there and the rest is ahead.
LEMMA IngestKeeps ==
    ASSUME Orderly, NEW i, NEW key, NEW when, NEW S, NEW rest \in Seq(StepsOver(S)),
           \A k \in 1..Len(rest) : rest[k].do \in Plain,
           todo["daemon"] = <<>>, Ingest(i, key, when, rest)
    PROVE  Orderly'
<1> DEFINE j == Len(items) + 1
<1> DEFINE it == Item(i, "daemon", key, "result", "", when)
<1>1. /\ i \in Requests /\ Announced(i)
      /\ items' = Append(items, it)
      /\ todo' = [todo EXCEPT !["daemon"] = Ingestion(i, j) \o rest]
      /\ UNCHANGED <<requests, waits, results>>
  BY DEF Ingest, Steps
<1>2. Len(requests) \in Nat /\ i \in Nat
  <2>1. Len(requests) \in Nat BY DEF Orderly, Records
  <2>2. i \in Requests BY <1>1
  <2> QED BY <2>1, <2>2 DEF Requests
<1>3. PICK T : items \in Seq([req : T, by : T, key : T, text : T, ref : T, life : T, status : T,
                              wake : T])
  BY DEF Orderly, Records
<1>4. /\ Len(items) \in Nat /\ Len(items') = Len(items) + 1 /\ items'[j] = it
      /\ \A k \in 1..Len(items) : items'[k] = items[k]
  <2> HIDE DEF it
  <2> QED BY <1>1, <1>3
<1>5. Records'
  <2> DEFINE U == T \cup {i, "daemon", key, "result", "", when, "new", Undecided}
  <2> DEFINE I == [req : U, by : U, key : U, text : U, ref : U, life : U, status : U, wake : U]
  <2>1. [req : T, by : T, key : T, text : T, ref : T, life : T, status : T, wake : T] \subseteq I
    OBVIOUS
  <2>2. it \in I BY DEF Item
  <2> HIDE DEF I, it, j
  <2>3. items \in Seq(I) BY <1>3, <2>1, Wider
  <2>4. items' \in Seq(I) BY <1>1, <2>2, <2>3
  <2> QED BY <1>1, <2>4 DEF Orderly, Records, I
<1>6. /\ Ingestion(i, j) = <<Step("result", j, NoWake), Step("settle", i, NoWake),
                             Step("complete", i, NoWake)>>
      /\ Len(Ingestion(i, j)) = 3
  BY DEF Ingestion
<1>7. Called'
  <2>1. PICK W : todo \in [Callers -> Seq(StepsOver(W))] BY DEF Orderly, Called
  <2> DEFINE U == S \cup W \cup {"result", "settle", "complete", i, j, NoWake}
  <2>2. StepsOver(S) \subseteq StepsOver(U) /\ StepsOver(W) \subseteq StepsOver(U)
    BY DEF StepsOver
  <2>3. /\ Step("result", j, NoWake) \in StepsOver(U)
        /\ Step("settle", i, NoWake) \in StepsOver(U)
        /\ Step("complete", i, NoWake) \in StepsOver(U)
    BY DEF StepsOver, Step
  <2> HIDE DEF j, U
  <2>4. Ingestion(i, j) \in Seq(StepsOver(U)) BY <1>6, <2>3
  <2>5. rest \in Seq(StepsOver(U)) BY <2>2, Wider
  <2>6. Ingestion(i, j) \o rest \in Seq(StepsOver(U)) BY <2>4, <2>5
  <2>7. \A q \in Callers : todo[q] \in Seq(StepsOver(U)) BY <2>1, <2>2, Wider
  <2>8. todo' \in [Callers -> Seq(StepsOver(U))] BY <1>1, <2>1, <2>6, <2>7
  <2> QED BY <2>8 DEF Called
<1>8. Call' = Ingestion(i, j) \o rest /\ \A q \in Callers \ {"daemon"} : todo'[q] = todo[q]
  BY <1>1 DEF Orderly, Called, Call, Callers
<1>9. /\ 3 <= Len(Call') /\ Len(Call') \in Nat
      /\ Call'[1] = Step("result", j, NoWake) /\ Call'[2] = Step("settle", i, NoWake)
      /\ Call'[3] = Step("complete", i, NoWake)
      /\ \A k \in 4..Len(Call') : Call'[k].do \in Plain
  <2>1. Len(rest) \in Nat BY DEF StepsOver
  <2> DEFINE all == <<Step("result", j, NoWake), Step("settle", i, NoWake),
                      Step("complete", i, NoWake)>> \o rest
  <2>2. Len(all) = 3 + Len(rest) OBVIOUS
  <2>3. \A k \in 1..Len(all) :
          all[k] = IF k <= 3 THEN <<Step("result", j, NoWake), Step("settle", i, NoWake),
                                    Step("complete", i, NoWake)>>[k]
                   ELSE rest[k - 3]
    OBVIOUS
  <2>4. Call' = all BY <1>6, <1>8
  <2>5. all[1] = Step("result", j, NoWake) /\ all[2] = Step("settle", i, NoWake)
        /\ all[3] = Step("complete", i, NoWake)
    BY <2>1, <2>2, <2>3
  <2>6. \A k \in 4..Len(all) : k - 3 \in 1..Len(rest) /\ all[k] = rest[k - 3]
    BY <2>1, <2>2, <2>3
  <2> HIDE DEF all, j
  <2> QED BY <2>1, <2>2, <2>4, <2>5, <2>6
<1>10. ASSUME NEW k \in 1..Len(Call')
       PROVE  \/ k = 1 /\ Call'[k].do = "result" /\ Call'[k].n = j
              \/ k = 2 /\ Call'[k].do = "settle" /\ Call'[k].n = i
              \/ k = 3 /\ Call'[k].do = "complete" /\ Call'[k].n = i
              \/ Call'[k].do \in Plain
  <2>1. k = 1 \/ k = 2 \/ k = 3 \/ k \in 4..Len(Call') BY <1>9
  <2> HIDE DEF j
  <2> QED BY <1>9, <2>1 DEF Step
<1>11. it.req = i BY DEF Item
<1> HIDE DEF it
<1>12. j \in 1..Len(items') /\ items'[j].req = i BY <1>4, <1>11
<1> HIDE DEF j
<1>13. Announced(i)'
  <2>1. ASSUME NEW q \in Callers, NEW k \in 1..Len(todo'[q]), todo'[q][k].do = "wait"
        PROVE  todo'[q][k].n # i
    <3>1. CASE q = "daemon" BY <1>10, <2>1, <3>1 DEF Call, Plain
    <3>2. CASE q # "daemon" BY <1>1, <1>8, <2>1, <3>2 DEF Announced
    <3> QED BY <3>1, <3>2
  <2> QED BY <2>1 DEF Announced
<1>14. Beginning'
  <2>1. ASSUME NEW q \in Callers, NEW k \in 1..Len(todo'[q])
        PROVE  /\ todo'[q][k].do = "wait" =>
                    todo'[q][k].n \in Requests /\ requests[todo'[q][k].n].status = "pending"
               /\ q # "daemon" => todo'[q][k].do \in {"wait"} \cup Plain
    <3>1. CASE q = "daemon" BY <1>10, <3>1 DEF Call, Plain
    <3>2. CASE q # "daemon" BY <1>8, <3>2 DEF Orderly, Beginning
    <3> QED BY <3>1, <3>2
  <2> QED BY <1>1, <2>1 DEF Beginning, Requests
<1>15. ASSUME NEW k \in 1..Len(Call') PROVE Named(k)'
  BY <1>1, <1>10, <1>12 DEF Named, Plain, Requests
<1>16. ASSUME NEW x \in Requests, NEW k \in 1..Len(Call') PROVE Prepared(k, x)'
  <2>1. Concerns(k, x)' => x = i BY <1>10, <1>12 DEF Concerns, Plain
  <2>2. ASSUME Call'[k].do = "complete"
        PROVE  k = 3 /\ SettledBefore(k, i)' /\ RecordedBefore(k, i)'
    <3>1. k = 3 BY <1>10, <2>2 DEF Plain
    <3>2. Call'[2].do = "settle" /\ Call'[2].n = i /\ Call'[1].do = "result" /\ Call'[1].n = j
      BY <1>9 DEF Step
    <3>3. SettledBefore(k, i)' BY <3>1, <3>2 DEF SettledBefore
    <3>4. RecordedBefore(k, i)' BY <1>12, <3>1, <3>2 DEF RecordedBefore
    <3> QED BY <3>1, <3>3, <3>4
  <2> QED BY <1>13, <2>1, <2>2 DEF Prepared, Concerns
<1>17. Ending' BY <1>1, <1>15, <1>16 DEF Ending, Requests
<1> QED BY <1>1, <1>5, <1>7, <1>14, <1>17 DEF Orderly, CompletedIsSettled, Requests

\* The request whose result is on disk, and whose wait is over, is completed.
LEMMA CompleteKeeps ==
    ASSUME Orderly, Complete("daemon") PROVE Orderly'
<1> DEFINE x == Its("daemon")
<1>1. /\ todo["daemon"] # <<>> /\ Head(todo["daemon"]).do = "complete" /\ Done("daemon")
      /\ requests' = [requests EXCEPT ![x].status = "completed"]
      /\ UNCHANGED <<waits, results, items>>
  BY DEF Complete, Due
<1>2. PICK S : todo \in [Callers -> Seq(StepsOver(S))] BY DEF Orderly, Called
<1>3. /\ 1 \in 1..Len(Call) /\ Call[1] = Head(todo["daemon"]) /\ Call[1].do = "complete"
      /\ Call[1].n = x /\ Len(Call) \in Nat
  BY <1>1, <1>2 DEF Call, Callers, Its
<1>4. Concerns(1, x) /\ x \in Requests /\ Prepared(1, x)
  BY <1>3 DEF Orderly, Ending, Named, Concerns
<1>5. Announced(x) /\ waits[x] # "waiting" /\ \E y \in results : y.req = x
  BY <1>3, <1>4 DEF Prepared, SettledBefore, RecordedBefore
<1>6. PICK T : requests \in Seq([session : T, run : T, policy : T, ref : T,
                                 status : {"pending", "completed"}])
  BY DEF Orderly, Records
<1> HIDE DEF x
<1>7. /\ requests' \in Seq([session : T, run : T, policy : T, ref : T,
                            status : {"pending", "completed"}])
      /\ Len(requests') = Len(requests) /\ Requests' = Requests
      /\ \A i \in Requests \ {x} : requests'[i] = requests[i]
  <2>0. requests[x] \in [session : T, run : T, policy : T, ref : T,
                          status : {"pending", "completed"}]
    BY <1>4, <1>6, At DEF Requests
  <2>1. [requests[x] EXCEPT !.status = "completed"] \in
          [session : T, run : T, policy : T, ref : T, status : {"pending", "completed"}]
    BY <2>0
  <2>2. requests' = [requests EXCEPT ![x] = [requests[x] EXCEPT !.status = "completed"]]
    BY <1>1
  <2> QED BY <1>6, <2>1, <2>2, Replaced DEF Requests
<1>8. Records' BY <1>1, <1>7 DEF Orderly, Records
<1>9. /\ Tail(Call) \in Seq(StepsOver(S)) /\ Len(Tail(Call)) = Len(Call) - 1
      /\ \A k \in 1..Len(Call) - 1 : Tail(Call)[k] = Call[k + 1]
  BY <1>2, <1>3 DEF Call, Callers
<1>10. /\ todo' \in [Callers -> Seq(StepsOver(S))] /\ Call' = Tail(Call)
       /\ \A q \in Callers \ {"daemon"} : todo'[q] = todo[q]
  BY <1>1, <1>2, <1>9 DEF Done, Call, Callers
<1>11. \A k \in 1..Len(Call') : k + 1 \in 1..Len(Call) /\ Call'[k] = Call[k + 1]
  BY <1>3, <1>9, <1>10
<1>12. \A q \in Callers : \A k \in 1..Len(todo'[q]) :
         \E l \in 1..Len(todo[q]) : todo'[q][k] = todo[q][l]
  <2>1. ASSUME NEW q \in Callers, NEW k \in 1..Len(todo'[q])
        PROVE  \E l \in 1..Len(todo[q]) : todo'[q][k] = todo[q][l]
    <3>1. CASE q = "daemon" BY <1>11, <3>1 DEF Call
    <3>2. CASE q # "daemon" BY <1>10, <3>2
    <3> QED BY <3>1, <3>2
  <2> QED BY <2>1
<1>13. \A i : Announced(i) => Announced(i)' BY <1>12 DEF Announced
<1>14. Beginning'
  <2> SUFFICES ASSUME NEW q \in Callers, NEW k \in 1..Len(todo'[q])
               PROVE  /\ todo'[q][k].do = "wait" =>
                           todo'[q][k].n \in Requests'
                              /\ requests'[todo'[q][k].n].status = "pending"
                      /\ q # "daemon" => todo'[q][k].do \in {"wait"} \cup Plain
    BY DEF Beginning
  <2>1. PICK l \in 1..Len(todo[q]) : todo'[q][k] = todo[q][l] BY <1>12
  <2>2. todo'[q][k].do = "wait" => todo'[q][k].n # x BY <1>5, <2>1 DEF Announced
  <2> QED BY <1>7, <2>1, <2>2 DEF Orderly, Beginning
<1>15. \A k \in 1..Len(Call') : Named(k)'
  BY <1>1, <1>7, <1>11 DEF Orderly, Ending, Named
<1>16. ASSUME NEW i \in Requests, NEW k \in 1..Len(Call') PROVE Prepared(k, i)'
  <2>1. k + 1 \in 1..Len(Call) /\ Call'[k] = Call[k + 1] /\ k \in Nat BY <1>11
  <2>2. Prepared(k + 1, i) BY <2>1 DEF Orderly, Ending
  <2>3. Concerns(k, i)' = Concerns(k + 1, i) BY <1>1, <2>1 DEF Concerns
  <2>4. \A l \in 1..(k + 1) - 1 :
          l = 1 \/ (l - 1 \in 1..k - 1 /\ Call'[l - 1] = Call[l])
    <3> SUFFICES ASSUME NEW l \in 1..(k + 1) - 1, l # 1
                 PROVE  l - 1 \in 1..k - 1 /\ Call'[l - 1] = Call[l]
      OBVIOUS
    <3>1. Len(Call') \in Nat BY <1>3, <1>9, <1>10
    <3>2. l - 1 \in 1..k - 1 /\ l - 1 \in 1..Len(Call') /\ (l - 1) + 1 = l BY <2>1, <3>1
    <3> QED BY <1>11, <3>2
  <2>5. SettledBefore(k + 1, i) => SettledBefore(k, i)'
    BY <1>1, <1>3, <2>4 DEF SettledBefore
  <2>6. RecordedBefore(k + 1, i) => RecordedBefore(k, i)'
    BY <1>1, <1>3, <2>4 DEF RecordedBefore
  <2> QED BY <1>13, <2>1, <2>2, <2>3, <2>5, <2>6 DEF Prepared
<1>17. Ending' BY <1>7, <1>15, <1>16 DEF Ending
<1>18. CompletedIsSettled'
  BY <1>1, <1>5, <1>7 DEF Orderly, CompletedIsSettled
<1> QED BY <1>8, <1>10, <1>14, <1>17, <1>18 DEF Orderly, Called
\* The A2A server stops, with what its threads had left to append.
LEMMA IngressKeeps ==
    ASSUME Orderly, todo' = [p \in Callers |-> IF p = "daemon" THEN todo[p] ELSE <<>>],
           UNCHANGED <<requests, waits, results, items>>
    PROVE  Orderly'
<1>1. PICK S : todo \in [Callers -> Seq(StepsOver(S))] BY DEF Orderly, Called
<1>2. <<>> \in Seq(StepsOver(S)) OBVIOUS
<1>3. todo' \in [Callers -> Seq(StepsOver(S))] BY <1>1, <1>2
<1>4. /\ Call' = Call
      /\ \A q \in Callers : todo'[q] = todo[q] \/ todo'[q] = <<>>
  BY DEF Call, Callers
<1>5. \A i : Announced(i) => Announced(i)' BY <1>4 DEF Announced
<1>6. Beginning' BY <1>4 DEF Orderly, Beginning, Requests
<1>7. Ending'
  BY <1>4, <1>5 DEF Orderly, Ending, Named, Prepared, SettledBefore, RecordedBefore, Concerns,
                    Requests
<1> QED BY <1>3, <1>6, <1>7 DEF Orderly, Records, Called, CompletedIsSettled, Requests

-------------------------------------------------------------------------------
(* Every step *)

PlainSteps(S) == Seq([do : Plain, n : S, run : S])

\* Calls of steps that say nothing of a request are calls.
LEMMA PlainOnes ==
    ASSUME NEW S, NEW ss \in PlainSteps(S)
    PROVE  /\ ss \in Seq(StepsOver(S \cup Plain))
           /\ \A k \in 1..Len(ss) : ss[k].do \in Plain
<1>1. [do : Plain, n : S, run : S] \subseteq StepsOver(S \cup Plain) BY DEF StepsOver
<1>2. ss \in Seq(StepsOver(S \cup Plain)) BY <1>1, Wider DEF PlainSteps
<1>3. ASSUME NEW k \in 1..Len(ss) PROVE ss[k].do \in Plain
  <2>1. ss[k] \in [do : Plain, n : S, run : S] BY At DEF PlainSteps
  <2> QED BY <2>1
<1> QED BY <1>2, <1>3

\* A new call of such steps, whatever the last one had left.
LEMMA NewCall ==
    ASSUME Orderly, NEW S, NEW ss \in PlainSteps(S), Steps("daemon", ss),
           UNCHANGED <<requests, waits, results, items>>
    PROVE  Orderly'
BY PlainOnes, PlainCall

\* Nothing of the event plane changes.
LEMMA Untouched == ASSUME Orderly, UNCHANGED eventVars PROVE Orderly'
BY SameFiles, ItemsOnly DEF eventVars

\* A call goes on by a step that is not about the event plane.
LEMMA OtherStep ==
    ASSUME Orderly, NEW p \in Callers, todo[p] # <<>>, Done(p),
           Head(todo[p]).do \in Plain, UNCHANGED <<requests, waits, results, items>>
    PROVE  Orderly'
BY SameFiles, NextOfCall DEF Plain, Requests

\* The wait of a request begins: the request is still pending, as its call comes first.
LEMMA EnterKeeps == ASSUME Orderly, NEW p \in Callers, EnterWait(p) PROVE Orderly'
<1> DEFINE n == Head(todo[p]).n
<1>1. /\ todo[p] # <<>> /\ Head(todo[p]).do = "wait" /\ Done(p)
      /\ waits' = [waits EXCEPT ![n] = "waiting"] /\ UNCHANGED <<requests, results, items>>
  BY DEF EnterWait, Due, Its
<1> HIDE DEF n
<1>2. waits \in Seq({"none", "waiting", "satisfied"}) /\ Len(waits) = Len(requests)
  BY DEF Orderly, Records
<1>3. /\ waits' \in Seq({"none", "waiting", "satisfied"}) /\ Len(waits') = Len(waits)
      /\ \A i \in Requests \ {n} : waits'[i] = waits[i]
  BY <1>1, <1>2, Replaced DEF Requests
<1>4. Records' BY <1>1, <1>2, <1>3 DEF Orderly, Records
<1>5. ItemsKept
  <2>1. Len(items) \in Nat BY DEF Orderly, Records
  <2> QED BY <1>1, <2>1 DEF ItemsKept
<1> QED BY <1>1, <1>3, <1>4, <1>5, NextOfCall DEF n

\* The wait of a request whose result is recorded is over.
LEMMA SettleKeeps == ASSUME Orderly, SettleWait("daemon") PROVE Orderly'
<1> DEFINE n == Head(todo["daemon"]).n
<1>1. /\ todo["daemon"] # <<>> /\ Head(todo["daemon"]).do = "settle" /\ Done("daemon")
      /\ waits' = [waits EXCEPT ![n] = Settled(waits[n])]
      /\ UNCHANGED <<requests, results, items>>
  BY DEF SettleWait, Due, Its
<1>2. waits \in Seq({"none", "waiting", "satisfied"}) /\ Len(waits) = Len(requests)
  BY DEF Orderly, Records
<1>3. n \in Requests
  <2>1. PICK S : todo \in [Callers -> Seq(StepsOver(S))] BY DEF Orderly, Called
  <2>2. 1 \in 1..Len(Call) /\ Call[1] = Head(todo["daemon"])
    BY <1>1, <2>1 DEF Call, Callers
  <2> QED BY <1>1, <2>2 DEF Orderly, Ending, Named
<1> HIDE DEF n
<1>4. Settled(waits[n]) \in {"none", "satisfied"}
  BY <1>2, <1>3 DEF Settled, Requests
<1>5. /\ waits' \in Seq({"none", "waiting", "satisfied"}) /\ Len(waits') = Len(waits)
      /\ waits'[n] # "waiting" /\ \A i \in Requests \ {n} : waits'[i] = waits[i]
  BY <1>1, <1>2, <1>3, <1>4, Replaced DEF Requests
<1>6. Records' BY <1>1, <1>2, <1>5 DEF Orderly, Records
<1>7. ItemsKept
  <2>1. Len(items) \in Nat BY DEF Orderly, Records
  <2> QED BY <1>1, <2>1 DEF ItemsKept
<1>8. "daemon" \in Callers BY DEF Callers
<1> QED BY <1>1, <1>5, <1>6, <1>7, <1>8, NextOfCall DEF n

\* A result is recorded for the request its item was posted for.
LEMMA RecordKeeps == ASSUME Orderly, RecordResult("daemon") PROVE Orderly'
<1>1. /\ todo["daemon"] # <<>> /\ Head(todo["daemon"]).do = "result" /\ Done("daemon")
      /\ results' = results \cup {[req |-> items[Its("daemon")].req,
                                    key |-> items[Its("daemon")].key, item |-> Its("daemon")]}
      /\ UNCHANGED <<requests, waits, items>>
  BY DEF RecordResult, Due
<1>4. \E x \in results' : x.req = items[Head(todo["daemon"]).n].req
  <2>1. [req |-> items[Its("daemon")].req, key |-> items[Its("daemon")].key,
         item |-> Its("daemon")] \in results'
    BY <1>1
  <2> QED BY <2>1 DEF Its
<1>2. Records' /\ ItemsKept BY <1>1, SameFiles
<1>3. "daemon" \in Callers BY DEF Callers
<1> QED BY <1>1, <1>2, <1>3, <1>4, NextOfCall

\* Items are kept by a change of one that leaves its request.
LEMMA ItemChanged ==
    ASSUME Orderly, NEW j, NEW it, items' = [items EXCEPT ![j] = it],
           j \in 1..Len(items) =>
             /\ it.req = items[j].req
             /\ \E S : it \in [req : S, by : S, key : S, text : S, ref : S, life : S, status : S,
                               wake : S],
           UNCHANGED <<requests, waits>>
    PROVE  Records' /\ ItemsKept
<1>1. PICK T : items \in Seq([req : T, by : T, key : T, text : T, ref : T, life : T, status : T,
                              wake : T])
  BY DEF Orderly, Records
<1>2. PICK S : j \in 1..Len(items) =>
                 it \in [req : S, by : S, key : S, text : S, ref : S, life : S, status : S,
                         wake : S]
  OBVIOUS
<1> DEFINE U == S \cup T
<1> DEFINE I == [req : U, by : U, key : U, text : U, ref : U, life : U, status : U, wake : U]
<1>3. /\ [req : T, by : T, key : T, text : T, ref : T, life : T, status : T, wake : T] \subseteq I
      /\ [req : S, by : S, key : S, text : S, ref : S, life : S, status : S, wake : S] \subseteq I
  OBVIOUS
<1>4. j \in 1..Len(items) => it \in I BY <1>2, <1>3
<1> HIDE DEF I
<1>5. items \in Seq(I) BY <1>1, <1>3, Wider
<1>6. /\ items' \in Seq(I) /\ Len(items') = Len(items)
      /\ j \in 1..Len(items) => items'[j] = it
      /\ \A k \in 1..Len(items) \ {j} : items'[k] = items[k]
  BY <1>4, <1>5, Replaced
<1>7. Records' BY <1>6 DEF Orderly, Records, I
<1>8. ItemsKept BY <1>4, <1>5, <1>6 DEF ItemsKept
<1> QED BY <1>7, <1>8

\* A field of an item.
LEMMA ItemFields ==
    ASSUME Orderly, NEW j \in 1..Len(items), NEW v,
           NEW it \in {[items[j] EXCEPT !.wake = v], [items[j] EXCEPT !.status = v]}
    PROVE  /\ it.req = items[j].req
           /\ \E S : it \in [req : S, by : S, key : S, text : S, ref : S, life : S, status : S,
                             wake : S]
<1>1. PICK T : items \in Seq([req : T, by : T, key : T, text : T, ref : T, life : T, status : T,
                              wake : T])
  BY DEF Orderly, Records
<1>2. items[j] \in [req : T, by : T, key : T, text : T, ref : T, life : T, status : T, wake : T]
  BY <1>1, At
<1> DEFINE U == T \cup {v}
<1>3. items[j] \in [req : U, by : U, key : U, text : U, ref : U, life : U, status : U, wake : U]
  BY <1>2
<1>4. v \in U OBVIOUS
<1> HIDE DEF U
<1>5. it \in [req : U, by : U, key : U, text : U, ref : U, life : U, status : U, wake : U]
  BY <1>3, <1>4
<1> QED BY <1>2, <1>5

\* The wake decision is written to an item, whose request stays.
LEMMA DecideKeeps == ASSUME Orderly, NEW top, Decide("daemon", top) PROVE Orderly'
<1> DEFINE j == Its("daemon")
<1> DEFINE v == WakeDecision(requests[items[j].req].policy, top)
<1>1. /\ todo["daemon"] # <<>> /\ Head(todo["daemon"]).do = "wake" /\ Done("daemon")
      /\ items' = [items EXCEPT ![j] = [items[j] EXCEPT !.wake = v]]
      /\ UNCHANGED <<requests, waits, results>>
  BY DEF Decide, Due
<1> HIDE DEF j, v
<1>2. Records' /\ ItemsKept BY <1>1, ItemFields, ItemChanged
<1>3. "daemon" \in Callers BY DEF Callers
<1> QED BY <1>1, <1>2, <1>3, NextOfCall

\* An item is acknowledged, and stays the item of its request.
LEMMA AckKeeps == ASSUME Orderly, NEW j, Ack(j) PROVE Orderly'
<1>1. /\ items' = [items EXCEPT ![j] = [items[j] EXCEPT !.status = "acknowledged"]]
      /\ UNCHANGED <<requests, waits, results, todo>>
  BY DEF Ack
<1>2. Records' /\ ItemsKept BY <1>1, ItemFields, ItemChanged
<1> QED BY <1>1, <1>2, ItemsOnly

\* A request thread posts the item of the task it filed.
LEMMA SeedKeeps ==
    ASSUME Orderly, NEW h \in Handlers, NEW text, SeedItem(h, text) PROVE Orderly'
<1> DEFINE it == Item(Its(h), "a2a", NoKey, text, requests[Its(h)].ref, 0)
<1>1. /\ todo[h] # <<>> /\ Head(todo[h]).do = "item" /\ Done(h)
      /\ items' = Append(items, it)
      /\ UNCHANGED <<requests, waits, results>>
  BY DEF SeedItem, Due
<1>2. PICK T : items \in Seq([req : T, by : T, key : T, text : T, ref : T, life : T, status : T,
                              wake : T])
  BY DEF Orderly, Records
<1> DEFINE U == T \cup {Its(h), "a2a", NoKey, text, requests[Its(h)].ref, 0, "new", Undecided}
<1> DEFINE I == [req : U, by : U, key : U, text : U, ref : U, life : U, status : U, wake : U]
<1>4. [req : T, by : T, key : T, text : T, ref : T, life : T, status : T, wake : T] \subseteq I
  OBVIOUS
<1>5. it \in I BY DEF Item
<1> HIDE DEF I, it
<1>6. items \in Seq(I) BY <1>2, <1>4, Wider
<1>7. /\ items' \in Seq(I) /\ Len(items') = Len(items) + 1
      /\ \A j \in 1..Len(items) : items'[j] = items[j]
  BY <1>1, <1>5, <1>6
<1>8. Records' BY <1>1, <1>7 DEF Orderly, Records, I
<1>9. ItemsKept
  <2>1. Len(items) \in Nat BY <1>2
  <2> QED BY <1>7, <2>1 DEF ItemsKept
<1>3. h \in Callers /\ h # "daemon" BY EventPlaneAssumption DEF Callers
<1> QED BY <1>1, <1>3, <1>8, <1>9, NextOfCall

\* Calls put together of single steps.
LEMMA OneStep ==
    ASSUME NEW S, NEW do \in Plain, NEW n \in S, NEW r \in S
    PROVE  <<Step(do, n, r)>> \in PlainSteps(S)
BY DEF Step, PlainSteps

\* No step at all.
LEMMA NoSteps == ASSUME NEW S PROVE <<>> \in PlainSteps(S)
BY DEF PlainSteps

\* One call after the other.
LEMMA MoreSteps ==
    ASSUME NEW S, NEW a \in PlainSteps(S), NEW b \in PlainSteps(S) PROVE a \o b \in PlainSteps(S)
BY DEF PlainSteps

\* The events and the start of a resumed run say nothing of a request.
LEMMA ResumesWith ==
    ASSUME NEW r \in Runs, Resume(r)
    PROVE  \E S : \E ss \in PlainSteps(S) : Steps("daemon", ss)
<1> DEFINE S == {r, NextStore(r)}
<1> DEFINE events == <<Event(r, NextStore(r)), Event(r, NextStore(r))>>
<1> DEFINE launch == <<Step("launch", NextStore(r), r)>>
<1> DEFINE ss == (IF run[r].top = "READY" THEN <<>> ELSE events) \o launch
<1>1. Steps("daemon", ss) BY DEF Resume
<1>2. events = <<Step("event", NextStore(r), r)>> \o <<Step("event", NextStore(r), r)>>
  BY DEF Event
<1>3. launch \in PlainSteps(S) /\ <<Step("event", NextStore(r), r)>> \in PlainSteps(S)
  BY OneStep DEF Plain
<1> HIDE DEF S, events, launch
<1>4. events \in PlainSteps(S) BY <1>2, <1>3, MoreSteps
<1>5. ss \in PlainSteps(S) BY <1>3, <1>4, MoreSteps, NoSteps
<1> QED BY <1>1, <1>5

\* Nor do those of an acknowledged review.
LEMMA ReviewsWith ==
    ASSUME NEW r \in Runs, NEW b \in BOOLEAN, AckReview(r, b)
    PROVE  \E S : \E ss \in PlainSteps(S) : Steps("daemon", ss)
<1> DEFINE s == IF run[r].where = "ended" THEN run[r].entry ELSE NextStore(r)
<1> DEFINE S == {r, s, 0}
<1> DEFINE one == <<Event(r, s)>>
<1> DEFINE end == <<Event(r, s), Event(r, s), Step("final", 0, r)>>
<1>1. /\ Steps("daemon", one \o (IF b THEN end ELSE <<>>))
  BY DEF AckReview
<1>2. one = <<Step("event", s, r)>> BY DEF Event
<1>3. end = (one \o one) \o <<Step("final", 0, r)>> BY DEF Event
<1>4. one \in PlainSteps(S) /\ <<Step("final", 0, r)>> \in PlainSteps(S)
  BY <1>2, OneStep DEF Plain
<1> HIDE DEF S, one, end
<1>5. end \in PlainSteps(S) BY <1>3, <1>4, MoreSteps
<1>6. one \o (IF b THEN end ELSE <<>>) \in PlainSteps(S) BY <1>4, <1>5, MoreSteps, NoSteps
<1> QED BY <1>1, <1>6

\* Nor does the event of an escalation.
LEMMA EscalatesWith ==
    ASSUME NEW r \in Runs, Escalate(r)
    PROVE  \E S : \E ss \in PlainSteps(S) : Steps("daemon", ss)
<1> DEFINE S == {r, run[r].entry}
<1>1. /\ Steps("daemon", <<Step("event", run[r].entry, r)>>)
  BY DEF Escalate, Event
<1>2. <<Step("event", run[r].entry, r)>> \in PlainSteps(S) BY OneStep DEF Plain
<1> QED BY <1>1, <1>2

\* They keep what is on disk.
LEMMA Calls ==
    ASSUME Orderly, NEW r \in Runs,
           Resume(r) \/ Escalate(r) \/ \E b \in BOOLEAN : AckReview(r, b)
    PROVE  Orderly'
<1>1. UNCHANGED <<requests, waits, results, items>> BY DEF Resume, Escalate, AckReview
<1>2. PICK S : \E ss \in PlainSteps(S) : Steps("daemon", ss)
  BY ResumesWith, ReviewsWith, EscalatesWith
<1> QED BY <1>1, <1>2, NewCall

\* The daemon begins with its orphans, in whatever order it finds them.
LEMMA StartsWith ==
    ASSUME DaemonStarts
    PROVE  \E S : \E ss \in PlainSteps(S) : Steps("daemon", ss)
<1>1. PICK order \in SetToSeqs(Orphans) :
        Steps("daemon", [n \in 1..3 * Len(order) |->
                           Recovery(order[(n + 2) \div 3])[((n + 2) % 3) + 1]])
  BY DEF DaemonStarts
<1>3. Len(order) \in Nat
  <2>1. IsFiniteSet(Orphans) BY RunSessionsAssumption, FS_Subset DEF Orphans
  <2>2. Cardinality(Orphans) \in Nat BY <2>1, FS_CardinalityType
  <2>3. order \in [1..Cardinality(Orphans) -> Orphans] BY DEF SetToSeqs
  <2> QED BY <2>2, <2>3
<1> DEFINE S == {0} \cup {order[(n + 2) \div 3] : n \in 1..3 * Len(order)}
                    \cup {NextStore(order[(n + 2) \div 3]) : n \in 1..3 * Len(order)}
<1> DEFINE ss == [n \in 1..3 * Len(order) |-> Recovery(order[(n + 2) \div 3])[((n + 2) % 3) + 1]]
<1>4. ASSUME NEW n \in 1..3 * Len(order)
      PROVE  Recovery(order[(n + 2) \div 3])[((n + 2) % 3) + 1] \in [do : Plain, n : S, run : S]
  <2> DEFINE r == order[(n + 2) \div 3]
  <2>1. r \in S /\ NextStore(r) \in S /\ 0 \in S OBVIOUS
  <2> HIDE DEF S, r
  <2>2. ((n + 2) % 3) + 1 \in {1, 2, 3} BY <1>3
  <2>3. \A i \in {1, 2, 3} : Recovery(r)[i] \in [do : Plain, n : S, run : S]
    BY <2>1 DEF Recovery, Event, Step, Plain
  <2> QED BY <2>2, <2>3 DEF r
<1> HIDE DEF S
<1>5. ss \in PlainSteps(S) BY <1>3, <1>4 DEF PlainSteps
<1> QED BY <1>1, <1>5

\* Its first call says nothing of a request.
LEMMA Starts == ASSUME Orderly, DaemonStarts PROVE Orderly'
<1>1. PICK S : \E ss \in PlainSteps(S) : Steps("daemon", ss) BY StartsWith
<1>2. UNCHANGED <<requests, waits, results, items>> BY DEF DaemonStarts
<1> QED BY <1>1, <1>2, NewCall

\* What a dead daemon had left to append is not appended.
LEMMA Dies == ASSUME Orderly, DaemonDies PROVE Orderly'
BY NoSteps, NewCall DEF DaemonDies

\* A note in the session log of a run is one such step, or none.
LEMMA Notes == ASSUME NEW r PROVE Note(r) \in PlainSteps({0, r})
BY OneStep, NoSteps DEF Note, Plain

\* The daemon files a request only when it is free.
LEMMA Creates ==
    ASSUME Orderly, NEW r, NEW s, NEW policy, CreateTask(r, s, policy) PROVE Orderly'
<1>1. Note(r) \in PlainSteps({0, r}) BY Notes
<1>2. todo["daemon"] = <<>> /\ Request("daemon", s, r, policy, "plain", Note(r))
  BY DEF CreateTask, Serving
<1>3. "daemon" \in Callers BY DEF Callers
<1> QED BY <1>1, <1>2, <1>3, PlainOnes, RequestKeeps

\* The daemon takes in a result only when it is free.
LEMMA TakesIn == ASSUME Orderly, NEW i, NEW key, IngestResult(i, key) PROVE Orderly'
<1> DEFINE r == requests[i].run
<1> DEFINE j == Len(items) + 1
<1> DEFINE S == {0, r, j}
<1>1. todo["daemon"] = <<>> /\ Ingest(i, key, life, WakeOf(i, j))
  BY DEF IngestResult, Serving
<1>2. <<Step("wake", j, r)>> \in PlainSteps(S) /\ Note(r) \in PlainSteps(S)
  BY OneStep, NoSteps DEF Note, Plain
<1>3. WakeOf(i, j) = (Note(r) \o <<Step("wake", j, r)>>) \o Note(r) BY DEF WakeOf
<1> HIDE DEF S, r, j
<1>4. WakeOf(i, j) \in PlainSteps(S) BY <1>2, <1>3, MoreSteps
<1> QED BY <1>1, <1>4, PlainOnes, IngestKeeps

\* What a request thread does with its post.
LEMMA Posts == ASSUME Orderly, NEW h \in Handlers, Handle(h) PROVE Orderly'
<1>1. h \in Callers /\ h # "daemon" BY EventPlaneAssumption DEF Callers
<1>2. CASE UNCHANGED eventVars BY <1>2, Untouched
<1>3. ASSUME NEW s, NEW policy, Send(h, s, TRUE, policy) PROVE Orderly'
  <2> DEFINE n == Len(requests) + 1
  <2>1. Request(h, s, "none", policy, handler[h].ref, <<Step("item", n, "none")>>) BY <1>3 DEF Send
  <2>2. <<Step("item", n, "none")>> \in PlainSteps({n, "none"}) BY OneStep DEF Plain
  <2> HIDE DEF n
  <2> QED BY <1>1, <2>1, <2>2, PlainOnes, RequestKeeps
<1>4. CASE EnterWait(h) BY <1>1, <1>4, EnterKeeps
<1>5. CASE SeedItem(h, handler[h].text) BY <1>5, SeedKeeps
<1> QED BY <1>2, <1>3, <1>4, <1>5 DEF Handle

\* The server thread's own appends.
LEMMA Appends == ASSUME Orderly, Append1 PROVE Orderly'
<1>1. "daemon" \in Callers BY DEF Callers
<1> QED BY <1>1, EnterKeeps, RecordKeeps, SettleKeeps, CompleteKeeps, DecideKeeps DEF Append1

\* What the daemon appends to runs and their logs.
LEMMA Others ==
    ASSUME Orderly, LaunchRun \/ SaveFinal \/ WriteEvent \/ WriteNote \/ SkipLine \/ ParkOrphan
    PROVE  Orderly'
<1>1. "daemon" \in Callers BY DEF Callers
<1>2. /\ todo["daemon"] # <<>> /\ Done("daemon") /\ Head(todo["daemon"]).do \in Plain
      /\ UNCHANGED <<requests, waits, results, items>>
  BY DEF LaunchRun, SaveFinal, WriteEvent, WriteNote, SkipLine, ParkOrphan, NextDue, Due, Plain
<1> QED BY <1>1, <1>2, OtherStep

-------------------------------------------------------------------------------
(* The theorem *)

\* The files are empty at first.
LEMMA InitOrderly == Init => Orderly
<1> SUFFICES ASSUME Init PROVE Orderly
  OBVIOUS
<1>1. /\ requests = <<>> /\ waits = <<>> /\ items = <<>>
      /\ todo = [p \in Callers |-> <<>>]
  BY DEF Init, EventInit
<1>2. Records
  <2>1. \A S : <<>> \in Seq(S) OBVIOUS
  <2> QED BY <1>1, <2>1 DEF Records
<1>3. Called
  <2>1. <<>> \in Seq(StepsOver({})) OBVIOUS
  <2> QED BY <1>1, <2>1 DEF Called
<1>4. \A p \in Callers : todo[p] = <<>> /\ "daemon" \in Callers BY <1>1 DEF Callers
<1>5. Beginning BY <1>4 DEF Beginning
<1>6. Call = <<>> BY <1>1 DEF Call, Callers
<1>7. Ending /\ CompletedIsSettled BY <1>1, <1>6 DEF Ending, CompletedIsSettled, Requests
<1> QED BY <1>2, <1>3, <1>5, <1>7 DEF Orderly

\* Every step keeps the invariant.
LEMMA NextOrderly == Orderly /\ [Next]_vars => Orderly'
<1> SUFFICES ASSUME Orderly, [Next]_vars PROVE Orderly'
  OBVIOUS
<1>1. CASE UNCHANGED eventVars BY <1>1, Untouched
<1>2. ASSUME NEW r \in Runs, NEW b \in BOOLEAN, RegisterRun(r, b) \/ AckReview(r, b)
      PROVE  Orderly'
  BY <1>1, <1>2, Calls DEF RegisterRun
<1>3. ASSUME NEW r \in Runs,
             Resume(r) \/ Escalate(r) \/ AskClarification(r) \/ Work(r) \/ Answers(r)
      PROVE  Orderly'
  BY <1>1, <1>3, Calls DEF AskClarification, Work, Answers
<1>4. CASE LaunchRun \/ SaveFinal \/ WriteEvent \/ WriteNote \/ SkipLine \/ ParkOrphan
  BY <1>4, Others
<1>5. CASE ReapRuns \/ Lands \/ ClockTicks
  BY <1>1, <1>5 DEF ReapRuns, Lands, ClockTicks
<1>6. CASE Append1 BY <1>6, Appends
<1>7. ASSUME NEW r, NEW s, NEW policy, CreateTask(r, s, policy) PROVE Orderly'
  BY <1>7, Creates
<1>8. ASSUME NEW i, NEW key, IngestResult(i, key) PROVE Orderly' BY <1>8, TakesIn
<1>9. ASSUME NEW j, AckItem(j) PROVE Orderly' BY <1>9, AckKeeps DEF AckItem
<1>10. ASSUME NEW h \in Handlers, Post(h) \/ Handle(h) PROVE Orderly'
  BY <1>1, <1>10, Posts DEF Post
<1>11. CASE DaemonDies \/ DaemonStarts BY <1>11, Dies, Starts
<1>12. CASE IngressDies BY <1>12, IngressKeeps DEF IngressDies
<1>13. CASE UNCHANGED vars BY <1>1, <1>13 DEF vars
<1>14. ASSUME NEW g \in Guests, GuestWorks(g) \/ \E r \in Runs : GuestComes(g, r)
       PROVE  Orderly'
  BY <1>1, <1>14 DEF GuestWorks, GuestComes
<1> QED BY <1>2, <1>3, <1>4, <1>5, <1>6, <1>7, <1>8, <1>9, <1>10, <1>11, <1>12, <1>13, <1>14
        DEF Next

\* In every reachable state a completed request has its result on disk and a wait that
\* is over (ingest_result, whose appends a stop may cut off anywhere).
THEOREM CompletedHolds == Spec => []CompletedIsSettled
<1>1. Orderly => CompletedIsSettled BY DEF Orderly
<1> QED BY <1>1, InitOrderly, NextOrderly, PTL DEF Spec
-------------------------------------------------------------------------------
(* The posts and what comes of them *)

HandlerSet ==
    [at : {"idle", "limit", "audit", "dispatch", "sending", "status"},
     client : Clients \cup {"none"}, method : Methods, text : Texts \cup {"redacted"},
     ref : Refs, time : Nat, ok : BOOLEAN, task : Nat, state : {"", "pending", "completed"}]
Threads ==
    /\ handler \in [Handlers -> HandlerSet] /\ now \in Nat
    /\ audited \in Nat /\ unaudited \in Nat

\* The accepted sends whose audit line was written or tried.
Tried == audited + unaudited

\* Only a thread that has filed a task has something left to append, its item last;
\* what it was let in with is vetted, and what it read of a completed request was followed
\* by the result.
Clean(h) ==
    /\ handler[h].at = "limit" => handler[h].text \in Texts
    /\ handler[h].at \in {"dispatch", "sending"} \/ (handler[h].at = "audit" /\ handler[h].ok)
         => handler[h].text \in {"plain", "redacted", "empty"}
    /\ handler[h].at = "sending" => handler[h].text # "empty"
    /\ handler[h].at # "sending" => todo[h] = <<>>
    /\ \A k \in 1..Len(todo[h]) : todo[h][k].do = "item" => k = Len(todo[h])
    /\ handler[h].at = "status" /\ handler[h].state = "completed" =>
         \E x \in results : x.req = handler[h].task

\* An accepted send, past its audit, whose item is not there yet and may still come.
Owes(h) ==
    \/ handler[h].at = "dispatch" /\ handler[h].method = "tasks/send"
    \/ \E k \in 1..Len(todo[h]) : todo[h][k].do = "item"
Owed == {h \in Handlers : Owes(h)}
Posted == {j \in 1..Len(items) : items[j].by = "a2a"}
Vetted ==
    /\ Cardinality(Posted) + Cardinality(Owed) <= Tried
    /\ \A j \in Posted : items[j].text \in {"plain", "redacted"}

Orderly2 == Orderly /\ Threads /\ (\A h \in Handlers : Clean(h)) /\ Vetted

\* Both sets are finite.
LEMMA Finite ==
    ASSUME Orderly
    PROVE  /\ IsFiniteSet(Posted) /\ Cardinality(Posted) \in Nat
           /\ IsFiniteSet(Owed) /\ Cardinality(Owed) \in Nat
<1>1. IsFiniteSet(1..Len(items))
  <2>1. Len(items) \in Nat BY DEF Orderly, Records
  <2> QED BY <2>1, FS_Interval
<1>2. IsFiniteSet(Posted) BY <1>1, FS_Subset DEF Posted
<1>3. IsFiniteSet(Owed) BY EventPlaneAssumption, FS_Subset DEF Owed
<1> QED BY <1>2, <1>3, FS_CardinalityType

\* Items stay as they were posted, and new ones are the daemon's.
ItemsOfDaemon ==
    /\ Len(items') >= Len(items)
    /\ \A j \in 1..Len(items) : items'[j].by = items[j].by /\ items'[j].text = items[j].text
    /\ \A j \in Len(items) + 1..Len(items') : items'[j].by = "daemon"

\* A step of the daemon leaves the posts alone.
LEMMA DaemonSide ==
    ASSUME Orderly2, Orderly', UNCHANGED <<handler, now, audited, unaudited>>, ItemsOfDaemon,
           \A h \in Handlers : todo'[h] = todo[h], results \subseteq results'
    PROVE  Orderly2'
<1>1. Threads' BY DEF Orderly2, Threads
<1>2. \A h \in Handlers : Clean(h)'
  <2> SUFFICES ASSUME NEW h \in Handlers PROVE Clean(h)'
    OBVIOUS
  <2>1. Clean(h) /\ handler' = handler /\ todo'[h] = todo[h] BY DEF Orderly2
  <2> QED BY <2>1 DEF Clean
<1>3. Owed' = Owed BY DEF Owed, Owes
<1>4. Len(items) \in Nat /\ Len(items') \in Nat BY DEF Orderly2, Orderly, Records
<1>5. Posted' = Posted BY <1>4 DEF Posted, ItemsOfDaemon
<1>6. Vetted' BY <1>3, <1>5 DEF Orderly2, Vetted, Posted, ItemsOfDaemon, Tried
<1> QED BY <1>1, <1>2, <1>6 DEF Orderly2

\* A thread goes on; it owes an item more only if one more was audited.
LEMMA ThreadSide ==
    ASSUME Orderly2, Orderly', UNCHANGED <<items, results>>, NEW h \in Handlers,
           NEW v \in HandlerSet, handler' = [handler EXCEPT ![h] = v],
           \A g \in Handlers \ {h} : todo'[g] = todo[g],
           Clean(h)', now' \in Nat, audited' \in Nat, unaudited' \in Nat,
           \/ (Owes(h)' => Owes(h)) /\ Tried' = Tried
           \/ Tried' = Tried + 1
    PROVE  Orderly2'
<1>1. handler \in [Handlers -> HandlerSet] BY DEF Orderly2, Threads
<1>2. Threads' BY <1>1 DEF Threads
<1>3. \A g \in Handlers \ {h} : handler'[g] = handler[g] BY <1>1
<1>4. ASSUME NEW g \in Handlers \ {h} PROVE Clean(g)' /\ Owes(g)' = Owes(g)
  <2>1. Clean(g) BY DEF Orderly2
  <2> QED BY <1>3, <2>1 DEF Clean, Owes
<1>5. Posted' = Posted BY DEF Posted
<1>6. /\ IsFiniteSet(Owed) /\ Cardinality(Owed) \in Nat /\ Cardinality(Posted) \in Nat
      /\ IsFiniteSet(Owed') /\ Cardinality(Owed)' \in Nat
  BY Finite, EventPlaneAssumption, FS_Subset, FS_CardinalityType DEF Orderly2, Owed
<1>7. Cardinality(Posted) + Cardinality(Owed) <= Tried /\ Tried \in Nat
  BY DEF Orderly2, Vetted, Threads, Tried
<1>8. Cardinality(Owed)' <= Cardinality(Owed) + 1
  <2>1. Owed' \subseteq Owed \cup {h} BY <1>4 DEF Owed
  <2>2. IsFiniteSet(Owed \cup {h}) BY <1>6, FS_AddElement
  <2>4. Cardinality(Owed \cup {h}) = IF h \in Owed THEN Cardinality(Owed)
                                     ELSE Cardinality(Owed) + 1
    BY <1>6, FS_AddElement
  <2>5. Cardinality(Owed \cup {h}) \in Nat /\ Cardinality(Owed \cup {h}) <= Cardinality(Owed) + 1
    BY <1>6, <2>4
  <2>3. Cardinality(Owed') <= Cardinality(Owed \cup {h}) BY <2>1, <2>2, FS_Subset
  <2> QED BY <1>6, <2>3, <2>5
<1>9. CASE (Owes(h)' => Owes(h)) /\ Tried' = Tried
  <2>1. Owed' \subseteq Owed BY <1>4, <1>9 DEF Owed
  <2>2. Cardinality(Owed') <= Cardinality(Owed) BY <1>6, <2>1, FS_Subset
  <2>3. Cardinality(Posted') + Cardinality(Owed') <= Tried'
    BY <1>5, <1>6, <1>7, <1>9, <2>2
  <2> QED BY <1>2, <1>4, <1>5, <2>3 DEF Orderly2, Vetted
<1>10. CASE Tried' = Tried + 1
  <2>1. Cardinality(Posted') + Cardinality(Owed') <= Tried'
    BY <1>5, <1>6, <1>7, <1>8, <1>10
  <2> QED BY <1>2, <1>4, <1>5, <2>1 DEF Orderly2, Vetted
<1> QED BY <1>9, <1>10

\* The thread's part of the guard, the audit and the answers changes no file.
LEMMA ThreadGoesOn ==
    ASSUME Orderly2, NEW h \in Handlers, UNCHANGED eventVars,
           \/ \E c \in Clients, m \in Methods, t \in Texts, f \in Refs, b \in BOOLEAN :
                Arrive(h, c, m, t, f, b)
           \/ Guard(h) \/ (\E b \in BOOLEAN : Audit(h, b)) \/ Refuse(h) \/ Sent(h) \/ GetResults(h)
           \/ \E i \in Requests : GetStatus(h, i)
    PROVE  Orderly2'
<1>1. Orderly' BY Untouched DEF Orderly2
<1>2. UNCHANGED <<items, results, todo, requests>> BY DEF eventVars
<1>3. /\ handler \in [Handlers -> HandlerSet] /\ handler[h] \in HandlerSet
      /\ now \in Nat /\ audited \in Nat /\ unaudited \in Nat /\ Clean(h)
  BY DEF Orderly2, Threads
<1>4. AtRest \in HandlerSet BY DEF AtRest, HandlerSet, Methods, Texts, Refs
<1>5. ASSUME NEW v \in HandlerSet, handler' = [handler EXCEPT ![h] = v], Clean(h)',
             now' = now, audited' \in Nat, unaudited' \in Nat,
             \/ (Owes(h)' => Owes(h)) /\ Tried' = Tried
             \/ Tried' = Tried + 1
      PROVE  Orderly2'
  BY <1>1, <1>2, <1>3, <1>5, ThreadSide
<1>6. ASSUME Answer(h), handler[h].at # "sending" \/ todo[h] = <<>> PROVE Orderly2'
  <2>1. handler' = [handler EXCEPT ![h] = AtRest] /\ now' = now /\ UNCHANGED <<audited, unaudited>>
    BY <1>6 DEF Answer
  <2>2. handler'[h].at = "idle" /\ todo'[h] = <<>>
    BY <1>2, <1>3, <1>6, <2>1 DEF AtRest, Clean
  <2>3. Clean(h)' /\ ~Owes(h)' BY <2>2 DEF Clean, Owes
  <2> QED BY <1>3, <1>4, <1>5, <2>1, <2>3 DEF Tried
<1>7. CASE Refuse(h) \/ Sent(h) \/ GetResults(h)
  BY <1>6, <1>7 DEF Refuse, Sent, GetResults
<1>8. ASSUME NEW c \in Clients, NEW m \in Methods, NEW t \in Texts, NEW f \in Refs,
             NEW b \in BOOLEAN, Arrive(h, c, m, t, f, b)
      PROVE  Orderly2'
  <2> DEFINE v == IF b THEN [AtRest EXCEPT !.at = "limit", !.client = c, !.method = m,
                                           !.text = t, !.ref = f, !.time = now]
                  ELSE [AtRest EXCEPT !.at = "audit"]
  <2>1. v \in HandlerSet BY <1>3, <1>4 DEF HandlerSet
  <2>2. /\ handler' = [handler EXCEPT ![h] = v] /\ now' = now /\ UNCHANGED <<audited, unaudited>>
        /\ handler[h].at = "idle"
    BY <1>8 DEF Arrive
  <2>3. v.at \in {"limit", "audit"} /\ (v.at = "audit" => ~v.ok) /\ v.text \in Texts
    BY DEF AtRest, Texts
  <2> HIDE DEF v
  <2>4. handler'[h] = v BY <1>3, <2>2
  <2>5. todo'[h] = <<>> BY <1>2, <1>3, <2>2 DEF Clean
  <2>6. Clean(h)' /\ ~Owes(h)' BY <2>3, <2>4, <2>5 DEF Clean, Owes
  <2> QED BY <1>3, <1>5, <2>1, <2>2, <2>6 DEF Tried
<1>9. CASE Guard(h)
  <2> DEFINE w == Recent(Swept(handler[h].time)[handler[h].client], handler[h].time - Window)
  <2> DEFINE ok == Admits(w) /\ handler[h].text # "hostile"
  <2> DEFINE text == IF ok THEN Redacted(handler[h].text) ELSE "empty"
  <2> DEFINE v == [handler[h] EXCEPT !.at = "audit", !.ok = ok, !.text = text]
  <2>1. /\ handler[h].at = "limit" /\ now' = now /\ UNCHANGED <<audited, unaudited>>
        /\ handler' = [handler EXCEPT ![h] = v]
    BY <1>9 DEF Guard
  <2>2. ok \in BOOLEAN BY DEF Admits
  <2>3. /\ text \in Texts \cup {"redacted"}
        /\ ok => text \in {"plain", "redacted", "empty"}
    BY <1>3, <2>1 DEF Clean, Redacted, Texts
  <2> HIDE DEF ok, text
  <2>4. v \in HandlerSet BY <1>3, <2>2, <2>3 DEF HandlerSet
  <2>5. v.at = "audit" /\ v.ok = ok /\ v.text = text BY <1>3 DEF HandlerSet
  <2> HIDE DEF v
  <2>6. handler'[h] = v BY <1>3, <2>1
  <2>7. todo'[h] = <<>> BY <1>2, <1>3, <2>1 DEF Clean
  <2>8. Clean(h)' /\ ~Owes(h)' BY <2>3, <2>5, <2>6, <2>7 DEF Clean, Owes
  <2> QED BY <1>3, <1>5, <2>1, <2>4, <2>8 DEF Tried
<1>10. ASSUME NEW b \in BOOLEAN, Audit(h, b) PROVE Orderly2'
  <2> DEFINE n == IF handler[h].ok /\ handler[h].method = "tasks/send" THEN 1 ELSE 0
  <2>1. /\ handler[h].at = "audit" /\ now' = now
        /\ \/ audited' = audited + n /\ unaudited' = unaudited
           \/ unaudited' = unaudited + n /\ audited' = audited
        /\ handler' = IF handler[h].ok THEN [handler EXCEPT ![h].at = "dispatch"]
                      ELSE [handler EXCEPT ![h] = AtRest]
    BY <1>10 DEF Audit
  <2>2. todo'[h] = <<>> BY <1>2, <1>3, <2>1 DEF Clean
  <2>5. n \in {0, 1} OBVIOUS
  <2>6. audited' \in Nat /\ unaudited' \in Nat /\ Tried' = Tried + n
    <3> HIDE DEF n
    <3> QED BY <1>3, <2>1, <2>5 DEF Tried
  <2>7. Tried \in Nat BY <1>3 DEF Tried
  <2>3. CASE handler[h].ok
    <3> DEFINE v == [handler[h] EXCEPT !.at = "dispatch"]
    <3>1. v \in HandlerSet BY <1>3 DEF HandlerSet
    <3>2. v.at = "dispatch" /\ v.text = handler[h].text /\ v.method = handler[h].method
      BY <1>3 DEF HandlerSet
    <3>3. handler' = [handler EXCEPT ![h] = v] BY <2>1, <2>3
    <3> HIDE DEF v
    <3>4. handler'[h] = v BY <1>3, <3>3
    <3>5. Clean(h)' BY <1>3, <2>1, <2>2, <2>3, <3>2, <3>4 DEF Clean
    <3>6. Owes(h)' => handler[h].method = "tasks/send" BY <2>2, <3>2, <3>4 DEF Owes
    <3>7. CASE handler[h].method = "tasks/send"
      <4>1. Tried' = Tried + 1 BY <2>3, <2>6, <3>7
      <4> QED BY <1>5, <2>1, <2>6, <3>1, <3>3, <3>5, <4>1
    <3>8. CASE handler[h].method # "tasks/send"
      <4>1. Tried' = Tried BY <2>6, <2>7, <3>8
      <4> QED BY <1>5, <2>1, <2>6, <3>1, <3>3, <3>5, <3>6, <3>8, <4>1
    <3> QED BY <3>7, <3>8
  <2>4. CASE ~handler[h].ok
    <3>1. handler' = [handler EXCEPT ![h] = AtRest] /\ Tried' = Tried
      BY <1>3, <2>1, <2>4, <2>6, <2>7
    <3>2. handler'[h].at = "idle" BY <1>3, <3>1 DEF AtRest
    <3>3. Clean(h)' /\ ~Owes(h)' BY <2>2, <3>2 DEF Clean, Owes
    <3> QED BY <1>4, <1>5, <2>1, <2>6, <3>1, <3>3
  <2> QED BY <2>3, <2>4
<1>11. ASSUME NEW i \in Requests, GetStatus(h, i) PROVE Orderly2'
  <2> DEFINE v == [handler[h] EXCEPT !.at = "status", !.task = i, !.state = requests[i].status]
  <2>1. /\ handler[h].at = "dispatch" /\ now' = now /\ UNCHANGED <<audited, unaudited>>
        /\ handler' = [handler EXCEPT ![h] = v]
    BY <1>11 DEF GetStatus
  <2>2. requests[i].status \in {"pending", "completed"} /\ i \in Nat
    <3>1. PICK S : requests \in Seq([session : S, run : S, policy : S, ref : S,
                                     status : {"pending", "completed"}])
      BY DEF Orderly2, Orderly, Records
    <3>2. requests[i] \in [session : S, run : S, policy : S, ref : S,
                           status : {"pending", "completed"}]
      BY <3>1, At DEF Requests
    <3> QED BY <3>1, <3>2 DEF Requests
  <2>3. v \in HandlerSet BY <1>3, <2>2 DEF HandlerSet
  <2>4. v.at = "status" /\ v.task = i /\ v.state = requests[i].status
    BY <1>3 DEF HandlerSet
  <2> HIDE DEF v
  <2>5. handler'[h] = v BY <1>3, <2>1
  <2>6. todo'[h] = <<>> BY <1>2, <1>3, <2>1 DEF Clean
  <2>7. requests[i].status = "completed" => \E x \in results' : x.req = i
    BY <1>2 DEF Orderly2, Orderly, CompletedIsSettled
  <2>8. Clean(h)' /\ ~Owes(h)' BY <2>4, <2>5, <2>6, <2>7 DEF Clean, Owes
  <2> QED BY <1>3, <1>5, <2>1, <2>3, <2>8 DEF Tried
<1> QED BY <1>7, <1>8, <1>9, <1>10, <1>11

\* Two steps in a row.
LEMMA Pair ==
    ASSUME NEW a, NEW b
    PROVE  Len(<<a>> \o <<b>>) = 2 /\ (<<a>> \o <<b>>)[1] = a
OBVIOUS

\* A thread files its task: from now on it owes the item by the steps it has left.
LEMMA SendGoesOn ==
    ASSUME Orderly2, NEW h \in Handlers, NEW s, NEW policy, Send(h, s, TRUE, policy), Orderly'
    PROVE  Orderly2'
<1> DEFINE n == Len(requests) + 1
<1> DEFINE v == [handler[h] EXCEPT !.at = "sending"]
<1>1. /\ handler[h].at = "dispatch" /\ handler[h].method = "tasks/send"
      /\ handler[h].text # "empty" /\ handler' = [handler EXCEPT ![h] = v]
      /\ now' = now /\ UNCHANGED <<audited, unaudited>> /\ UNCHANGED <<items, results>>
      /\ todo' = [todo EXCEPT ![h] = <<Step("wait", n, "none")>> \o <<Step("item", n, "none")>>]
  BY DEF Send, Request, Steps
<1>2. /\ handler \in [Handlers -> HandlerSet] /\ handler[h] \in HandlerSet
      /\ now \in Nat /\ audited \in Nat /\ unaudited \in Nat /\ Clean(h)
  BY DEF Orderly2, Threads
<1>3. v \in HandlerSet /\ v.at = "sending" /\ v.text = handler[h].text BY <1>2 DEF HandlerSet
<1> HIDE DEF v
<1>4. handler'[h] = v BY <1>1, <1>2
<1>5. /\ todo'[h] = <<Step("wait", n, "none")>> \o <<Step("item", n, "none")>>
      /\ \A g \in Handlers \ {h} : todo'[g] = todo[g]
  BY <1>1 DEF Orderly2, Orderly, Called, Callers
<1>6. Len(todo'[h]) = 2 /\ todo'[h][1].do = "wait" BY <1>5, Pair DEF Step
<1>7. \A k \in 1..Len(todo'[h]) : todo'[h][k].do = "item" => k = Len(todo'[h])
  BY <1>6
<1>8. Clean(h)' BY <1>1, <1>2, <1>3, <1>4, <1>7 DEF Clean
<1>9. Owes(h) BY <1>1 DEF Owes
<1> QED BY <1>1, <1>2, <1>3, <1>5, <1>8, <1>9, ThreadSide DEF Tried

\* The next of a thread's steps, and what is left of them.
LEMMA NextOfThread ==
    ASSUME Orderly2, NEW h \in Handlers, todo[h] # <<>>, Done(h)
    PROVE  /\ handler[h].at = "sending" /\ handler[h].text \in {"plain", "redacted"}
           /\ \A p \in Callers \ {h} : todo'[p] = todo[p]
           /\ Len(todo[h]) \in Nat \ {0} /\ Head(todo[h]) = todo[h][1]
           /\ Len(todo'[h]) = Len(todo[h]) - 1
           /\ \A k \in 1..Len(todo'[h]) : k + 1 \in 1..Len(todo[h])
                                          /\ todo'[h][k] = todo[h][k + 1]
           /\ \A k \in 1..Len(todo'[h]) : todo'[h][k].do = "item" => k = Len(todo'[h])
<1>1. PICK S : todo \in [Callers -> Seq(StepsOver(S))] BY DEF Orderly2, Orderly, Called
<1>2. h \in Callers BY DEF Callers
<1>3. Clean(h) BY DEF Orderly2
<1>4. /\ todo'[h] = Tail(todo[h]) /\ \A p \in Callers \ {h} : todo'[p] = todo[p]
      /\ todo[h] \in Seq(StepsOver(S))
  BY <1>1, <1>2 DEF Done
<1>5. /\ Len(todo[h]) \in Nat \ {0} /\ Len(Tail(todo[h])) = Len(todo[h]) - 1
      /\ \A k \in 1..Len(todo[h]) - 1 : Tail(todo[h])[k] = todo[h][k + 1]
      /\ Head(todo[h]) = todo[h][1]
  BY <1>4
<1>6. \A k \in 1..Len(todo'[h]) : k + 1 \in 1..Len(todo[h]) /\ todo'[h][k] = todo[h][k + 1]
  BY <1>4, <1>5
<1>7. ASSUME NEW k \in 1..Len(todo'[h]), todo'[h][k].do = "item" PROVE k = Len(todo'[h])
  <2>1. k + 1 = Len(todo[h]) BY <1>3, <1>6, <1>7 DEF Clean
  <2> QED BY <1>4, <1>5, <2>1
<1> QED BY <1>3, <1>4, <1>5, <1>6, <1>7 DEF Clean

\* A thread enters its wait, and owes its item still.
LEMMA WaitGoesOn ==
    ASSUME Orderly2, NEW h \in Handlers, EnterWait(h), UNCHANGED ingressVars, Orderly'
    PROVE  Orderly2'
<1>1. /\ todo[h] # <<>> /\ Done(h) /\ UNCHANGED <<items, results, handler, now, audited, unaudited>>
  BY DEF EnterWait, Due, ingressVars
<1>2. /\ handler \in [Handlers -> HandlerSet] /\ handler[h] \in HandlerSet
      /\ now \in Nat /\ audited \in Nat /\ unaudited \in Nat /\ Clean(h)
  BY DEF Orderly2, Threads
<1>3. handler' = [handler EXCEPT ![h] = handler[h]] BY <1>1, <1>2
<1>4. handler[h].at = "sending" /\ \A g \in Handlers \ {h} : todo'[g] = todo[g]
  BY <1>1, NextOfThread DEF Callers
<1>5. Clean(h)' BY <1>1, <1>2, <1>4, NextOfThread DEF Clean
<1>6. Owes(h)' => Owes(h)
  <2>1. handler'[h].at # "dispatch" BY <1>1, <1>4
  <2> QED BY <1>1, <2>1, NextOfThread DEF Owes
<1> QED BY <1>1, <1>2, <1>3, <1>4, <1>5, <1>6, ThreadSide DEF Tried

\* A thread posts the item it owed.
LEMMA SeedGoesOn ==
    ASSUME Orderly2, NEW h \in Handlers, SeedItem(h, handler[h].text), UNCHANGED ingressVars,
           Orderly'
    PROVE  Orderly2'
<1> DEFINE it == Item(Its(h), "a2a", NoKey, handler[h].text, requests[Its(h)].ref, 0)
<1> DEFINE new == Len(items) + 1
<1>1. /\ todo[h] # <<>> /\ Head(todo[h]).do = "item" /\ Done(h)
      /\ items' = Append(items, it)
      /\ UNCHANGED <<results, handler, now, audited, unaudited>>
  BY DEF SeedItem, Due, ingressVars
<1>2. /\ handler[h].at = "sending" /\ handler[h].text \in {"plain", "redacted"}
      /\ \A g \in Handlers \ {h} : todo'[g] = todo[g]
  BY <1>1, NextOfThread DEF Callers
<1>3. todo'[h] = <<>> /\ Owes(h)
  <2>1. Clean(h) BY DEF Orderly2
  <2>2. 1 \in 1..Len(todo[h]) /\ todo[h][1].do = "item" BY <1>1, NextOfThread
  <2>3. Len(todo'[h]) = 0 BY <1>1, <2>1, <2>2, NextOfThread DEF Clean
  <2>4. PICK S : todo' \in [Callers -> Seq(StepsOver(S))] BY DEF Orderly, Called
  <2>5. todo'[h] \in Seq(StepsOver(S)) BY <2>4 DEF Callers
  <2> QED BY <2>2, <2>3, <2>5 DEF Owes
<1>4. it.by = "a2a" /\ it.text = handler[h].text BY DEF Item
<1> HIDE DEF it
<1>5. PICK T : items \in Seq([req : T, by : T, key : T, text : T, ref : T, life : T, status : T,
                              wake : T])
  BY DEF Orderly2, Orderly, Records
<1>6. /\ Len(items) \in Nat /\ Len(items') = new /\ items'[new] = it
      /\ \A j \in 1..Len(items) : items'[j] = items[j]
  BY <1>1, <1>5
<1>7. Posted' = Posted \cup {new} BY <1>4, <1>6 DEF Posted
<1>8. Threads' BY <1>1 DEF Orderly2, Threads
<1>9. \A g \in Handlers : Clean(g)'
  <2>1. ASSUME NEW g \in Handlers \ {h} PROVE Clean(g)'
    <3>1. Clean(g) BY DEF Orderly2
    <3> QED BY <1>1, <1>2, <3>1 DEF Clean
  <2>2. Clean(h)'
    <3>1. Clean(h) BY DEF Orderly2
    <3> QED BY <1>1, <1>2, <1>3, <3>1 DEF Clean
  <2> QED BY <2>1, <2>2
<1>10. Owed' = Owed \ {h}
  <2>1. \A g \in Handlers \ {h} : Owes(g)' = Owes(g) BY <1>1, <1>2 DEF Owes
  <2>2. ~Owes(h)' BY <1>1, <1>2, <1>3 DEF Owes
  <2> QED BY <2>1, <2>2 DEF Owed
<1>11. Cardinality(Posted') + Cardinality(Owed') <= Tried'
  <2>1. /\ IsFiniteSet(Posted) /\ Cardinality(Posted) \in Nat
        /\ IsFiniteSet(Owed) /\ Cardinality(Owed) \in Nat
    BY Finite DEF Orderly2
  <2>2. Cardinality(Posted) + Cardinality(Owed) <= Tried /\ Tried \in Nat
    BY DEF Orderly2, Vetted, Threads, Tried
  <2>3. Cardinality(Owed \ {h}) = Cardinality(Owed) - 1
    BY <1>3, <2>1, FS_RemoveElement DEF Owed
  <2>4. new \notin Posted BY <1>6 DEF Posted
  <2> HIDE DEF new
  <2>5. Cardinality(Posted \cup {new}) = Cardinality(Posted) + 1
    BY <2>1, <2>4, FS_AddElement
  <2> QED BY <1>1, <1>7, <1>10, <2>1, <2>2, <2>3, <2>5 DEF Tried
<1>12. \A j \in Posted' : items'[j].text \in {"plain", "redacted"}
  BY <1>2, <1>4, <1>6, <1>7 DEF Orderly2, Vetted, Posted
<1> QED BY <1>8, <1>9, <1>11, <1>12 DEF Orderly2, Vetted

\* The A2A server stops: nothing is owed any more.
LEMMA IngressStops == ASSUME Orderly2, IngressDies, Orderly' PROVE Orderly2'
<1>1. /\ todo' = [p \in Callers |-> IF p = "daemon" THEN todo[p] ELSE <<>>]
      /\ handler' = [h \in Handlers |-> AtRest]
      /\ UNCHANGED <<now, audited, unaudited, items>>
  BY DEF IngressDies
<1>2. AtRest \in HandlerSet /\ AtRest.at = "idle" BY DEF AtRest, HandlerSet, Methods, Texts, Refs
<1>3. Threads' BY <1>1, <1>2 DEF Orderly2, Threads
<1>4. \A h \in Handlers : todo'[h] = <<>> /\ handler'[h].at = "idle"
  BY <1>1, <1>2, EventPlaneAssumption DEF Callers
<1>5. \A h \in Handlers : Clean(h)' /\ ~Owes(h)' BY <1>4 DEF Clean, Owes
<1>6. Owed' = {} BY <1>5 DEF Owed
<1>7. Cardinality(Owed') = 0 BY <1>6, FS_EmptySet
<1>8. Posted' = Posted BY <1>1 DEF Posted
<1>9. Vetted'
  <2>1. Cardinality(Posted) \in Nat /\ Cardinality(Owed) \in Nat BY Finite DEF Orderly2
  <2>2. Cardinality(Posted') + Cardinality(Owed') <= Tried'
    BY <1>1, <1>7, <1>8, <2>1 DEF Orderly2, Vetted, Threads, Tried
  <2> QED BY <1>1, <1>8, <2>2 DEF Orderly2, Vetted
<1> QED BY <1>3, <1>5, <1>9 DEF Orderly2

\* The steps of the daemon leave the posts alone.
LEMMA DaemonGoesOn ==
    ASSUME Orderly2, Orderly', UNCHANGED ingressVars,
           \/ UNCHANGED eventVars
           \/ /\ \A h \in Handlers : todo'[h] = todo[h]
              /\ \/ UNCHANGED <<items, results>>
                 \/ UNCHANGED items /\ results \subseteq results'
                 \/ UNCHANGED results /\ ItemsOfDaemon
    PROVE  Orderly2'
<1>1. UNCHANGED <<handler, now, audited, unaudited>> BY DEF ingressVars
<1>2. UNCHANGED items => ItemsOfDaemon
  <2>1. Len(items) \in Nat BY DEF Orderly2, Orderly, Records
  <2> QED BY <2>1 DEF ItemsOfDaemon
<1> QED BY <1>1, <1>2, DaemonSide DEF eventVars

\* Whatever the daemon's call does next is done of the daemon's steps only.
LEMMA OwnSteps ==
    ASSUME Orderly2
    PROVE  /\ \A ss : Steps("daemon", ss) => \A h \in Handlers : todo'[h] = todo[h]
           /\ Done("daemon") => \A h \in Handlers : todo'[h] = todo[h]
<1>1. PICK S : todo \in [Callers -> Seq(StepsOver(S))] BY DEF Orderly2, Orderly, Called
<1> QED BY <1>1, EventPlaneAssumption DEF Steps, Done, Callers

\* What the daemon writes to an item is not who posted it, nor what it says.
LEMMA ItemMarked ==
    ASSUME Orderly2, NEW j, NEW v,
           \/ items' = [items EXCEPT ![j].wake = v]
           \/ items' = [items EXCEPT ![j].status = v]
    PROVE  ItemsOfDaemon
<1>1. PICK T : items \in Seq([req : T, by : T, key : T, text : T, ref : T, life : T, status : T,
                              wake : T])
  BY DEF Orderly2, Orderly, Records
<1>2. CASE j \notin 1..Len(items)
  <2>1. items' = items BY <1>1, <1>2
  <2> QED BY <1>1, <2>1 DEF ItemsOfDaemon
<1>3. ASSUME j \in 1..Len(items) PROVE ItemsOfDaemon
  <2>1. items[j] \in [req : T, by : T, key : T, text : T, ref : T, life : T, status : T, wake : T]
    BY <1>1, <1>3, At
  <2>2. PICK it : it.by = items[j].by /\ it.text = items[j].text
                  /\ items' = [items EXCEPT ![j] = it]
    <3>1. CASE items' = [items EXCEPT ![j].wake = v]
      <4>1. items' = [items EXCEPT ![j] = [items[j] EXCEPT !.wake = v]] BY <3>1
      <4>2. [items[j] EXCEPT !.wake = v].by = items[j].by
            /\ [items[j] EXCEPT !.wake = v].text = items[j].text
        BY <2>1
      <4> QED BY <4>1, <4>2
    <3>2. CASE items' = [items EXCEPT ![j].status = v]
      <4>1. items' = [items EXCEPT ![j] = [items[j] EXCEPT !.status = v]] BY <3>2
      <4>2. [items[j] EXCEPT !.status = v].by = items[j].by
            /\ [items[j] EXCEPT !.status = v].text = items[j].text
        BY <2>1
      <4> QED BY <4>1, <4>2
    <3> QED BY <3>1, <3>2
  <2>3. Len(items') = Len(items) /\ \A k \in 1..Len(items) :
           items'[k] = IF k = j THEN it ELSE items[k]
    BY <1>1, <1>3, <2>2
  <2>4. Len(items) \in Nat BY <1>1
  <2> QED BY <2>2, <2>3, <2>4 DEF ItemsOfDaemon
<1> QED BY <1>2, <1>3

\* Nor is what it takes in a post.
LEMMA ItemTaken ==
    ASSUME Orderly2, NEW i, NEW key, NEW when, NEW rest, Ingest(i, key, when, rest)
    PROVE  ItemsOfDaemon
<1> DEFINE it == Item(i, "daemon", key, "result", "", when)
<1>1. items' = Append(items, it) /\ it.by = "daemon" BY DEF Ingest, Item
<1> HIDE DEF it
<1>2. PICK T : items \in Seq([req : T, by : T, key : T, text : T, ref : T, life : T, status : T,
                              wake : T])
  BY DEF Orderly2, Orderly, Records
<1>3. /\ Len(items) \in Nat /\ Len(items') = Len(items) + 1
      /\ items'[Len(items) + 1] = it
      /\ \A j \in 1..Len(items) : items'[j] = items[j]
  BY <1>1, <1>2
<1> QED BY <1>1, <1>3 DEF ItemsOfDaemon

\* Every step keeps the second invariant.
LEMMA NextOrderly2 == Orderly2 /\ [Next]_vars => Orderly2'
<1> SUFFICES ASSUME Orderly2, [Next]_vars PROVE Orderly2'
  OBVIOUS
<1>0. Orderly' BY NextOrderly DEF Orderly2
<1> DEFINE Own == \A h \in Handlers : todo'[h] = todo[h]
<1>1. CASE UNCHANGED <<eventVars, ingressVars>> BY <1>0, <1>1, DaemonGoesOn
<1>2. ASSUME UNCHANGED ingressVars, UNCHANGED <<items, results>>,
             Done("daemon") \/ \E ss : Steps("daemon", ss)
      PROVE  Orderly2'
  <2>1. Own BY <1>2, OwnSteps
  <2> QED BY <1>0, <1>2, <2>1, DaemonGoesOn
<1>3. ASSUME NEW r \in Runs, NEW b \in BOOLEAN, RegisterRun(r, b) \/ AckReview(r, b)
      PROVE  Orderly2'
  BY <1>1, <1>2, <1>3 DEF RegisterRun, AckReview
<1>4. ASSUME NEW r \in Runs,
             Resume(r) \/ Escalate(r) \/ AskClarification(r) \/ Work(r) \/ Answers(r)
      PROVE  Orderly2'
  <2>1. CASE Resume(r) BY <1>2, <2>1 DEF Resume
  <2>2. CASE Escalate(r) BY <1>2, <2>2 DEF Escalate
  <2>3. CASE AskClarification(r) \/ Work(r) \/ Answers(r)
    BY <1>1, <2>3 DEF AskClarification, Work, Answers
  <2> QED BY <1>4, <2>1, <2>2, <2>3
<1>5. CASE LaunchRun \/ SaveFinal \/ WriteEvent \/ WriteNote \/ SkipLine \/ ParkOrphan
  BY <1>2, <1>5 DEF LaunchRun, SaveFinal, WriteEvent, WriteNote, SkipLine, ParkOrphan
<1>6. CASE ReapRuns \/ Lands BY <1>1, <1>6 DEF ReapRuns, Lands
<1>7. CASE Append1
  <2>1. UNCHANGED ingressVars BY <1>7 DEF Append1
  <2>2. CASE EnterWait("daemon") \/ SettleWait("daemon") \/ Complete("daemon")
    BY <1>2, <2>1, <2>2 DEF EnterWait, SettleWait, Complete
  <2>3. CASE RecordResult("daemon")
    <3>1. Done("daemon") /\ UNCHANGED items /\ results \subseteq results'
      BY <2>3 DEF RecordResult
    <3> QED BY <1>0, <2>1, <3>1, OwnSteps, DaemonGoesOn
  <2>4. ASSUME NEW top, Decide("daemon", top) PROVE Orderly2'
    <3>1. Done("daemon") /\ UNCHANGED results /\ ItemsOfDaemon
      BY <2>4, ItemMarked DEF Decide
    <3> QED BY <1>0, <2>1, <3>1, OwnSteps, DaemonGoesOn
  <2> QED BY <1>7, <2>2, <2>3, <2>4 DEF Append1
<1>8. ASSUME NEW r, NEW s, NEW policy, CreateTask(r, s, policy) PROVE Orderly2'
  BY <1>2, <1>8 DEF CreateTask, Request
<1>9. ASSUME NEW i, NEW key, IngestResult(i, key) PROVE Orderly2'
  <2>1. /\ UNCHANGED <<ingressVars, results>> /\ ItemsOfDaemon
        /\ \E ss : Steps("daemon", ss)
    BY <1>9, ItemTaken DEF IngestResult, Ingest
  <2> QED BY <1>0, <2>1, OwnSteps, DaemonGoesOn
<1>10. ASSUME NEW j, AckItem(j) PROVE Orderly2'
  <2>1. UNCHANGED <<ingressVars, results, todo>> /\ ItemsOfDaemon
    BY <1>10, ItemMarked DEF AckItem, Ack
  <2> QED BY <1>0, <2>1, DaemonGoesOn
<1>11. ASSUME NEW h \in Handlers, Post(h) PROVE Orderly2'
  BY <1>11, ThreadGoesOn DEF Post
<1>12. ASSUME NEW h \in Handlers, Handle(h) PROVE Orderly2'
  BY <1>0, <1>12, ThreadGoesOn, SendGoesOn, WaitGoesOn, SeedGoesOn DEF Handle
<1>13. CASE ClockTicks
  <2>1. /\ UNCHANGED <<handler, audited, unaudited, items, results, todo>> /\ now' = now + 1
    BY <1>13 DEF ClockTicks, Tick, eventVars
  <2>2. now' \in Nat BY <2>1 DEF Orderly2, Threads
  <2>3. Threads' /\ (\A h \in Handlers : Clean(h)') /\ Vetted'
    BY <2>1, <2>2 DEF Orderly2, Threads, Clean, Vetted, Posted, Owed, Owes, Tried
  <2> QED BY <1>0, <2>3 DEF Orderly2
<1>14. CASE DaemonDies \/ DaemonStarts BY <1>2, <1>14 DEF DaemonDies, DaemonStarts
<1>15. CASE IngressDies BY <1>0, <1>15, IngressStops
<1>16. CASE UNCHANGED vars BY <1>1, <1>16 DEF vars
<1>17. ASSUME NEW g \in Guests, GuestWorks(g) \/ \E r \in Runs : GuestComes(g, r)
       PROVE  Orderly2'
  BY <1>1, <1>17 DEF GuestWorks, GuestComes
<1> QED BY <1>3, <1>4, <1>5, <1>6, <1>7, <1>8, <1>9, <1>10, <1>11, <1>12, <1>13, <1>14, <1>15,
           <1>16, <1>17 DEF Next

\* Nothing is posted at first.
LEMMA InitOrderly2 == Init => Orderly2
<1> SUFFICES ASSUME Init PROVE Orderly2
  OBVIOUS
<1>1. /\ handler = [h \in Handlers |-> AtRest] /\ now = 0 /\ audited = 0 /\ unaudited = 0
      /\ todo = [p \in Callers |-> <<>>] /\ items = <<>>
  BY DEF Init, IngressInit, EventInit
<1>2. AtRest \in HandlerSet /\ AtRest.at = "idle" BY DEF AtRest, HandlerSet, Methods, Texts, Refs
<1>3. Threads BY <1>1, <1>2 DEF Threads
<1>4. \A h \in Handlers : todo[h] = <<>> /\ handler[h].at = "idle"
  BY <1>1, <1>2 DEF Callers
<1>5. \A h \in Handlers : Clean(h) /\ ~Owes(h) BY <1>4 DEF Clean, Owes
<1>6. Owed = {} /\ Posted = {} BY <1>1, <1>5 DEF Owed, Posted
<1>7. Vetted BY <1>1, <1>6, FS_EmptySet DEF Vetted, Tried
<1> QED BY <1>3, <1>5, <1>7, InitOrderly DEF Orderly2

\* In every reachable state there are no more posted items in mailboxes than accepted sends
\* whose audit line was written or failed, and their messages are vetted text (do_POST:
\* guard, audit, then the method).
THEOREM VettedHolds == Spec => []InboundVetted
<1>1. Orderly2 => InboundVetted
  <2> SUFFICES ASSUME Orderly2 PROVE InboundVetted
    OBVIOUS
  <2>1. Cardinality(Posted) \in Nat /\ Cardinality(Owed) \in Nat BY Finite DEF Orderly2
  <2>2. Cardinality(Posted) <= Tried
    BY <2>1 DEF Orderly2, Vetted, Threads, Tried
  <2> QED BY <2>2 DEF Orderly2, Vetted, Posted, InboundVetted, Tried
<1> QED BY <1>1, InitOrderly2, NextOrderly2, PTL DEF Spec

\* In every reachable state a thread that has read "completed" will find a result
\* (handle_tasks_get reads the request, then its results).
THEOREM ArtifactHolds == Spec => []CompletedHasArtifact
<1>1. Orderly2 => CompletedHasArtifact
  BY DEF Orderly2, Clean, CompletedHasArtifact, Artifacts
<1> QED BY <1>1, InitOrderly2, NextOrderly2, PTL DEF Spec
-------------------------------------------------------------------------------
(* What becomes of the results the daemon takes in *)

Mine(j) == items[j].by = "daemon"
Recorded(j) == \E x \in results : x.req = items[j].req /\ x.key = items[j].key
Ahead(do, n) == \E k \in 1..Len(Call) : Call[k].do = do /\ Call[k].n = n

\* A result had its effect, or the rest of its call is still ahead.
Effect(j) ==
    /\ Recorded(j) \/ Ahead("result", j)
    /\ requests[items[j].req].status = "completed" \/ Ahead("complete", items[j].req)
    /\ waits[items[j].req] # "waiting" \/ Ahead("settle", items[j].req)
    /\ items[j].wake # Undecided \/ Ahead("wake", j)

\* The daemon's items are of requests whose wait has been entered, and of one of its
\* lives; of one life there is one for a key.
Known ==
    \A j \in 1..Len(items) :
        /\ items[j].key # NoKey => Mine(j)
        /\ Mine(j) => items[j].req \in Requests /\ Announced(items[j].req)
                      /\ items[j].life \in 1..life
Effects == up => \A j \in 1..Len(items) : Mine(j) /\ items[j].life = life => Effect(j)
Once ==
    \A a, b \in 1..Len(items) :
        /\ Mine(a) /\ Mine(b) /\ items[a].life = items[b].life
        /\ items[a].req = items[b].req /\ items[a].key = items[b].key /\ items[a].key # NoKey
        => a = b

Orderly3 == Orderly /\ life \in Nat \ {0} /\ Known /\ Effects /\ Once

\* The files only grow, in what this is about.
Grown ==
    /\ Len(items') >= Len(items)
    /\ \A j \in 1..Len(items) :
         /\ items'[j].by = items[j].by /\ items'[j].req = items[j].req
         /\ items'[j].key = items[j].key /\ items'[j].life = items[j].life
         /\ items[j].wake # Undecided => items'[j].wake # Undecided
    /\ results \subseteq results'
    /\ Requests \subseteq Requests'
    /\ \A i \in Requests :
         /\ requests[i].status = "completed" => requests'[i].status = "completed"
         /\ Announced(i) => Announced(i)'
         /\ Announced(i) /\ waits[i] # "waiting" => waits'[i] # "waiting"
Others1 == \A j \in Len(items) + 1..Len(items') : items'[j].by # "daemon" /\ items'[j].key = NoKey

\* What is ahead stays ahead, or has been done.
AheadKept ==
    /\ \A j \in 1..Len(items) : Ahead("result", j) => Ahead("result", j)' \/ Recorded(j)'
    /\ \A i \in Requests : Ahead("complete", i) =>
         Ahead("complete", i)' \/ requests'[i].status = "completed"
    /\ \A i \in Requests : Ahead("settle", i) => Ahead("settle", i)' \/ waits'[i] # "waiting"
    /\ \A j \in 1..Len(items) : Ahead("wake", j) => Ahead("wake", j)' \/ items'[j].wake # Undecided

\* Old items keep what is known of them.
LEMMA GrownKnown ==
    ASSUME Orderly3, Orderly', Grown, Others1, life' \in Nat, life' >= life
    PROVE  Known' /\ Once'
<1>1. Len(items) \in Nat /\ Len(items') \in Nat /\ life \in Nat
  BY DEF Orderly3, Orderly, Records
<1>2. \A j \in 1..Len(items') : items'[j].by = "daemon" \/ items'[j].key # NoKey =>
        j \in 1..Len(items)
  BY <1>1 DEF Others1, Grown
<1>3. ASSUME NEW j \in 1..Len(items'), items'[j].by = "daemon" \/ items'[j].key # NoKey
      PROVE  /\ items'[j].by = "daemon"
             /\ items'[j].req \in Requests' /\ Announced(items[j].req)'
             /\ items'[j].life \in 1..life'
  <2>1. j \in 1..Len(items) BY <1>2, <1>3
  <2>2. PICK i : i = items[j].req OBVIOUS
  <2>3. /\ items'[j].by = items[j].by /\ items'[j].req = i
        /\ items'[j].key = items[j].key /\ items'[j].life = items[j].life
    BY <2>1, <2>2 DEF Grown
  <2>4. items[j].by = "daemon" /\ i \in Requests /\ Announced(i) /\ items[j].life \in 1..life
    BY <1>3, <2>1, <2>2, <2>3 DEF Orderly3, Known, Mine
  <2>5. i \in Requests' /\ Announced(i)' BY <2>4 DEF Grown
  <2>6. Announced(items[j].req)' BY <2>3, <2>5 DEF Announced
  <2> QED BY <1>1, <2>3, <2>4, <2>5, <2>6
<1>4. Known' BY <1>3 DEF Known, Mine
<1>5. Once'
  <2> SUFFICES ASSUME NEW a \in 1..Len(items'), NEW b \in 1..Len(items'),
                      items'[a].by = "daemon", items'[b].by = "daemon",
                      items'[a].life = items'[b].life, items'[a].req = items'[b].req,
                      items'[a].key = items'[b].key, items'[a].key # NoKey
               PROVE  a = b
    BY DEF Once, Mine
  <2>1. a \in 1..Len(items) /\ b \in 1..Len(items) BY <1>2
  <2> QED BY <2>1 DEF Grown, Orderly3, Once, Mine
<1> QED BY <1>4, <1>5

\* And have had their effect, or have it ahead.
LEMMA GrownEffects ==
    ASSUME Orderly3, Orderly', Grown, Others1, AheadKept \/ Call = <<>>,
           UNCHANGED <<up, life>>
    PROVE  Orderly3'
<1>1. Len(items) \in Nat /\ Len(items') \in Nat BY DEF Orderly3, Orderly, Records
<1>2. Known' /\ Once' BY GrownKnown DEF Orderly3
<1>3. ASSUME up, NEW j \in 1..Len(items'), items'[j].by = "daemon", items'[j].life = life
      PROVE  Effect(j)'
  <2>1. j \in 1..Len(items) BY <1>1, <1>3 DEF Others1, Grown
  <2>2. PICK i : i = items[j].req OBVIOUS
  <2>3. /\ items[j].by = "daemon" /\ items'[j].req = i /\ items'[j].key = items[j].key
        /\ items[j].life = life
    BY <1>3, <2>1, <2>2 DEF Grown
  <2>4. Effect(j) /\ i \in Requests /\ Announced(i)
    BY <1>3, <2>1, <2>2, <2>3 DEF Orderly3, Effects, Known, Mine
  <2>5. Recorded(j) => Recorded(j)' BY <2>2, <2>3 DEF Recorded, Grown
  <2>6. requests[i].status = "completed" => requests'[i].status = "completed"
    BY <2>4 DEF Grown
  <2>7. waits[i] # "waiting" => waits'[i] # "waiting" BY <2>4 DEF Grown
  <2>8. items[j].wake # Undecided => items'[j].wake # Undecided BY <2>1 DEF Grown
  <2>9. CASE AheadKept
    <3>1. Recorded(j)' \/ Ahead("result", j)' BY <2>1, <2>4, <2>5, <2>9 DEF AheadKept, Effect
    <3>2. requests'[i].status = "completed" \/ Ahead("complete", i)'
      BY <2>2, <2>4, <2>6, <2>9 DEF AheadKept, Effect
    <3>3. waits'[i] # "waiting" \/ Ahead("settle", i)'
      BY <2>2, <2>4, <2>7, <2>9 DEF AheadKept, Effect
    <3>4. items'[j].wake # Undecided \/ Ahead("wake", j)'
      BY <2>1, <2>4, <2>8, <2>9 DEF AheadKept, Effect
    <3> QED BY <2>3, <3>1, <3>2, <3>3, <3>4 DEF Effect, Ahead
  <2>10. CASE Call = <<>>
    <3>1. \A do, n : ~Ahead(do, n) BY <2>10 DEF Ahead
    <3>2. Recorded(j)' /\ requests'[i].status = "completed" /\ waits'[i] # "waiting"
          /\ items'[j].wake # Undecided
      BY <2>2, <2>4, <2>5, <2>6, <2>7, <2>8, <3>1 DEF Effect
    <3> QED BY <2>3, <3>2 DEF Effect
  <2> QED BY <2>9, <2>10
<1>4. Effects' BY <1>3 DEF Effects, Mine
<1> QED BY <1>2, <1>4 DEF Orderly3

\* A request stays announced unless a wait for it is newly ahead.
LEMMA StaysAnnounced ==
    ASSUME NEW i, Announced(i),
           \A q \in Callers : \A k \in 1..Len(todo'[q]) : todo'[q][k].do = "wait" =>
              todo'[q][k].n # i \/ \E l \in 1..Len(todo[q]) : todo'[q][k] = todo[q][l]
    PROVE  Announced(i)'
BY DEF Announced

\* What is left of a call after its next step.
LEMMA Rest ==
    ASSUME Orderly, NEW p \in Callers, todo[p] # <<>>, Done(p)
    PROVE  /\ \A q \in Callers \ {p} : todo'[q] = todo[q]
           /\ Len(todo[p]) \in Nat \ {0} /\ Head(todo[p]) = todo[p][1]
           /\ Len(todo'[p]) = Len(todo[p]) - 1
           /\ \A k \in 1..Len(todo[p]) - 1 : todo'[p][k] = todo[p][k + 1]
<1>1. PICK S : todo \in [Callers -> Seq(StepsOver(S))] BY DEF Orderly, Called
<1>2. /\ todo'[p] = Tail(todo[p]) /\ \A q \in Callers \ {p} : todo'[q] = todo[q]
      /\ todo[p] \in Seq(StepsOver(S))
  BY <1>1 DEF Done
<1> QED BY <1>2

\* Every request stays announced, and what the daemon has ahead stays but for the step done.
LEMMA RestAhead ==
    ASSUME Orderly, NEW p \in Callers, todo[p] # <<>>, Done(p)
    PROVE  /\ \A i : Announced(i) => Announced(i)'
           /\ \A do, n : Ahead(do, n) =>
                \/ Ahead(do, n)'
                \/ p = "daemon" /\ Head(todo[p]).do = do /\ Head(todo[p]).n = n
<1>1. ASSUME NEW q \in Callers, NEW k \in 1..Len(todo'[q])
      PROVE  \E l \in 1..Len(todo[q]) : todo'[q][k] = todo[q][l]
  <2>1. CASE q = p
    <3>1. k + 1 \in 1..Len(todo[p]) /\ todo'[p][k] = todo[p][k + 1] BY <2>1, Rest
    <3> QED BY <2>1, <3>1
  <2>2. CASE q # p BY <2>2, Rest
  <2> QED BY <2>1, <2>2
<1>2. \A i : Announced(i) => Announced(i)' BY <1>1, StaysAnnounced
<1>3. ASSUME NEW do, NEW n, NEW k \in 1..Len(Call), Call[k].do = do, Call[k].n = n
      PROVE  \/ Ahead(do, n)'
             \/ p = "daemon" /\ Head(todo[p]).do = do /\ Head(todo[p]).n = n
  <2>1. CASE p = "daemon"
    <3>1. CASE k = 1 BY <1>3, <2>1, <3>1, Rest DEF Call
    <3>2. CASE k # 1
      <4>1. k - 1 \in 1..Len(Call') /\ Call'[k - 1] = Call[(k - 1) + 1]
        BY <2>1, <3>2, Rest DEF Call
      <4>2. Call'[k - 1] = Call[k] BY <4>1
      <4> QED BY <1>3, <4>1, <4>2 DEF Ahead
    <3> QED BY <3>1, <3>2
  <2>2. CASE p # "daemon"
    <3>1. Call' = Call BY <2>2, Rest DEF Call, Callers
    <3> QED BY <1>3, <3>1 DEF Ahead
  <2> QED BY <2>1, <2>2
<1> QED BY <1>2, <1>3 DEF Ahead

\* A call goes on by a step that takes nothing back, and does what it says.
LEMMA GoesOn ==
    ASSUME Orderly3, Orderly', UNCHANGED <<up, life>>, NEW p \in Callers, todo[p] # <<>>, Done(p),
           Len(items') >= Len(items), Others1, results \subseteq results',
           Len(requests') = Len(requests),
           \A j \in 1..Len(items) :
              /\ items'[j].by = items[j].by /\ items'[j].req = items[j].req
              /\ items'[j].key = items[j].key /\ items'[j].life = items[j].life
              /\ items[j].wake # Undecided => items'[j].wake # Undecided,
           \A i \in Requests :
              /\ requests[i].status = "completed" => requests'[i].status = "completed"
              /\ waits[i] # "waiting" => waits'[i] # "waiting"
                                         \/ (Head(todo[p]).do = "wait" /\ Head(todo[p]).n = i),
           p = "daemon" =>
              LET n == Head(todo[p]).n IN
              /\ Head(todo[p]).do = "result" => \A j \in 1..Len(items) : n = j => Recorded(j)'
              /\ Head(todo[p]).do = "complete" => (n \in Requests =>
                    requests'[n].status = "completed")
              /\ Head(todo[p]).do = "settle" => waits'[n] # "waiting"
              /\ Head(todo[p]).do = "wake" => (n \in 1..Len(items) => items'[n].wake # Undecided)
    PROVE  Orderly3'
<1> DEFINE n == Head(todo[p]).n
<1>1. Orderly BY DEF Orderly3
<1>2. \A i : Announced(i) => Announced(i)' BY <1>1, RestAhead
<1>3. \A i : Announced(i) => ~(Head(todo[p]).do = "wait" /\ n = i)
  BY <1>1, Rest DEF Announced
<1>4. Grown BY <1>2, <1>3 DEF Grown, Requests
<1>5. ASSUME NEW do, NEW m, Ahead(do, m)
      PROVE  Ahead(do, m)' \/ (p = "daemon" /\ Head(todo[p]).do = do /\ n = m)
  BY <1>1, <1>5, RestAhead
<1>6. AheadKept
  <2>1. \A j \in 1..Len(items) : Ahead("result", j) => Ahead("result", j)' \/ Recorded(j)'
    BY <1>5 DEF Recorded
  <2>2. \A i \in Requests : Ahead("complete", i) =>
          Ahead("complete", i)' \/ requests'[i].status = "completed"
    BY <1>5
  <2>3. \A i \in Requests : Ahead("settle", i) => Ahead("settle", i)' \/ waits'[i] # "waiting"
    BY <1>5
  <2>4. \A j \in 1..Len(items) : Ahead("wake", j) =>
          Ahead("wake", j)' \/ items'[j].wake # Undecided
    BY <1>5
  <2> QED BY <2>1, <2>2, <2>3, <2>4 DEF AheadKept
<1> QED BY <1>4, <1>6, GrownEffects

\* A new call of steps that are not about requests leaves every request announced.
LEMMA CallAnnounces ==
    ASSUME Orderly, NEW ss, Steps("daemon", ss), \A k \in 1..Len(ss) : ss[k].do # "wait"
    PROVE  todo'["daemon"] = ss /\ (\A h \in Handlers : todo'[h] = todo[h])
           /\ \A i : Announced(i) => Announced(i)'
<1>1. PICK S : todo \in [Callers -> Seq(StepsOver(S))] BY DEF Orderly, Called
<1>2. todo'["daemon"] = ss /\ \A h \in Handlers : todo'[h] = todo[h]
  BY <1>1, EventPlaneAssumption DEF Steps, Callers
<1>3. ASSUME NEW q \in Callers, NEW k \in 1..Len(todo'[q]), todo'[q][k].do = "wait"
      PROVE  \E l \in 1..Len(todo[q]) : todo'[q][k] = todo[q][l]
  BY <1>2, <1>3 DEF Callers
<1> QED BY <1>2, <1>3, StaysAnnounced

\* The daemon takes up such a call, when it has done the one before.
LEMMA TakesUp ==
    ASSUME Orderly3, Orderly', NEW S, NEW ss \in PlainSteps(S), Steps("daemon", ss), Call = <<>>,
           UNCHANGED <<requests, waits, results, items, up, life>>
    PROVE  Orderly3'
<1>1. \A k \in 1..Len(ss) : ss[k].do # "wait" BY PlainOnes DEF Plain
<1>2. \A i : Announced(i) => Announced(i)' BY <1>1, CallAnnounces DEF Orderly3
<1>3. Len(items) \in Nat BY DEF Orderly3, Orderly, Records
<1>4. Grown /\ Others1 BY <1>2, <1>3 DEF Grown, Others1, Requests
<1> QED BY <1>4, GrownEffects

\* A request is filed; its own wait is the only one that is newly ahead.
LEMMA Files ==
    ASSUME Orderly3, Orderly', NEW p \in Callers, NEW s, NEW r, NEW policy, NEW ref, NEW S,
           NEW rest \in PlainSteps(S), Request(p, s, r, policy, ref, rest),
           p = "daemon" => Call = <<>>, UNCHANGED <<up, life>>
    PROVE  Orderly3'
<1> DEFINE n == Len(requests) + 1
<1> DEFINE ss == <<Step("wait", n, r)>> \o rest
<1>0. PICK R : requests \in Seq([session : R, run : R, policy : R, ref : R,
                                 status : {"pending", "completed"}])
  BY DEF Orderly3, Orderly, Records
<1>1. waits \in Seq({"none", "waiting", "satisfied"}) /\ Len(waits) = Len(requests)
  BY DEF Orderly3, Orderly, Records
<1>2. PICK T : todo \in [Callers -> Seq(StepsOver(T))] BY DEF Orderly3, Orderly, Called
<1>3. /\ Len(requests) \in Nat /\ Len(requests') = n
      /\ \A i \in Requests : requests'[i] = requests[i] /\ waits'[i] = waits[i] /\ i # n
  BY <1>0, <1>1 DEF Request, Requests
<1>4. todo'[p] = ss /\ \A q \in Callers \ {p} : todo'[q] = todo[q]
  BY <1>2 DEF Request, Steps
<1>5. \A k \in 1..Len(ss) : ss[k].do = "wait" => ss[k].n = n
  <2>2. rest \in Seq(StepsOver(S \cup Plain)) BY PlainOnes
  <2>1. Len(rest) \in Nat /\ \A k \in 1..Len(rest) : rest[k].do # "wait"
    <3>1. \A k \in 1..Len(rest) : rest[k].do \in Plain BY PlainOnes
    <3> QED BY <2>2, <3>1 DEF Plain
  <2>3. Len(ss) = 1 + Len(rest) /\ ss[1] = Step("wait", n, r)
        /\ \A k \in 2..Len(ss) : k - 1 \in 1..Len(rest) /\ ss[k] = rest[k - 1]
    BY <2>1, <2>2
  <2>4. Step("wait", n, r).n = n BY DEF Step
  <2> HIDE DEF ss, n
  <2>5. ASSUME NEW k \in 1..Len(ss), ss[k].do = "wait" PROVE ss[k].n = n
    <3>1. k = 1 \/ k \in 2..Len(ss) BY <2>1, <2>3
    <3> QED BY <2>1, <2>3, <2>4, <2>5, <3>1
  <2> QED BY <2>5
<1> HIDE DEF ss
<1>6. ASSUME NEW i \in Requests, Announced(i) PROVE Announced(i)'
  <2>1. ASSUME NEW q \in Callers, NEW k \in 1..Len(todo'[q]), todo'[q][k].do = "wait"
        PROVE  todo'[q][k].n # i \/ \E l \in 1..Len(todo[q]) : todo'[q][k] = todo[q][l]
    <3>1. CASE q = p BY <1>3, <1>4, <1>5, <2>1, <3>1
    <3>2. CASE q # p BY <1>4, <2>1, <3>2
    <3> QED BY <3>1, <3>2
  <2> QED BY <1>6, <2>1, StaysAnnounced
<1>7. UNCHANGED <<results, items>> BY DEF Request
<1>8. Len(items) \in Nat BY DEF Orderly3, Orderly, Records
<1>9. Grown /\ Others1
  <2>1. Requests \subseteq Requests' BY <1>3 DEF Requests
  <2> QED BY <1>3, <1>6, <1>7, <1>8, <2>1 DEF Grown, Others1
<1>10. CASE p = "daemon" BY <1>9, <1>10, GrownEffects
<1>11. CASE p # "daemon"
  <2>1. Call' = Call BY <1>4, <1>11 DEF Call, Callers
  <2>2. AheadKept BY <2>1 DEF AheadKept, Ahead
  <2> QED BY <1>9, <2>2, GrownEffects
<1> QED BY <1>10, <1>11

\* What is left of a call stays as it is when the files only grow.
LEMMA CallStays ==
    ASSUME Orderly3, Orderly', UNCHANGED <<requests, waits, results, up, life>>, Call' = Call,
           \A i : Announced(i) => Announced(i)', Len(items') = Len(items),
           \A j \in 1..Len(items) :
              /\ items'[j].by = items[j].by /\ items'[j].req = items[j].req
              /\ items'[j].key = items[j].key /\ items'[j].life = items[j].life
              /\ items'[j].wake = items[j].wake
    PROVE  Orderly3'
<1>1. Len(items) \in Nat BY DEF Orderly3, Orderly, Records
<1>2. Grown /\ Others1 BY <1>1 DEF Grown, Others1, Requests
<1>3. AheadKept BY DEF AheadKept, Ahead
<1> QED BY <1>2, <1>3, GrownEffects

\* Nothing that this is about changes.
LEMMA StaysSo ==
    ASSUME Orderly3, Orderly', UNCHANGED <<eventVars, up, life>> PROVE Orderly3'
<1>1. UNCHANGED <<requests, waits, results, items, todo>> BY DEF eventVars
<1>2. Call' = Call /\ \A i : Announced(i) => Announced(i)' BY <1>1 DEF Call, Announced
<1> QED BY <1>1, <1>2, CallStays

-------------------------------------------------------------------------------
(* The steps of the third invariant *)

\* A step of a call that changes no file.
LEMMA OtherGoesOn ==
    ASSUME Orderly3, Orderly', NEW p \in Callers, todo[p] # <<>>, Done(p),
           Head(todo[p]).do \in Plain \ {"wake"},
           UNCHANGED <<requests, waits, results, items, up, life>>
    PROVE  Orderly3'
<1>1. Len(items) \in Nat BY DEF Orderly3, Orderly, Records
<1>2. Others1 BY <1>1 DEF Others1
<1> QED BY <1>1, <1>2, GoesOn DEF Plain

\* The wait of a request begins.
LEMMA EnterGoesOn ==
    ASSUME Orderly3, Orderly', NEW p \in Callers, EnterWait(p), UNCHANGED <<up, life>>
    PROVE  Orderly3'
<1> DEFINE n == Head(todo[p]).n
<1>1. /\ todo[p] # <<>> /\ Head(todo[p]).do = "wait" /\ Done(p)
      /\ waits' = [waits EXCEPT ![n] = "waiting"] /\ UNCHANGED <<requests, results, items>>
  BY DEF EnterWait, Due, Its
<1>2. waits \in Seq({"none", "waiting", "satisfied"}) /\ Len(waits) = Len(requests)
  BY DEF Orderly3, Orderly, Records
<1>3. \A i \in Requests : n # i => waits'[i] = waits[i] BY <1>1, <1>2 DEF Requests
<1>4. Len(items) \in Nat BY DEF Orderly3, Orderly, Records
<1>5. Others1 BY <1>1, <1>4 DEF Others1
<1> QED BY <1>1, <1>3, <1>4, <1>5, GoesOn

\* A wait ends.
LEMMA SettleGoesOn ==
    ASSUME Orderly3, Orderly', SettleWait("daemon"), UNCHANGED <<up, life>>
    PROVE  Orderly3'
<1> DEFINE n == Head(todo["daemon"]).n
<1>1. /\ todo["daemon"] # <<>> /\ Head(todo["daemon"]).do = "settle" /\ Done("daemon")
      /\ waits' = [waits EXCEPT ![n] = Settled(waits[n])]
      /\ UNCHANGED <<requests, results, items>>
  BY DEF SettleWait, Due, Its
<1>2. waits \in Seq({"none", "waiting", "satisfied"}) /\ Len(waits) = Len(requests)
  BY DEF Orderly3, Orderly, Records
<1>3. n \in Requests
  <2>1. PICK S : todo \in [Callers -> Seq(StepsOver(S))] BY DEF Orderly3, Orderly, Called
  <2>2. 1 \in 1..Len(Call) /\ Call[1] = Head(todo["daemon"])
    BY <1>1, <2>1 DEF Call, Callers
  <2> QED BY <1>1, <2>2 DEF Orderly3, Orderly, Ending, Named
<1>4. \A i \in Requests : waits'[i] = IF i = n THEN Settled(waits[n]) ELSE waits[i]
  BY <1>1, <1>2, <1>3 DEF Requests
<1>5. Settled(waits[n]) # "waiting" BY DEF Settled
<1>6. waits'[n] # "waiting" BY <1>3, <1>4, <1>5
<1>7. \A i \in Requests : waits[i] # "waiting" => waits'[i] # "waiting" BY <1>4, <1>5
<1>8. Len(items) \in Nat BY DEF Orderly3, Orderly, Records
<1>9. Others1 BY <1>1, <1>8 DEF Others1
<1>10. "daemon" \in Callers BY DEF Callers
<1> QED BY <1>1, <1>6, <1>7, <1>8, <1>9, <1>10, GoesOn

\* A result is recorded.
LEMMA RecordGoesOn ==
    ASSUME Orderly3, Orderly', RecordResult("daemon"), UNCHANGED <<up, life>>
    PROVE  Orderly3'
<1>1. /\ todo["daemon"] # <<>> /\ Head(todo["daemon"]).do = "result" /\ Done("daemon")
      /\ results' = results \cup {[req |-> items[Head(todo["daemon"]).n].req,
                                    key |-> items[Head(todo["daemon"]).n].key,
                                    item |-> Head(todo["daemon"]).n]}
      /\ UNCHANGED <<requests, waits, items>>
  BY DEF RecordResult, Due, Its
<1>2. ASSUME NEW j \in 1..Len(items), Head(todo["daemon"]).n = j PROVE Recorded(j)'
  <2>1. [req |-> items[j].req, key |-> items[j].key, item |-> j] \in results'
    BY <1>1, <1>2
  <2>2. \E x \in results' : x.req = items'[j].req /\ x.key = items'[j].key
    BY <1>1, <2>1
  <2> QED BY <2>2 DEF Recorded
<1>3. Len(items) \in Nat BY DEF Orderly3, Orderly, Records
<1>4. Others1 BY <1>1, <1>3 DEF Others1
<1>5. "daemon" \in Callers BY DEF Callers
<1>6. results \subseteq results' BY <1>1
<1> QED BY <1>1, <1>2, <1>3, <1>4, <1>5, <1>6, GoesOn

\* A request is completed.
LEMMA CompleteGoesOn ==
    ASSUME Orderly3, Orderly', Complete("daemon"), UNCHANGED <<up, life>>
    PROVE  Orderly3'
<1> DEFINE n == Head(todo["daemon"]).n
<1>1. /\ todo["daemon"] # <<>> /\ Head(todo["daemon"]).do = "complete" /\ Done("daemon")
      /\ requests' = [requests EXCEPT ![n] = [requests[n] EXCEPT !.status = "completed"]]
      /\ UNCHANGED <<waits, results, items>>
  BY DEF Complete, Due, Its
<1>2. PICK S : requests \in Seq([session : S, run : S, policy : S, ref : S,
                                 status : {"pending", "completed"}])
  BY DEF Orderly3, Orderly, Records
<1>3. /\ Len(requests') = Len(requests)
      /\ \A i \in Requests : i # n => requests'[i] = requests[i]
      /\ n \in Requests => requests'[n].status = "completed"
  BY <1>1, <1>2 DEF Requests
<1>4. \A i \in Requests : requests[i].status = "completed" => requests'[i].status = "completed"
  BY <1>3
<1>5. Len(items) \in Nat BY DEF Orderly3, Orderly, Records
<1>6. Others1 BY <1>1, <1>5 DEF Others1
<1>7. "daemon" \in Callers BY DEF Callers
<1> QED BY <1>1, <1>3, <1>4, <1>5, <1>6, <1>7, GoesOn

\* A wake is decided, one way or another.
LEMMA DecideGoesOn ==
    ASSUME Orderly3, Orderly', NEW top, Decide("daemon", top), UNCHANGED <<up, life>>
    PROVE  Orderly3'
<1> DEFINE n == Head(todo["daemon"]).n
<1> DEFINE v == WakeDecision(requests[items[n].req].policy, top)
<1>1. /\ todo["daemon"] # <<>> /\ Head(todo["daemon"]).do = "wake" /\ Done("daemon")
      /\ items' = [items EXCEPT ![n] = [items[n] EXCEPT !.wake = v]]
      /\ UNCHANGED <<requests, waits, results>>
  BY DEF Decide, Due, Its
<1>2. v # Undecided BY DEF WakeDecision, Undecided, NoWake
<1> HIDE DEF v
<1>3. PICK T : items \in Seq([req : T, by : T, key : T, text : T, ref : T, life : T, status : T,
                              wake : T])
  BY DEF Orderly3, Orderly, Records
<1>4. Len(items') = Len(items) /\ Len(items) \in Nat BY <1>1, <1>3
<1>5. ASSUME NEW j \in 1..Len(items)
      PROVE  /\ items'[j].by = items[j].by /\ items'[j].req = items[j].req
             /\ items'[j].key = items[j].key /\ items'[j].life = items[j].life
             /\ items'[j].wake = IF j = n THEN v ELSE items[j].wake
  <2>1. items[j] \in [req : T, by : T, key : T, text : T, ref : T, life : T, status : T, wake : T]
    BY <1>3, At
  <2>2. CASE j # n BY <1>1, <1>3, <2>2
  <2>3. CASE j = n
    <3>1. items'[j] = [items[j] EXCEPT !.wake = v] BY <1>1, <1>3, <2>3
    <3> QED BY <2>1, <2>3, <3>1
  <2> QED BY <2>2, <2>3
<1>6. Others1 BY <1>4 DEF Others1
<1>7. "daemon" \in Callers BY DEF Callers
<1>8. n \in 1..Len(items) => items'[n].wake # Undecided BY <1>2, <1>5
<1>9. \A j \in 1..Len(items) : items[j].wake # Undecided => items'[j].wake # Undecided
  BY <1>2, <1>5
<1> QED BY <1>1, <1>4, <1>5, <1>6, <1>7, <1>8, <1>9, GoesOn

\* A task's item is posted; it is not the daemon's and has no key.
LEMMA SeedAdds ==
    ASSUME Orderly3, Orderly', NEW h \in Handlers, NEW text, SeedItem(h, text),
           UNCHANGED <<up, life>>
    PROVE  Orderly3'
<1> DEFINE it == Item(Its(h), "a2a", NoKey, text, requests[Its(h)].ref, 0)
<1>1. /\ todo[h] # <<>> /\ Head(todo[h]).do = "item" /\ Done(h)
      /\ items' = Append(items, it)
      /\ UNCHANGED <<requests, waits, results>>
  BY DEF SeedItem, Due
<1>2. PICK T : items \in Seq([req : T, by : T, key : T, text : T, ref : T, life : T, status : T,
                              wake : T])
  BY DEF Orderly3, Orderly, Records
<1>3. it.by # "daemon" /\ it.key = NoKey BY DEF Item
<1> HIDE DEF it
<1>4. /\ Len(items) \in Nat /\ Len(items') = Len(items) + 1 /\ items'[Len(items) + 1] = it
      /\ \A j \in 1..Len(items) : items'[j] = items[j]
  BY <1>1, <1>2
<1>5. Others1 BY <1>3, <1>4 DEF Others1
<1>6. h \in Callers /\ h # "daemon" BY EventPlaneAssumption DEF Callers
<1> QED BY <1>1, <1>4, <1>5, <1>6, GoesOn

\* An item is acknowledged; nothing else of it changes.
LEMMA AckStays ==
    ASSUME Orderly3, Orderly', NEW j, Ack(j), UNCHANGED <<up, life>> PROVE Orderly3'
<1>1. /\ items' = [items EXCEPT ![j] = [items[j] EXCEPT !.status = "acknowledged"]]
      /\ j \in 1..Len(items)
      /\ UNCHANGED <<requests, waits, results, todo>>
  BY DEF Ack
<1>2. PICK T : items \in Seq([req : T, by : T, key : T, text : T, ref : T, life : T, status : T,
                              wake : T])
  BY DEF Orderly3, Orderly, Records
<1>3. Len(items') = Len(items) BY <1>1, <1>2
<1>4. ASSUME NEW k \in 1..Len(items)
      PROVE  /\ items'[k].by = items[k].by /\ items'[k].req = items[k].req
             /\ items'[k].key = items[k].key /\ items'[k].life = items[k].life
             /\ items'[k].wake = items[k].wake
  <2>1. items[k] \in [req : T, by : T, key : T, text : T, ref : T, life : T, status : T, wake : T]
    BY <1>2, At
  <2>2. CASE k # j BY <1>1, <1>2, <2>2
  <2>3. CASE k = j
    <3>1. items'[k] = [items[k] EXCEPT !.status = "acknowledged"] BY <1>1, <1>2, <2>3
    <3> QED BY <2>1, <3>1
  <2> QED BY <2>2, <2>3
<1>5. Call' = Call /\ \A i : Announced(i) => Announced(i)' BY <1>1 DEF Call, Announced
<1> QED BY <1>1, <1>3, <1>4, <1>5, CallStays

Has(ss, do, n) == \E k \in 1..Len(ss) : ss[k].do = do /\ ss[k].n = n
NoWaits(ss) == \A k \in 1..Len(ss) : ss[k].do # "wait"

\* One call after the other has the steps of both.
LEMMA Both ==
    ASSUME NEW A, NEW a \in Seq(A), NEW b \in Seq(A)
    PROVE  /\ a \o b \in Seq(A)
           /\ NoWaits(a) /\ NoWaits(b) => NoWaits(a \o b)
           /\ \A do, n : Has(a, do, n) \/ Has(b, do, n) => Has(a \o b, do, n)
<1>1. /\ a \o b \in Seq(A) /\ Len(a \o b) = Len(a) + Len(b)
      /\ Len(a) \in Nat /\ Len(b) \in Nat
      /\ \A k \in 1..Len(a) : (a \o b)[k] = a[k]
      /\ \A k \in 1..Len(b) : (a \o b)[Len(a) + k] = b[k]
  OBVIOUS
<1> DEFINE c == a \o b
<1> HIDE DEF c
<1>2. \A k \in 1..Len(c) : k \in 1..Len(a) \/ k - Len(a) \in 1..Len(b) BY <1>1 DEF c
<1>3. ASSUME NoWaits(a), NoWaits(b) PROVE NoWaits(c)
  <2>1. ASSUME NEW k \in 1..Len(c) PROVE c[k].do # "wait"
    <3>1. CASE k \in 1..Len(a) BY <1>1, <1>3, <3>1 DEF NoWaits, c
    <3>2. ASSUME k - Len(a) \in 1..Len(b) PROVE c[k].do # "wait"
      <4>1. c[Len(a) + (k - Len(a))] = b[k - Len(a)] BY <1>1, <3>2 DEF c
      <4>2. Len(a) + (k - Len(a)) = k BY <1>1
      <4> QED BY <1>3, <3>2, <4>1, <4>2 DEF NoWaits
    <3> QED BY <1>2, <3>1, <3>2
  <2> QED BY <2>1 DEF NoWaits
<1>4. ASSUME NEW do, NEW n, Has(a, do, n) PROVE Has(c, do, n)
  <2>1. PICK k \in 1..Len(a) : a[k].do = do /\ a[k].n = n BY <1>4 DEF Has
  <2>2. k \in 1..Len(c) /\ c[k] = a[k] BY <1>1 DEF c
  <2> QED BY <2>1, <2>2 DEF Has
<1>5. ASSUME NEW do, NEW n, Has(b, do, n) PROVE Has(c, do, n)
  <2>1. PICK k \in 1..Len(b) : b[k].do = do /\ b[k].n = n BY <1>5 DEF Has
  <2>2. Len(a) + k \in 1..Len(c) /\ c[Len(a) + k] = b[k] BY <1>1 DEF c
  <2> QED BY <2>1, <2>2 DEF Has
<1> QED BY <1>1, <1>3, <1>4, <1>5 DEF c

\* The steps after an item cover all that is to be had of it.
LEMMA WholeCall ==
    ASSUME NEW i, NEW j
    PROVE  LET ss == Ingestion(i, j) \o WakeOf(i, j) IN
           /\ Has(ss, "result", j) /\ Has(ss, "settle", i) /\ Has(ss, "complete", i)
           /\ Has(ss, "wake", j) /\ NoWaits(ss)
<1> DEFINE r == requests[i].run
<1> DEFINE U == {i, j, r, 0, NoWake, "result", "settle", "complete", "note", "wake"}
<1> DEFINE A == [do : U, n : U, run : U]
<1> DEFINE w == <<Step("wake", j, r)>>
<1> DEFINE in == <<Step("result", j, NoWake), Step("settle", i, NoWake),
                   Step("complete", i, NoWake)>>
<1>1. in \in Seq(A) /\ w \in Seq(A) /\ Note(r) \in Seq(A)
  <2>1. /\ Step("result", j, NoWake) \in A /\ Step("settle", i, NoWake) \in A
        /\ Step("complete", i, NoWake) \in A /\ Step("wake", j, r) \in A
        /\ Step("note", 0, r) \in A
    BY DEF Step
  <2> HIDE DEF A
  <2>2. in \in Seq(A) BY <2>1
  <2>3. w \in Seq(A) BY <2>1
  <2>4. Note(r) \in Seq(A) BY <2>1 DEF Note
  <2> QED BY <2>2, <2>3, <2>4
<1>2. /\ Len(in) = 3 /\ in[1].do = "result" /\ in[1].n = j
      /\ in[2].do = "settle" /\ in[2].n = i /\ in[3].do = "complete" /\ in[3].n = i
  BY DEF Step
<1>3. Has(in, "result", j) /\ Has(in, "settle", i) /\ Has(in, "complete", i)
  BY <1>2 DEF Has
<1>4. NoWaits(in) BY <1>2 DEF NoWaits
<1>5. Has(w, "wake", j) /\ NoWaits(w)
  <2>1. Len(w) = 1 /\ w[1].do = "wake" /\ w[1].n = j BY DEF Step
  <2> QED BY <2>1 DEF Has, NoWaits
<1>6. NoWaits(Note(r)) BY DEF NoWaits, Note, Step
<1>7. Ingestion(i, j) = in /\ WakeOf(i, j) = (Note(r) \o w) \o Note(r)
  BY DEF Ingestion, WakeOf
<1> HIDE DEF A, in, w, r
<1>8. Note(r) \o w \in Seq(A) /\ NoWaits(Note(r) \o w) /\ Has(Note(r) \o w, "wake", j)
  BY <1>1, <1>5, <1>6, Both
<1> DEFINE x == Note(r) \o w
<1>9. x \o Note(r) \in Seq(A) /\ NoWaits(x \o Note(r)) /\ Has(x \o Note(r), "wake", j)
  <2> HIDE DEF x
  <2>1. x \in Seq(A) /\ NoWaits(x) /\ Has(x, "wake", j) BY <1>8 DEF x
  <2> QED BY <1>1, <1>6, <2>1, Both
<1> DEFINE y == x \o Note(r)
<1> HIDE DEF y
<1>10. in \o y \in Seq(A) /\ NoWaits(in \o y) /\ Has(in \o y, "wake", j)
       /\ Has(in \o y, "result", j) /\ Has(in \o y, "settle", i) /\ Has(in \o y, "complete", i)
  <2>1. y \in Seq(A) /\ NoWaits(y) /\ Has(y, "wake", j) BY <1>9 DEF y
  <2> QED BY <1>1, <1>3, <1>4, <2>1, Both
<1> QED BY <1>7, <1>10 DEF y

\* A result that is taken in has all of its effect ahead, and if it has a key it is the
\* first of the daemon's life: the one before it would have been recorded.
LEMMA TakesEffect ==
    ASSUME Orderly3, Orderly', NEW i, NEW key, IngestResult(i, key) PROVE Orderly3'
<1>0. PICK new : new = Len(items) + 1 OBVIOUS
<1> DEFINE it == Item(i, "daemon", key, "result", "", life)
<1> DEFINE ss == Ingestion(i, new) \o WakeOf(i, new)
<1>1. /\ up /\ todo["daemon"] = <<>> /\ i \in Requests /\ Announced(i) /\ ~Seen(i, key)
      /\ items' = Append(items, it) /\ Steps("daemon", ss)
      /\ UNCHANGED <<requests, waits, results>>
  BY <1>0 DEF IngestResult, Serving, Ingest
<1>2. UNCHANGED <<up, life>> BY DEF IngestResult, sessionVars
<1>3. /\ it.req = i /\ it.by = "daemon" /\ it.key = key /\ it.life = life
  BY DEF Item
<1>4. Call = <<>> BY <1>1 DEF Call
<1>5. PICK T : items \in Seq([req : T, by : T, key : T, text : T, ref : T, life : T, status : T,
                              wake : T])
  BY DEF Orderly3, Orderly, Records
<1> HIDE DEF it
<1>6. /\ Len(items) \in Nat /\ Len(items') = new /\ items'[new] = it
      /\ \A j \in 1..Len(items) : items'[j] = items[j]
  BY <1>0, <1>1, <1>5
<1>7. /\ Has(ss, "result", new) /\ Has(ss, "settle", i) /\ Has(ss, "complete", i)
      /\ Has(ss, "wake", new) /\ \A k \in 1..Len(ss) : ss[k].do # "wait"
  BY WholeCall DEF NoWaits
<1> HIDE DEF ss
<1>8. Call' = ss /\ \A h : Announced(h) => Announced(h)'
  BY <1>1, <1>7, CallAnnounces DEF Orderly3, Call
<1>9. /\ Ahead("result", new)' /\ Ahead("settle", i)'
      /\ Ahead("complete", i)' /\ Ahead("wake", new)'
  BY <1>7, <1>8 DEF Ahead, Has
<1>10. life \in Nat \ {0} /\ Known /\ Effects /\ Once BY DEF Orderly3
<1>11. Requests' = Requests BY <1>1 DEF Requests
<1>12. Announced(i)' BY <1>1, <1>8
<1>13. Known'
  <2>1. ASSUME NEW j \in 1..Len(items')
        PROVE  /\ items'[j].key # NoKey => items'[j].by = "daemon"
               /\ items'[j].by = "daemon" => items'[j].req \in Requests'
                    /\ Announced(items[j].req)' /\ items'[j].life \in 1..life'
    <3>1. CASE j = new
      <4>1. items'[j].req = i /\ items'[j].by = "daemon" /\ items'[j].life = life
        BY <1>3, <1>6, <3>1
      <4> QED BY <1>1, <1>2, <1>10, <1>11, <1>12, <4>1 DEF Announced
    <3>2. CASE j # new
      <4>1. j \in 1..Len(items) BY <1>0, <1>6, <3>2
      <4>2. PICK q : q = items[j].req OBVIOUS
      <4>3. items'[j] = items[j] /\ items'[j].req = q BY <1>6, <4>1, <4>2
      <4>4. /\ items[j].key # NoKey => items[j].by = "daemon"
            /\ items[j].by = "daemon" => q \in Requests /\ Announced(q)
                                         /\ items[j].life \in 1..life
        BY <1>10, <4>1, <4>2 DEF Known, Mine
      <4>5. Announced(q) => Announced(q)' BY <1>8
      <4> QED BY <1>2, <1>11, <4>3, <4>4, <4>5 DEF Announced
    <3> QED BY <3>1, <3>2
  <2> QED BY <2>1 DEF Known, Mine, Announced
<1>14. ASSUME NEW j \in 1..Len(items), items[j].by = "daemon", items[j].life = life
       PROVE  /\ \E x \in results : x.req = items[j].req /\ x.key = items[j].key
              /\ requests[items[j].req].status = "completed"
              /\ waits[items[j].req] # "waiting" /\ items[j].wake # Undecided
  <2>1. Effect(j) BY <1>1, <1>10, <1>14 DEF Effects, Mine
  <2>2. \A do, n : ~Ahead(do, n) BY <1>4 DEF Ahead
  <2> QED BY <2>1, <2>2 DEF Effect, Recorded
<1>15. ASSUME NEW j \in 1..Len(items'), items'[j].by = "daemon", items'[j].life = life
       PROVE  Effect(j)'
  <2>1. CASE j = new
    <3>1. items'[j].req = i BY <1>3, <1>6, <2>1
    <3> QED BY <1>9, <2>1, <3>1 DEF Effect, Ahead
  <2>2. CASE j # new
    <3>1. j \in 1..Len(items) /\ items'[j] = items[j] BY <1>0, <1>6, <2>2
    <3>2. /\ \E x \in results' : x.req = items'[j].req /\ x.key = items'[j].key
          /\ requests'[items'[j].req].status = "completed"
          /\ waits'[items'[j].req] # "waiting" /\ items'[j].wake # Undecided
      BY <1>1, <1>14, <1>15, <3>1
    <3> QED BY <3>2 DEF Effect, Recorded
  <2> QED BY <2>1, <2>2
<1>16. Effects' BY <1>2, <1>15 DEF Effects, Mine
<1>17. \A j \in 1..Len(items) : items[j].by = "daemon" /\ items[j].life = life
           /\ items[j].req = i => key = NoKey \/ items[j].key # key
  BY <1>1, <1>14 DEF Seen
<1>18. Once'
  <2> SUFFICES ASSUME NEW a \in 1..Len(items'), NEW b \in 1..Len(items'),
                      items'[a].by = "daemon", items'[b].by = "daemon",
                      items'[a].life = items'[b].life, items'[a].req = items'[b].req,
                      items'[a].key = items'[b].key, items'[a].key # NoKey
               PROVE  a = b
    BY DEF Once, Mine
  <2>1. CASE a # new /\ b # new
    <3>1. a \in 1..Len(items) /\ b \in 1..Len(items)
          /\ items'[a] = items[a] /\ items'[b] = items[b]
      BY <1>0, <1>6, <2>1
    <3> QED BY <1>10, <3>1 DEF Once, Mine
  <2>2. CASE a = new /\ b # new
    <3>1. b \in 1..Len(items) /\ items'[b] = items[b] BY <1>0, <1>6, <2>2
    <3> QED BY <1>3, <1>6, <1>17, <2>2, <3>1
  <2>3. CASE a # new /\ b = new
    <3>1. a \in 1..Len(items) /\ items'[a] = items[a] BY <1>0, <1>6, <2>3
    <3> QED BY <1>3, <1>6, <1>17, <2>3, <3>1
  <2> QED BY <2>1, <2>2, <2>3
<1> QED BY <1>2, <1>10, <1>13, <1>16, <1>18 DEF Orderly3

\* A dead daemon leaves the items as they are; what they still lack they never get.
LEMMA DiesSo == ASSUME Orderly3, Orderly', DaemonDies PROVE Orderly3'
<1>1. /\ up' = FALSE /\ life' = life /\ Steps("daemon", <<>>)
      /\ UNCHANGED <<requests, waits, results, items>>
  BY DEF DaemonDies, Die
<1>2. \A i : Announced(i) => Announced(i)' BY <1>1, CallAnnounces DEF Orderly3
<1>3. Len(items) \in Nat /\ life \in Nat \ {0} BY DEF Orderly3, Orderly, Records
<1>4. Grown /\ Others1 BY <1>1, <1>2, <1>3 DEF Grown, Others1, Requests
<1>5. Known' /\ Once' BY <1>1, <1>3, <1>4, GrownKnown
<1>6. Effects' BY <1>1 DEF Effects
<1> QED BY <1>1, <1>3, <1>5, <1>6 DEF Orderly3

\* No item is of the life that begins.
LEMMA StartsSo == ASSUME Orderly3, Orderly', DaemonStarts PROVE Orderly3'
<1>1. PICK S : \E ss \in PlainSteps(S) : Steps("daemon", ss) BY StartsWith
<1>6. PICK ss \in PlainSteps(S) : Steps("daemon", ss) BY <1>1
<1>2. life' = life + 1 /\ UNCHANGED <<requests, waits, results, items>>
  BY DEF DaemonStarts, Restart
<1>3. Len(items) \in Nat /\ life \in Nat \ {0} BY DEF Orderly3, Orderly, Records
<1>4. \A k \in 1..Len(ss) : ss[k].do # "wait" BY PlainOnes DEF Plain
<1>7. \A i : Announced(i) => Announced(i)' BY <1>4, <1>6, CallAnnounces DEF Orderly3
<1>8. Grown /\ Others1 BY <1>2, <1>3, <1>7 DEF Grown, Others1, Requests
<1>9. Known' /\ Once' BY <1>2, <1>3, <1>8, GrownKnown
<1>10. Effects'
  <2>1. ASSUME NEW j \in 1..Len(items), items[j].by = "daemon" PROVE items[j].life # life'
    BY <1>2, <1>3, <2>1 DEF Orderly3, Known, Mine
  <2> QED BY <1>2, <2>1 DEF Effects, Mine
<1> QED BY <1>2, <1>3, <1>9, <1>10 DEF Orderly3

\* The A2A server's threads end; the daemon's call goes on.
LEMMA IngressStopsSo == ASSUME Orderly3, Orderly', IngressDies PROVE Orderly3'
<1>1. /\ todo' = [p \in Callers |-> IF p = "daemon" THEN todo[p] ELSE <<>>]
      /\ UNCHANGED <<requests, waits, results, items, up, life>>
  BY DEF IngressDies, sessionVars
<1>2. Call' = Call BY <1>1 DEF Call, Callers
<1>3. \A i : Announced(i) => Announced(i)' BY <1>1, StaysAnnounced
<1> QED BY <1>1, <1>2, <1>3, CallStays

\* What a request thread does with its post.
LEMMA PostsSo ==
    ASSUME Orderly3, Orderly', NEW h \in Handlers, Handle(h) PROVE Orderly3'
<1>0. UNCHANGED <<up, life>> BY DEF Handle, sessionVars
<1>1. h \in Callers /\ h # "daemon" BY EventPlaneAssumption DEF Callers
<1>2. CASE UNCHANGED eventVars BY <1>0, <1>2, StaysSo
<1>3. ASSUME NEW s, NEW policy, Send(h, s, TRUE, policy) PROVE Orderly3'
  <2> DEFINE n == Len(requests) + 1
  <2>1. Request(h, s, "none", policy, handler[h].ref, <<Step("item", n, "none")>>) BY <1>3 DEF Send
  <2>2. <<Step("item", n, "none")>> \in PlainSteps({n, "none"}) BY OneStep DEF Plain
  <2> HIDE DEF n
  <2> QED BY <1>0, <1>1, <2>1, <2>2, Files
<1>4. CASE EnterWait(h) BY <1>0, <1>1, <1>4, EnterGoesOn
<1>5. CASE SeedItem(h, handler[h].text) BY <1>0, <1>5, SeedAdds
<1> QED BY <1>2, <1>3, <1>4, <1>5 DEF Handle

\* What a call of the daemon begins with, if it is not about tasks.
LEMMA CallsSo ==
    ASSUME Orderly3, Orderly', NEW r \in Runs,
           Resume(r) \/ Escalate(r) \/ \E b \in BOOLEAN : AckReview(r, b)
    PROVE  Orderly3'
<1>1. /\ todo["daemon"] = <<>> /\ UNCHANGED <<requests, waits, results, items, up, life>>
  BY DEF Resume, Escalate, AckReview, Serving, OpenStore, LoadAgain, sessionVars
<1>2. PICK S : \E ss \in PlainSteps(S) : Steps("daemon", ss)
  BY ResumesWith, ReviewsWith, EscalatesWith
<1> QED BY <1>1, <1>2, TakesUp DEF Call

\* Every step keeps the third invariant.
LEMMA NextOrderly3 == Orderly3 /\ [Next]_vars => Orderly3'
<1> SUFFICES ASSUME Orderly3, [Next]_vars PROVE Orderly3'
  OBVIOUS
<1>0. Orderly' BY NextOrderly DEF Orderly3
<1>1. CASE UNCHANGED <<eventVars, up, life>> BY <1>0, <1>1, StaysSo
<1>2. "daemon" \in Callers BY DEF Callers
<1>3. ASSUME NEW r \in Runs, NEW b \in BOOLEAN, RegisterRun(r, b) \/ AckReview(r, b)
      PROVE  Orderly3'
  BY <1>0, <1>1, <1>3, CallsSo DEF RegisterRun, Register, NewRunAt
<1>4. ASSUME NEW r \in Runs,
             Resume(r) \/ Escalate(r) \/ AskClarification(r) \/ Work(r) \/ Answers(r)
      PROVE  Orderly3'
  <2>1. CASE Resume(r) \/ Escalate(r) BY <1>0, <2>1, CallsSo
  <2>2. CASE AskClarification(r) \/ Work(r) \/ Answers(r)
    BY <1>1, <2>2 DEF AskClarification, Clarify, Work, WorkerWrites, WorkerEnds, WorkerSaves,
                      ThreadSaves, Answers, JobWrites
  <2> QED BY <1>4, <2>1, <2>2
<1>5. CASE LaunchRun \/ SaveFinal \/ WriteEvent \/ WriteNote \/ SkipLine \/ ParkOrphan
  <2>1. /\ todo["daemon"] # <<>> /\ Done("daemon") /\ Head(todo["daemon"]).do \in Plain \ {"wake"}
        /\ UNCHANGED <<requests, waits, results, items>>
    BY <1>5 DEF LaunchRun, SaveFinal, WriteEvent, WriteNote, SkipLine, ParkOrphan, NextDue, Due,
                Plain
  <2>2. UNCHANGED <<up, life>>
    BY <1>5 DEF LaunchRun, SaveFinal, WriteEvent, WriteNote, SkipLine, ParkOrphan, Launch, SaveTop,
                ServerWrites1, ServerNotes, sessionVars
  <2> QED BY <1>0, <1>2, <2>1, <2>2, OtherGoesOn
<1>6. CASE ReapRuns \/ Lands \/ ClockTicks
  BY <1>1, <1>6 DEF ReapRuns, Reap, Lands, Land, ClockTicks, sessionVars
<1>7. CASE Append1
  BY <1>0, <1>2, <1>7, EnterGoesOn, RecordGoesOn, SettleGoesOn, CompleteGoesOn, DecideGoesOn
  DEF Append1, sessionVars
<1>8. ASSUME NEW r, NEW s, NEW policy, CreateTask(r, s, policy) PROVE Orderly3'
  <2>1. /\ todo["daemon"] = <<>> /\ Request("daemon", s, r, policy, "plain", Note(r))
        /\ UNCHANGED <<up, life>>
    BY <1>8 DEF CreateTask, Serving, sessionVars
  <2>2. Note(r) \in PlainSteps({0, r}) BY Notes
  <2> QED BY <1>0, <1>2, <2>1, <2>2, Files DEF Call
<1>9. ASSUME NEW i, NEW key, IngestResult(i, key) PROVE Orderly3'
  BY <1>0, <1>9, TakesEffect
<1>10. ASSUME NEW j, AckItem(j) PROVE Orderly3'
  BY <1>0, <1>10, AckStays DEF AckItem, sessionVars
<1>11. ASSUME NEW h \in Handlers, Post(h) \/ Handle(h) PROVE Orderly3'
  BY <1>0, <1>1, <1>11, PostsSo DEF Post, sessionVars
<1>12. CASE DaemonDies \/ DaemonStarts BY <1>0, <1>12, DiesSo, StartsSo
<1>13. CASE IngressDies BY <1>0, <1>13, IngressStopsSo
<1>14. CASE UNCHANGED vars BY <1>1, <1>14 DEF vars, sessionVars
<1>15. ASSUME NEW g \in Guests, GuestWorks(g) \/ \E r \in Runs : GuestComes(g, r)
       PROVE  Orderly3'
  <2>1. UNCHANGED <<eventVars, up, life>>
    BY <1>15 DEF GuestWorks, GuestComes, GuestWrites, GuestSaves, GuestLeaves, GuestDies,
                 ThreadSaves, StartsForeground, StartsRecovery, StartsJob, NewRunAt
  <2> QED BY <1>1, <2>1
<1> QED BY <1>3, <1>4, <1>5, <1>6, <1>7, <1>8, <1>9, <1>10, <1>11, <1>12, <1>13, <1>14, <1>15
        DEF Next

\* No item is there at first.
LEMMA InitOrderly3 == Init => Orderly3
<1> SUFFICES ASSUME Init PROVE Orderly3
  OBVIOUS
<1>1. Orderly BY InitOrderly
<1>2. items = <<>> /\ life = 1 BY DEF Init, EventInit, SessionsInit
<1>3. \A j : j \notin 1..Len(items) BY <1>2
<1> QED BY <1>1, <1>2, <1>3 DEF Orderly3, Known, Effects, Once

\* In every reachable state in which the daemon takes its next call, each result it took
\* in since it started has completed its request, ended its wait and got a wake decision
\* (_do_external_result_ingest).
THEOREM EffectHolds == Spec => []ResultTakesEffect
<1>1. Orderly3 => ResultTakesEffect
  <2> SUFFICES ASSUME Orderly3, Serving, NEW j \in 1..Len(items),
                      items[j].by = "daemon", items[j].life = life
               PROVE  Settles(j)
    BY DEF ResultTakesEffect
  <2>1. Effect(j) /\ Call = <<>> BY DEF Orderly3, Effects, Mine, Serving, Call
  <2> QED BY <2>1 DEF Effect, Ahead, Settles
<1> QED BY <1>1, InitOrderly3, NextOrderly3, PTL DEF Spec

\* In every reachable state a key has brought a request at most one mailbox item for each
\* life of the daemon (ingest_result's deduplication, its item appended before its result).
THEOREM OneItemHolds == Spec => []ItemOncePerKey
<1>1. Orderly3 => ItemOncePerKey
  <2> SUFFICES ASSUME Orderly3, NEW i \in Requests, NEW k \in Keys
               PROVE  Cardinality({j \in 1..Len(items) : items[j].req = i /\ items[j].key = k})
                        <= life
    BY DEF ItemOncePerKey
  <2> DEFINE S == {j \in 1..Len(items) : items[j].req = i /\ items[j].key = k}
  <2>1. k # NoKey BY EventPlaneAssumption DEF NoKey
  <2>2. Len(items) \in Nat /\ life \in Nat BY DEF Orderly3, Orderly, Records
  <2>3. IsFiniteSet(S)
    <3>1. IsFiniteSet(1..Len(items)) /\ S \subseteq 1..Len(items) BY <2>2, FS_Interval
    <3> HIDE DEF S
    <3> QED BY <3>1, FS_Subset
  <2>4. IsFiniteSet(1..life) /\ Cardinality(1..life) = life
    <3>1. life \in Nat \ {0} BY DEF Orderly3
    <3>2. IsFiniteSet(1..life) BY <3>1, FS_Interval
    <3>3. Cardinality(1..life) = IF 1 > life THEN 0 ELSE life - 1 + 1 BY <3>1, FS_Interval
    <3> QED BY <3>1, <3>2, <3>3
  <2> DEFINE f == [j \in S |-> items[j].life]
  <2>5. f \in [S -> 1..life] BY <2>1 DEF Orderly3, Known, Mine
  <2>6. \A a, b \in S : f[a] = f[b] => a = b BY <2>1 DEF Orderly3, Known, Once, Mine
  <2> HIDE DEF S, f
  <2>7. Cardinality(S) \in Nat BY <2>3, FS_CardinalityType
  <2>8. ~(Cardinality(1..life) < Cardinality(S))
    <3> SUFFICES ASSUME Cardinality(1..life) < Cardinality(S) PROVE FALSE
      OBVIOUS
    <3>1. \E a, b \in S : a # b /\ f[a] = f[b] BY <2>3, <2>4, <2>5, FS_PigeonHole
    <3> QED BY <2>6, <3>1
  <2>9. Cardinality(S) <= life BY <2>2, <2>4, <2>7, <2>8
  <2> QED BY <2>9 DEF S
<1> QED BY <1>1, InitOrderly3, NextOrderly3, PTL DEF Spec
===============================================================================
