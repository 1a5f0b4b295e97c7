----------------------------- MODULE NamedSemProofs -----------------------------
(***************************************************************************)
(* Proofs about NamedSem, for any number of processes, threads and turns,  *)
(* runs that overlap and runs that are killed.  The inductive invariant    *)
(* adds to the properties which processes have which semaphore (PsemInv)   *)
(* and what the counter is between two increments (CountInv).  That two    *)
(* threads of one process are never inside together (Alone) follows from   *)
(* the semaphore's value, not the other way round.  On top of it, TurnInv  *)
(* says that the counter is the number of the turns that have counted, and *)
(* MadeInv which threads main() has made.                                  *)
(***************************************************************************)
EXTENDS NamedSem, FiniteSetTheorems, TLAPS

\* The types, without the bounds on the counters
Types ==
  /\ main \in [Procs -> {"off", "unlink", "open", "create", "join",
                         "last_unlink", "ended", "killed"}]
  /\ name \in Procs \cup {None}
  /\ value \in [Procs -> Nat]
  /\ psem \in [Procs -> Procs \cup {None}]
  /\ thr \in [Threads -> {"none", "wait", "ended"} \cup Inside]
  /\ reg \in [Threads -> Nat] /\ cnt \in [Procs -> Nat] /\ lines \in [Procs -> Nat]
  /\ raced \in [Procs -> BOOLEAN]

PsemInv ==
  /\ \A p \in Procs :
       /\ main[p] \in {"off", "unlink", "open"} => psem[p] = None
       /\ main[p] = "create" => psem[p] # None
       /\ psem[p] # None => psem[psem[p]] = psem[p]
  /\ \A x \in Threads : thr[x] # "none" => psem[x[1]] # None
  /\ name # None => psem[name] = name

\* Thread x has semaphore s.
Has(x, s) == psem[x[1]] = s /\ thr[x] \in Inside

TokenInv ==
  \A s \in Procs : psem[s] = s =>
    \/ value[s] = 1 /\ \A x \in Threads : ~Has(x, s)
    \/ value[s] = 0 /\ \E x \in Threads : Has(x, s) /\ \A y \in Threads : Has(y, s) => y = x

RaceInv ==
  \A p \in Procs :
    raced[p] \/ (psem[p] \in {None, p} /\ (main[p] = "open" => name = None))

CountInv ==
  /\ \A x \in Threads :
       /\ thr[x] = "store" => reg[x] = cnt[x[1]]
       /\ thr[x] = "print" => cnt[x[1]] = lines[x[1]] + 1
  /\ \A p \in Procs : (\A x \in Threads : x[1] = p => thr[x] # "print") => cnt[p] = lines[p]

Inv == Types /\ PsemInv /\ TokenInv /\ RaceInv /\ CountInv

LEMMA ThreadOwner == \A x \in Threads : x[1] \in Procs
  BY DEF Threads

LEMMA InitInv == Init => Inv
<1> SUFFICES ASSUME Init PROVE Inv
  OBVIOUS
<1> USE DEF Init
<1>1. Types
  BY DEF Types
<1>2. PsemInv
  BY ThreadOwner DEF PsemInv
<1>3. TokenInv
  BY NoneOK DEF TokenInv
<1>4. RaceInv
  BY DEF RaceInv
<1>5. CountInv
  BY ThreadOwner DEF CountInv
<1> QED
  BY <1>1, <1>2, <1>3, <1>4, <1>5 DEF Inv

\* Two threads of one process are never inside together.
LEMMA Alone ==
  ASSUME Inv, NEW x \in Threads, NEW y \in Threads, x[1] = y[1],
         thr[x] \in Inside, thr[y] \in Inside
  PROVE  x = y
<1> DEFINE s == psem[x[1]]
<1>1. s \in Procs /\ psem[s] = s
  <2>1. x[1] \in Procs /\ thr[x] # "none"
    BY ThreadOwner DEF Inside
  <2> QED
    BY <2>1 DEF Inv, Types, PsemInv
<1>2. Has(x, s) /\ Has(y, s)
  BY DEF Has
<1> HIDE DEF s
<1> QED
  BY <1>1, <1>2 DEF Inv, TokenInv

-----------------------------------------------------------------------------
(* main() *)

\* Steps that touch neither threads nor counters
LEMMA CountKept ==
  ASSUME CountInv, UNCHANGED <<cnt, lines, reg, thr>> PROVE CountInv'
  BY DEF CountInv

LEMMA TokenKept ==
  ASSUME TokenInv, UNCHANGED <<value, psem, thr>> PROVE TokenInv'
  BY DEF TokenInv, Has

LEMMA StartInv == ASSUME Inv, NEW p \in Procs, Start(p) PROVE Inv'
<1>0. /\ main[p] = "off" /\ main' = [main EXCEPT ![p] = "unlink"]
      /\ UNCHANGED <<name, value, psem, cnt, thr, reg, lines, raced>>
  BY DEF Start, MainGoes, locals
<1>1. Types'
  BY <1>0 DEF Inv, Types
<1>2. PsemInv'
  BY <1>0 DEF Inv, PsemInv, Types
<1>3. RaceInv'
  BY <1>0 DEF Inv, RaceInv, Types
<1> QED
  BY <1>0, <1>1, <1>2, <1>3, CountKept, TokenKept DEF Inv

LEMMA UnlinkInv ==
  ASSUME Inv, NEW p \in Procs, Unlink(p) \/ LastUnlink(p) PROVE Inv'
<1>0. /\ \/ main[p] = "unlink" /\ main' = [main EXCEPT ![p] = "open"]
         \/ main[p] = "last_unlink" /\ main' = [main EXCEPT ![p] = "ended"]
      /\ name' = None
      /\ UNCHANGED <<value, psem, cnt, thr, reg, lines, raced>>
  BY DEF Unlink, LastUnlink, MainGoes, locals
<1>1. Types'
  BY <1>0 DEF Inv, Types
<1>2. PsemInv'
  BY <1>0 DEF Inv, PsemInv, Types
<1>3. RaceInv'
  BY <1>0 DEF Inv, RaceInv
<1> QED
  BY <1>0, <1>1, <1>2, <1>3, CountKept, TokenKept DEF Inv

\* A semaphore that is made is new: nobody has it yet.
LEMMA OpenInv == ASSUME Inv, NEW p \in Procs, Open(p) PROVE Inv'
<1>0. /\ main[p] = "open" /\ main' = [main EXCEPT ![p] = "create"]
      /\ psem' = [psem EXCEPT ![p] = name']
      /\ raced' = [q \in Procs |-> raced[q] \/ (q # p /\ main[q] = "open")]
      /\ UNCHANGED <<cnt, thr, reg, lines>>
  BY DEF Open, MainGoes, locals
<1>a. \/ name = None /\ name' = p /\ value' = [value EXCEPT ![p] = 1]
      \/ name # None /\ name' = name /\ value' = value
  BY DEF Open
<1>b. p # None /\ psem[p] = None /\ \A q \in Procs : psem[q] # p
  BY <1>0, NoneOK DEF Inv, PsemInv, Types
<1>c. name' \in Procs /\ psem'[p] = name' /\ \A q \in Procs : q # p => psem'[q] = psem[q]
  BY <1>0, <1>a DEF Inv, Types
<1>d. \A x \in Threads : x[1] = p => thr[x] = "none"
  BY <1>b DEF Inv, PsemInv
<1>1. Types'
  <2>1. raced' \in [Procs -> BOOLEAN]
    BY <1>0
  <2>2. value' \in [Procs -> Nat]
    <3>1. value \in [Procs -> Nat] /\ 1 \in Nat
      BY DEF Inv, Types
    <3>2. value' = value \/ value' = [value EXCEPT ![p] = 1]
      BY <1>a
    <3> QED
      BY <3>1, <3>2
  <2>3. /\ main' \in [Procs -> {"off", "unlink", "open", "create", "join",
                                "last_unlink", "ended", "killed"}]
        /\ psem' \in [Procs -> Procs \cup {None}]
        /\ name' \in Procs \cup {None}
    BY <1>0, <1>c DEF Inv, Types
  <2>4. UNCHANGED <<cnt, thr, reg, lines>>
    BY <1>0
  <2> QED
    BY <2>1, <2>2, <2>3, <2>4 DEF Inv, Types
<1>2. PsemInv'
  <2>1. psem'[name'] = name'
    BY <1>a, <1>b, <1>c DEF Inv, PsemInv
  <2>2. \A q \in Procs : psem'[q] # None => psem'[psem'[q]] = psem'[q]
    <3> SUFFICES ASSUME NEW q \in Procs, psem'[q] # None
                 PROVE  psem'[psem'[q]] = psem'[q]
      OBVIOUS
    <3>1. CASE q = p
      BY <1>c, <2>1, <3>1
    <3>2. CASE q # p
      <4>1. psem'[q] = psem[q] /\ psem[q] \in Procs /\ psem[q] # p
        BY <1>b, <1>c, <3>2 DEF Inv, Types
      <4>2. psem[psem[q]] = psem[q] /\ psem'[psem[q]] = psem[psem[q]]
        BY <1>c, <4>1, NoneOK DEF Inv, PsemInv
      <4> QED
        BY <4>1, <4>2
    <3> QED
      BY <3>1, <3>2
  <2>3. \A q \in Procs :
          /\ main'[q] \in {"off", "unlink", "open"} => psem'[q] = None
          /\ main'[q] = "create" => psem'[q] # None
    BY <1>0, <1>c, NoneOK DEF Inv, PsemInv, Types
  <2>4. \A x \in Threads : thr'[x] # "none" => psem'[x[1]] # None
    BY <1>0, <1>c, <1>d, ThreadOwner DEF Inv, PsemInv
  <2> QED
    BY <2>1, <2>2, <2>3, <2>4 DEF PsemInv
<1>3. TokenInv'
  <2>1. \A x \in Threads, s \in Procs : Has(x, s)' <=> Has(x, s)
    <3> SUFFICES ASSUME NEW x \in Threads, NEW s \in Procs PROVE Has(x, s)' <=> Has(x, s)
      OBVIOUS
    <3>1. CASE x[1] = p
      BY <1>0, <1>d, <3>1 DEF Has, Inside
    <3>2. CASE x[1] # p
      BY <1>0, <1>c, <3>2, ThreadOwner DEF Has
    <3> QED
      BY <3>1, <3>2
  <2> SUFFICES ASSUME NEW s \in Procs, psem'[s] = s
               PROVE  \/ value'[s] = 1 /\ \A x \in Threads : ~Has(x, s)
                      \/ /\ value'[s] = 0
                         /\ \E x \in Threads :
                              Has(x, s) /\ \A y \in Threads : Has(y, s) => y = x
    BY <2>1 DEF TokenInv
  <2>2. CASE s = p
    <3>1. value'[s] = 1
      BY <1>a, <1>b, <1>c, <2>2 DEF Inv, Types, PsemInv
    <3>2. \A x \in Threads : ~Has(x, s)
      BY <1>b, <2>2, ThreadOwner DEF Has
    <3> QED
      BY <3>1, <3>2
  <2>3. CASE s # p
    <3>1. psem[s] = s /\ value'[s] = value[s]
      BY <1>a, <1>c, <2>3 DEF Inv, Types
    <3> QED
      BY <3>1 DEF Inv, TokenInv
  <2> QED
    BY <2>2, <2>3
<1>4. RaceInv'
  <2> SUFFICES ASSUME NEW q \in Procs, ~raced'[q]
               PROVE  psem'[q] \in {None, q} /\ main'[q] # "open"
    BY DEF RaceInv
  <2>1. ~raced[q] /\ (q # p => main[q] # "open")
    BY <1>0
  <2>2. CASE q = p
    BY <1>0, <1>a, <1>c, <2>1, <2>2 DEF Inv, RaceInv, Types
  <2>3. CASE q # p
    BY <1>0, <1>c, <2>1, <2>3 DEF Inv, RaceInv, Types
  <2> QED
    BY <2>2, <2>3
<1> QED
  BY <1>0, <1>1, <1>2, <1>3, <1>4, CountKept DEF Inv

LEMMA CreateInv == ASSUME Inv, NEW p \in Procs, Create(p) PROVE Inv'
<1> PICK t \in 1 .. kNum :
      /\ thr[<<p, t>>] = "none"
      /\ thr' = [thr EXCEPT ![<<p, t>>] = "wait"]
      /\ main' = IF t = kNum THEN [main EXCEPT ![p] = "join"] ELSE main
  BY DEF Create
<1> DEFINE x == <<p, t>>
<1>a. x \in Threads /\ x[1] = p /\ thr[x] = "none" /\ thr' = [thr EXCEPT ![x] = "wait"]
  BY DEF Threads
<1> HIDE DEF x
<1>0. /\ main[p] = "create"
      /\ UNCHANGED <<name, value, psem, cnt, reg, lines, raced>>
      /\ \/ main' = [main EXCEPT ![p] = "join"]
         \/ main' = main
  BY DEF Create
<1>b. /\ thr'[x] = "wait" /\ \A y \in Threads : y # x => thr'[y] = thr[y]
      /\ "wait" \notin Inside /\ "none" \notin Inside
  BY <1>a DEF Inv, Types, Inside
<1>1. Types'
  BY <1>0, <1>a DEF Inv, Types
<1>2. PsemInv'
  <2>1. \A y \in Threads : thr'[y] # "none" => psem[y[1]] # None
    BY <1>0, <1>a, <1>b DEF Inv, PsemInv
  <2>2. \A q \in Procs :
          /\ main'[q] \in {"off", "unlink", "open"} => psem[q] = None
          /\ main'[q] = "create" => psem[q] # None
    BY <1>0 DEF Inv, PsemInv, Types
  <2> QED
    BY <1>0, <2>1, <2>2 DEF Inv, PsemInv
<1>3. TokenInv'
  <2>1. \A y \in Threads, s \in Procs : Has(y, s)' <=> Has(y, s)
    BY <1>0, <1>a, <1>b DEF Has
  <2> QED
    BY <1>0, <2>1 DEF Inv, TokenInv
<1>4. RaceInv'
  BY <1>0 DEF Inv, RaceInv, Types
<1>5. CountInv'
  BY <1>0, <1>a, <1>b DEF Inv, CountInv
<1> QED
  BY <1>1, <1>2, <1>3, <1>4, <1>5 DEF Inv

LEMMA JoinKillInv ==
  ASSUME Inv, NEW p \in Procs, Join(p) \/ Kill(p) PROVE Inv'
<1>0. /\ \/ main' = [main EXCEPT ![p] = "last_unlink"]
         \/ main' = [main EXCEPT ![p] = "killed"]
      /\ UNCHANGED <<name, value, psem, cnt, thr, reg, lines, raced>>
  BY DEF Join, Kill, MainGoes, locals
<1>1. Types'
  BY <1>0 DEF Inv, Types
<1>2. PsemInv'
  BY <1>0 DEF Inv, PsemInv, Types
<1>3. RaceInv'
  BY <1>0 DEF Inv, RaceInv, Types
<1> QED
  BY <1>0, <1>1, <1>2, <1>3, CountKept, TokenKept DEF Inv

-----------------------------------------------------------------------------
(* testFunc() *)

\* The semaphore of a thread
LEMMA SemOf ==
  ASSUME Inv, NEW x \in Threads, thr[x] # "none"
  PROVE  psem[x[1]] \in Procs /\ psem[psem[x[1]]] = psem[x[1]]
<1>1. x[1] \in Procs
  BY ThreadOwner
<1> QED
  BY <1>1 DEF Inv, Types, PsemInv

\* Threads move, main() and the name stay.
LEMMA ThreadKeeps ==
  ASSUME Inv, NEW x \in Threads, thr[x] # "none",
         NEW to \in {"wait", "ended"} \cup Inside, thr' = [thr EXCEPT ![x] = to],
         UNCHANGED <<main, name, psem, raced>>
  PROVE  PsemInv' /\ RaceInv'
<1>1. PsemInv'
  BY DEF Inv, PsemInv, Types
<1>2. RaceInv'
  BY DEF Inv, RaceInv
<1> QED
  BY <1>1, <1>2

LEMMA WaitInv == ASSUME Inv, NEW x \in Threads, Wait(x) PROVE Inv'
<1> DEFINE s == psem[x[1]]
<1>0. /\ thr[x] = "wait" /\ thr' = [thr EXCEPT ![x] = "load"] /\ value[s] > 0
      /\ value' = [value EXCEPT ![s] = @ - 1]
      /\ UNCHANGED <<main, name, psem, cnt, reg, lines, raced>>
  BY DEF Wait, ThreadGoes
<1>a. s \in Procs /\ psem[s] = s
  BY <1>0, SemOf
<1>s. thr[x] # "none" /\ "load" \in {"wait", "ended"} \cup Inside
  BY <1>0 DEF Inside
<1> HIDE DEF s
<1>b. /\ thr'[x] = "load" /\ \A y \in Threads : y # x => thr'[y] = thr[y]
      /\ "load" \in Inside /\ "wait" \notin Inside
  BY <1>0 DEF Inv, Types, Inside
<1>c. value[s] = 1 /\ \A y \in Threads : ~Has(y, s)
  BY <1>0, <1>a DEF Inv, TokenInv
<1>e. value[s] - 1 = 0 /\ value' = [value EXCEPT ![s] = value[s] - 1]
  BY <1>0, <1>c
<1>f. value' = [value EXCEPT ![s] = 0]
  BY <1>e
<1>d. value'[s] = 0 /\ \A r \in Procs : r # s => value'[r] = value[r]
  BY <1>a, <1>f DEF Inv, Types
<1>1. Types'
  <2>1. value' \in [Procs -> Nat]
    BY <1>f DEF Inv, Types
  <2> QED
    BY <1>0, <1>b, <2>1 DEF Inv, Types
<1>2. PsemInv' /\ RaceInv'
  BY <1>0, <1>s, ThreadKeeps
<1>3. TokenInv'
  <2> SUFFICES ASSUME NEW r \in Procs, psem[r] = r
               PROVE  \/ value'[r] = 1 /\ \A y \in Threads : ~Has(y, r)'
                      \/ /\ value'[r] = 0
                         /\ \E y \in Threads :
                              Has(y, r)' /\ \A z \in Threads : Has(z, r)' => z = y
    BY <1>0 DEF TokenInv
  <2>1. CASE r = s
    <3>1. Has(x, r)'
      BY <1>0, <1>b, <2>1 DEF Has, s
    <3>2. \A z \in Threads : Has(z, r)' => z = x
      BY <1>0, <1>b, <1>c, <2>1 DEF Has
    <3> QED
      BY <1>d, <2>1, <3>1, <3>2
  <2>2. CASE r # s
    <3>1. \A y \in Threads : Has(y, r)' <=> Has(y, r)
      BY <1>0, <1>b, <2>2 DEF Has, s
    <3> QED
      BY <1>d, <2>2, <3>1 DEF Inv, TokenInv
  <2> QED
    BY <2>1, <2>2
<1>4. CountInv'
  BY <1>0, <1>b DEF Inv, CountInv
<1> QED
  BY <1>1, <1>2, <1>3, <1>4 DEF Inv

\* Inside, a thread moves on, and still has its semaphore.
LEMMA InsideKeepsToken ==
  ASSUME Inv, NEW x \in Threads, NEW to \in Inside, thr[x] \in Inside,
         thr' = [thr EXCEPT ![x] = to], UNCHANGED <<value, psem>>
  PROVE  TokenInv'
<1>1. \A y \in Threads, s \in Procs : Has(y, s)' <=> Has(y, s)
  BY DEF Has, Inv, Types
<1> QED
  BY <1>1 DEF Inv, TokenInv

\* The others of its process are not inside.
LEMMA OthersOutside ==
  ASSUME Inv, NEW x \in Threads, thr[x] \in Inside, NEW y \in Threads, y # x, y[1] = x[1]
  PROVE  thr[y] \notin {"load", "store", "print", "post"}
  BY Alone DEF Inside

LEMMA LoadInv == ASSUME Inv, NEW x \in Threads, Load(x) PROVE Inv'
<1>0. /\ thr[x] = "load" /\ thr' = [thr EXCEPT ![x] = "store"]
      /\ reg' = [reg EXCEPT ![x] = cnt[x[1]]]
      /\ UNCHANGED <<main, name, value, psem, cnt, lines, raced>>
  BY DEF Load, ThreadGoes
<1>a. x[1] \in Procs /\ cnt[x[1]] \in Nat /\ {"load", "store"} \subseteq Inside
      /\ thr[x] # "none"
  BY <1>0, ThreadOwner DEF Inv, Types, Inside
<1>b. /\ thr'[x] = "store" /\ reg'[x] = cnt[x[1]]
      /\ \A y \in Threads : y # x => thr'[y] = thr[y] /\ reg'[y] = reg[y]
  BY <1>0 DEF Inv, Types
<1>1. Types'
  BY <1>0, <1>a DEF Inv, Types
<1>2. PsemInv' /\ RaceInv' /\ TokenInv'
  BY <1>0, <1>a, ThreadKeeps, InsideKeepsToken
<1>3. CountInv'
  BY <1>0, <1>b DEF Inv, CountInv
<1> QED
  BY <1>1, <1>2, <1>3 DEF Inv

LEMMA StoreInv == ASSUME Inv, NEW x \in Threads, Store(x) PROVE Inv'
<1> DEFINE p == x[1]
<1>0. /\ thr[x] = "store" /\ thr' = [thr EXCEPT ![x] = "print"]
      /\ cnt' = [cnt EXCEPT ![p] = reg[x] + 1]
      /\ UNCHANGED <<main, name, value, psem, reg, lines, raced>>
  BY DEF Store, ThreadGoes
<1>a. p \in Procs /\ reg[x] \in Nat /\ {"store", "print"} \subseteq Inside
      /\ thr[x] # "none" /\ thr[x] \in Inside
  BY <1>0, ThreadOwner DEF Inv, Types, Inside
<1>b. \A y \in Threads : y # x /\ y[1] = p => thr[y] \notin {"load", "store", "print", "post"}
  BY <1>a, OthersOutside
<1>2. PsemInv' /\ RaceInv' /\ TokenInv'
  BY <1>0, <1>a, ThreadKeeps, InsideKeepsToken
<1> HIDE DEF p
<1>c. reg[x] = cnt[p] /\ cnt[p] = lines[p]
  <2>1. \A y \in Threads : y[1] = p => thr[y] # "print"
    BY <1>0, <1>b
  <2> QED
    BY <1>0, <1>a, <2>1 DEF Inv, CountInv, p
<1>d. /\ thr'[x] = "print" /\ cnt'[p] = lines[p] + 1
      /\ \A y \in Threads : y # x => thr'[y] = thr[y]
      /\ \A q \in Procs : q # p => cnt'[q] = cnt[q]
  BY <1>0, <1>a, <1>c DEF Inv, Types
<1>1. Types'
  <2>1. reg[x] + 1 \in Nat /\ cnt' = [cnt EXCEPT ![p] = reg[x] + 1]
    BY <1>0, <1>a
  <2>2. cnt' \in [Procs -> Nat]
    BY <2>1 DEF Inv, Types
  <2>3. thr' \in [Threads -> {"none", "wait", "ended"} \cup Inside]
    BY <1>0, <1>a DEF Inv, Types
  <2> QED
    BY <1>0, <2>2, <2>3 DEF Inv, Types
<1>3. CountInv'
  <2>1. \A y \in Threads :
          /\ thr'[y] = "store" => reg[y] = cnt'[y[1]]
          /\ thr'[y] = "print" => cnt'[y[1]] = lines[y[1]] + 1
    <3> SUFFICES ASSUME NEW y \in Threads, thr'[y] \in {"store", "print"}
                 PROVE  /\ thr'[y] = "store" => reg[y] = cnt'[y[1]]
                        /\ thr'[y] = "print" => cnt'[y[1]] = lines[y[1]] + 1
      OBVIOUS
    <3>1. CASE y = x
      BY <1>d, <3>1 DEF p
    <3>2. CASE y # x
      <4>1. y[1] # p /\ y[1] \in Procs
        BY <1>b, <1>d, <3>2, ThreadOwner
      <4> QED
        BY <1>d, <3>2, <4>1 DEF Inv, CountInv
    <3> QED
      BY <3>1, <3>2
  <2>2. \A q \in Procs :
          (\A y \in Threads : y[1] = q => thr'[y] # "print") => cnt'[q] = lines[q]
    <3> SUFFICES ASSUME NEW q \in Procs, \A y \in Threads : y[1] = q => thr'[y] # "print"
                 PROVE  cnt'[q] = lines[q]
      OBVIOUS
    <3>1. q # p
      BY <1>d DEF p
    <3>2. \A y \in Threads : y[1] = q => thr[y] # "print"
      BY <1>d, <3>1 DEF p
    <3> QED
      BY <1>d, <3>1, <3>2 DEF Inv, CountInv
  <2> QED
    BY <1>0, <2>1, <2>2 DEF CountInv
<1> QED
  BY <1>1, <1>2, <1>3 DEF Inv

LEMMA PrintCountInv == ASSUME Inv, NEW x \in Threads, PrintCount(x) PROVE Inv'
<1> DEFINE p == x[1]
<1>0. /\ thr[x] = "print" /\ thr' = [thr EXCEPT ![x] = "post"]
      /\ lines' = [lines EXCEPT ![p] = @ + 1]
      /\ UNCHANGED <<main, name, value, psem, reg, cnt, raced>>
  BY DEF PrintCount, ThreadGoes
<1>a. p \in Procs /\ lines[p] \in Nat /\ {"print", "post"} \subseteq Inside
      /\ thr[x] # "none" /\ thr[x] \in Inside
  BY <1>0, ThreadOwner DEF Inv, Types, Inside
<1>b. \A y \in Threads : y # x /\ y[1] = p => thr[y] \notin {"load", "store", "print", "post"}
  BY <1>a, OthersOutside
<1>2. PsemInv' /\ RaceInv' /\ TokenInv'
  BY <1>0, <1>a, ThreadKeeps, InsideKeepsToken
<1>c. cnt[p] = lines[p] + 1
  BY <1>0 DEF Inv, CountInv
<1> HIDE DEF p
<1>d. /\ thr'[x] = "post" /\ lines'[p] = cnt[p]
      /\ \A y \in Threads : y # x => thr'[y] = thr[y]
      /\ \A q \in Procs : q # p => lines'[q] = lines[q]
  BY <1>0, <1>a, <1>c DEF Inv, Types
<1>1. Types'
  <2>1. lines[p] + 1 \in Nat /\ lines' = [lines EXCEPT ![p] = lines[p] + 1]
    BY <1>0, <1>a
  <2>2. lines' \in [Procs -> Nat]
    BY <2>1 DEF Inv, Types
  <2>3. thr' \in [Threads -> {"none", "wait", "ended"} \cup Inside]
    BY <1>0, <1>a DEF Inv, Types
  <2> QED
    BY <1>0, <2>2, <2>3 DEF Inv, Types
<1>3. CountInv'
  <2>1. \A y \in Threads :
          /\ thr'[y] = "store" => reg[y] = cnt[y[1]]
          /\ thr'[y] = "print" => cnt[y[1]] = lines'[y[1]] + 1
    <3> SUFFICES ASSUME NEW y \in Threads, thr'[y] \in {"store", "print"}
                 PROVE  /\ thr'[y] = "store" => reg[y] = cnt[y[1]]
                        /\ thr'[y] = "print" => cnt[y[1]] = lines'[y[1]] + 1
      OBVIOUS
    <3>1. y # x
      BY <1>d
    <3>2. y[1] # p /\ y[1] \in Procs
      BY <1>b, <1>d, <3>1, ThreadOwner
    <3> QED
      BY <1>d, <3>1, <3>2 DEF Inv, CountInv
  <2>2. \A q \in Procs :
          (\A y \in Threads : y[1] = q => thr'[y] # "print") => cnt[q] = lines'[q]
    <3> SUFFICES ASSUME NEW q \in Procs, \A y \in Threads : y[1] = q => thr'[y] # "print"
                 PROVE  cnt[q] = lines'[q]
      OBVIOUS
    <3>1. CASE q = p
      BY <1>d, <3>1
    <3>2. CASE q # p
      <4>1. \A y \in Threads : y[1] = q => thr[y] # "print"
        BY <1>d, <3>2 DEF p
      <4> QED
        BY <1>d, <3>2, <4>1 DEF Inv, CountInv
    <3> QED
      BY <3>1, <3>2
  <2> QED
    BY <1>0, <2>1, <2>2 DEF CountInv
<1> QED
  BY <1>1, <1>2, <1>3 DEF Inv

LEMMA PostInv == ASSUME Inv, NEW x \in Threads, Post(x) PROVE Inv'
<1> DEFINE s == psem[x[1]]
           to == IF loop[x] < kTurns THEN "wait" ELSE "ended"
<1>0. /\ thr[x] = "post" /\ thr' = [thr EXCEPT ![x] = to]
      /\ value' = [value EXCEPT ![s] = @ + 1]
      /\ UNCHANGED <<main, name, psem, cnt, reg, lines, raced>>
  BY DEF Post, ThreadGoes
<1>a. /\ s \in Procs /\ psem[s] = s /\ thr[x] # "none" /\ thr[x] \in Inside
      /\ to \in {"wait", "ended"}
  BY <1>0, SemOf DEF Inside
<1>2. PsemInv' /\ RaceInv'
  <2>1. to \in {"wait", "ended"} \cup Inside
    BY <1>a
  <2> HIDE DEF to
  <2> QED
    BY <1>0, <1>a, <2>1, ThreadKeeps
<1>h. Has(x, s)
  BY <1>a DEF Has
<1> HIDE DEF to, s
<1>b. /\ thr'[x] = to /\ to \notin Inside /\ to \notin {"store", "print"}
      /\ \A y \in Threads : y # x => thr'[y] = thr[y]
  BY <1>0, <1>a DEF Inv, Types, Inside
<1>c. value[s] = 0 /\ \A y \in Threads : Has(y, s) => y = x
  BY <1>a, <1>h DEF Inv, TokenInv
<1>e. value[s] + 1 = 1 /\ value' = [value EXCEPT ![s] = value[s] + 1]
  BY <1>0, <1>c
<1>f. value' = [value EXCEPT ![s] = 1]
  BY <1>e
<1>d. value'[s] = 1 /\ \A r \in Procs : r # s => value'[r] = value[r]
  BY <1>a, <1>f DEF Inv, Types
<1>1. Types'
  <2>1. value' \in [Procs -> Nat]
    BY <1>f DEF Inv, Types
  <2> QED
    BY <1>0, <1>a, <2>1 DEF Inv, Types
<1>3. TokenInv'
  <2> SUFFICES ASSUME NEW r \in Procs, psem[r] = r
               PROVE  \/ value'[r] = 1 /\ \A y \in Threads : ~Has(y, r)'
                      \/ /\ value'[r] = 0
                         /\ \E y \in Threads :
                              Has(y, r)' /\ \A z \in Threads : Has(z, r)' => z = y
    BY <1>0 DEF TokenInv
  <2>1. CASE r = s
    <3>1. \A z \in Threads : ~Has(z, r)'
      BY <1>0, <1>b, <1>c, <2>1 DEF Has
    <3> QED
      BY <1>d, <2>1, <3>1
  <2>2. CASE r # s
    <3>1. \A y \in Threads : Has(y, r)' <=> Has(y, r)
      BY <1>0, <1>b, <2>2 DEF Has, s
    <3> QED
      BY <1>d, <2>2, <3>1 DEF Inv, TokenInv
  <2> QED
    BY <2>1, <2>2
<1>4. CountInv'
  BY <1>0, <1>b DEF Inv, CountInv
<1> QED
  BY <1>1, <1>2, <1>3, <1>4 DEF Inv

-----------------------------------------------------------------------------
LEMMA NextInv == Inv /\ [Next]_vars => Inv'
<1> SUFFICES ASSUME Inv, [Next]_vars PROVE Inv'
  OBVIOUS
<1>1. CASE \E p \in Procs : Start(p) \/ MainStep(p) \/ Kill(p)
  BY <1>1, StartInv, UnlinkInv, OpenInv, CreateInv, JoinKillInv DEF MainStep
<1>2. CASE \E x \in Threads : testFunc(x)
  BY <1>2, WaitInv, LoadInv, StoreInv, PrintCountInv, PostInv DEF testFunc
<1>3. CASE UNCHANGED vars
  <2>0. UNCHANGED <<main, name, value, psem, cnt, thr, reg, lines, raced>>
    BY <1>3 DEF vars, locals
  <2>1. Types' /\ PsemInv' /\ RaceInv'
    BY <2>0 DEF Inv, Types, PsemInv, RaceInv
  <2> QED
    BY <2>0, <2>1, CountKept, TokenKept DEF Inv
<1> QED
  BY <1>1, <1>2, <1>3 DEF Next

LEMMA Invariant == Spec => []Inv
<1>1. Init => Inv
  BY InitInv
<1>2. Inv /\ [Next]_vars => Inv'
  BY NextInv
<1> QED
  BY <1>1, <1>2, PTL DEF Spec

-----------------------------------------------------------------------------
(* Counting: the counter is the number of turns that have counted, the lines *)
(* are those that have printed.  Both are sets of turns of the process, so   *)
(* neither passes kNum * kTurns, and both reach it when all threads ended.   *)

Turns == (1 .. kNum) \X (1 .. kTurns)

\* The turns each thread has written g_cnt in, and those it has printed in
counted == [x \in Threads |-> IF thr[x] \in {"load", "store"} THEN loop[x] - 1 ELSE loop[x]]
printed == [x \in Threads |->
              IF thr[x] \in {"load", "store", "print"} THEN loop[x] - 1 ELSE loop[x]]

\* The turns of process p of which f has the number for each thread
TurnsOf(p, f) == {t \in Turns : t[2] <= f[<<p, t[1]>>]}

LoopOf(x) ==
  /\ thr[x] = "none" => loop[x] = 0
  /\ thr[x] = "wait" => loop[x] < kTurns
  /\ thr[x] \in {"load", "store", "print", "post"} => loop[x] >= 1
  /\ thr[x] = "ended" => loop[x] = kTurns

LoopInv ==
  /\ loop \in [Threads -> 0 .. kTurns]
  /\ \A x \in Threads : LoopOf(x)
  /\ \A p \in Procs :
       /\ main[p] \in {"last_unlink", "ended"} =>
            \A t \in 1 .. kNum : thr[<<p, t>>] = "ended"
       /\ psem[p] # p => value[p] = 0

SumInv ==
  /\ \A p \in Procs :
       /\ cnt[p] = Cardinality(TurnsOf(p, counted))
       /\ lines[p] = Cardinality(TurnsOf(p, printed))
  /\ reg \in [Threads -> 0 .. kNum * kTurns]

TurnInv == LoopInv /\ SumInv

\* All the turns there are
LEMMA TurnsFinite == IsFiniteSet(Turns) /\ Cardinality(Turns) = kNum * kTurns
<1>1. IsFiniteSet(1 .. kNum) /\ Cardinality(1 .. kNum) = kNum
  BY SizesOK, FS_Interval
<1>2. IsFiniteSet(1 .. kTurns) /\ Cardinality(1 .. kTurns) = kTurns
  BY SizesOK, FS_Interval
<1>3. /\ IsFiniteSet((1 .. kNum) \X (1 .. kTurns))
      /\ Cardinality((1 .. kNum) \X (1 .. kTurns)) =
           Cardinality(1 .. kNum) * Cardinality(1 .. kTurns)
  BY <1>1, <1>2, FS_Product, Zenon
<1> QED
  BY <1>1, <1>2, <1>3 DEF Turns

\* A part of them is no more than all.
LEMMA PartOfTurns ==
  ASSUME NEW S \in SUBSET Turns
  PROVE  IsFiniteSet(S) /\ Cardinality(S) \in 0 .. kNum * kTurns
<1>1. IsFiniteSet(S) /\ Cardinality(S) <= Cardinality(Turns)
  BY TurnsFinite, FS_Subset
<1>2. Cardinality(S) \in Nat
  BY <1>1, FS_CardinalityType
<1>3. kNum * kTurns \in Nat
  BY SizesOK
<1> QED
  BY <1>1, <1>2, <1>3, TurnsFinite

LEMMA SumBounds ==
  ASSUME SumInv, NEW p \in Procs
  PROVE  cnt[p] \in 0 .. kNum * kTurns /\ lines[p] \in 0 .. kNum * kTurns
<1>1. TurnsOf(p, counted) \in SUBSET Turns /\ TurnsOf(p, printed) \in SUBSET Turns
  BY DEF TurnsOf
<1> HIDE DEF TurnsOf
<1> QED
  BY <1>1, PartOfTurns DEF SumInv

LEMMA PairsAreThreads ==
  /\ \A p \in Procs, t \in 1 .. kNum : <<p, t>> \in Threads
  /\ \A x \in Threads : x[1] \in Procs /\ x[2] \in 1 .. kNum /\ x = <<x[1], x[2]>>
  /\ \A t \in Turns : t[1] \in 1 .. kNum /\ t[2] \in 1 .. kTurns /\ t = <<t[1], t[2]>>
  BY DEF Threads, Turns

\* What one thread adds to the turns of its process: its n-th, after n - 1
LEMMA OneMoreTurn ==
  ASSUME NEW f \in [Threads -> Nat], NEW g \in [Threads -> Nat], NEW x \in Threads,
         f[x] \in 0 .. kTurns - 1, g[x] = f[x] + 1,
         \A y \in Threads : y # x => g[y] = f[y]
  PROVE  /\ Cardinality(TurnsOf(x[1], g)) = Cardinality(TurnsOf(x[1], f)) + 1
         /\ \A p \in Procs : p # x[1] => TurnsOf(p, g) = TurnsOf(p, f)
<1> USE DEF TurnsOf
<1> DEFINE F == TurnsOf(x[1], f)
           G == TurnsOf(x[1], g)
           new == <<x[2], g[x]>>
<1>0. x[1] \in Procs /\ x[2] \in 1 .. kNum /\ x = <<x[1], x[2]>>
  BY PairsAreThreads
<1>1. new \in Turns
  BY <1>0, SizesOK DEF Turns
<1>2. new \notin F
  BY <1>0
<1>3. \A t \in Turns : t \in G <=> t \in F \/ t = new
  <2> SUFFICES ASSUME NEW t \in Turns PROVE t \in G <=> t \in F \/ t = new
    OBVIOUS
  <2>0. /\ t[1] \in 1 .. kNum /\ t[2] \in 1 .. kTurns /\ t = <<t[1], t[2]>>
        /\ <<x[1], t[1]>> \in Threads
    BY <1>0, PairsAreThreads
  <2>1. CASE t[1] = x[2]
    <3>1. g[<<x[1], t[1]>>] = f[x] + 1 /\ f[<<x[1], t[1]>>] = f[x]
      BY <1>0, <2>1
    <3>2. t = new <=> t[2] = f[x] + 1
      BY <2>0, <2>1
    <3>3. t[2] \in Int /\ f[x] \in Int
      BY <2>0, SizesOK
    <3> HIDE DEF new
    <3> QED
      BY <3>1, <3>2, <3>3
  <2>2. CASE t[1] # x[2]
    <3>1. <<x[1], t[1]>> # x /\ t # new
      BY <1>0, <2>0, <2>2
    <3> QED
      BY <2>0, <3>1
  <2> QED
    BY <2>1, <2>2
<1>4. G = F \cup {new}
  <2> HIDE DEF new
  <2> QED
    BY <1>1, <1>3
<1>5. IsFiniteSet(F)
  BY PartOfTurns
<1>6. Cardinality(G) = Cardinality(F) + 1
  <2> HIDE DEF F, G, new, TurnsOf
  <2> QED
    BY <1>2, <1>4, <1>5, FS_AddElement
<1>7. \A p \in Procs : p # x[1] => \A t \in Turns : f[<<p, t[1]>>] = g[<<p, t[1]>>]
  <2> SUFFICES ASSUME NEW p \in Procs, p # x[1], NEW t \in Turns
               PROVE  f[<<p, t[1]>>] = g[<<p, t[1]>>]
    OBVIOUS
  <2>1. <<p, t[1]>> \in Threads /\ <<p, t[1]>> # x
    BY <1>0, PairsAreThreads
  <2> QED
    BY <2>1
<1> QED
  BY <1>6, <1>7

LEMMA InitTurn == Init => TurnInv
<1> SUFFICES ASSUME Init PROVE TurnInv
  OBVIOUS
<1>1. LoopInv
  BY SizesOK, NoneOK DEF Init, LoopInv, LoopOf
<1>2. \A p \in Procs : TurnsOf(p, counted) = {} /\ TurnsOf(p, printed) = {}
  <2> SUFFICES ASSUME NEW p \in Procs, NEW t \in Turns
               PROVE  ~(t[2] <= counted[<<p, t[1]>>]) /\ ~(t[2] <= printed[<<p, t[1]>>])
    BY DEF TurnsOf
  <2>1. t[2] \in 1 .. kTurns /\ <<p, t[1]>> \in Threads
    BY PairsAreThreads
  <2>2. counted[<<p, t[1]>>] = 0 /\ printed[<<p, t[1]>>] = 0
    BY <2>1 DEF counted, printed, Init
  <2> QED
    BY <2>1, <2>2, SizesOK
<1>3. kNum * kTurns \in Nat
  BY SizesOK
<1>4. \A p \in Procs : cnt[p] = 0 /\ lines[p] = 0
  BY DEF Init
<1>5. reg \in [Threads -> 0 .. kNum * kTurns]
  BY <1>3 DEF Init
<1>6. SumInv
  BY <1>2, <1>4, <1>5, FS_EmptySet DEF SumInv
<1> QED
  BY <1>1, <1>6 DEF TurnInv

\* Steps in which no turn is counted or printed
LEMMA SumKept ==
  ASSUME SumInv, UNCHANGED <<counted, printed, cnt, lines>>,
         reg' \in [Threads -> 0 .. kNum * kTurns]
  PROVE  SumInv'
  BY DEF SumInv, TurnsOf, Turns

\* The steps of main() neither take a turn nor give anyone a semaphore in use.
LEMMA MainTurn ==
  ASSUME Inv, TurnInv, NEW p \in Procs, Start(p) \/ MainStep(p) \/ Kill(p)
  PROVE  TurnInv'
<1>0. /\ UNCHANGED <<cnt, loop, reg, lines>>
      /\ thr \in [Threads -> {"none", "wait", "ended"} \cup Inside]
      /\ main \in [Procs -> {"off", "unlink", "open", "create", "join",
                             "last_unlink", "ended", "killed"}]
      /\ psem \in [Procs -> Procs \cup {None}] /\ value \in [Procs -> Nat]
  BY DEF Start, MainStep, Unlink, Open, Create, Join, LastUnlink, Kill, locals, Inv, Types
<1>1. CASE Create(p)
  <2>1. PICK t \in 1 .. kNum : thr[<<p, t>>] = "none" /\ thr' = [thr EXCEPT ![<<p, t>>] = "wait"]
    BY <1>1 DEF Create
  <2>2. /\ main[p] = "create" /\ UNCHANGED <<psem, value>>
        /\ main' = [main EXCEPT ![p] = "join"] \/ main' = main
    BY <1>1 DEF Create
  <2>3. \A x \in Threads : LoopOf(x)'
    BY <1>0, <2>1, SizesOK DEF TurnInv, LoopInv, LoopOf
  <2>4. \A q \in Procs : main'[q] \in {"last_unlink", "ended"} =>
          \A u \in 1 .. kNum : thr'[<<q, u>>] = "ended"
    <3> SUFFICES ASSUME NEW q \in Procs, main'[q] \in {"last_unlink", "ended"},
                        NEW u \in 1 .. kNum
                 PROVE  thr'[<<q, u>>] = "ended"
      OBVIOUS
    <3>1. q # p /\ main'[q] = main[q]
      BY <1>0, <2>2
    <3>2. <<q, u>> # <<p, t>> /\ <<q, u>> \in Threads /\ thr[<<q, u>>] = "ended"
      BY <3>1, PairsAreThreads DEF TurnInv, LoopInv
    <3> QED
      BY <1>0, <2>1, <3>2
  <2>5. LoopInv'
    BY <1>0, <2>2, <2>3, <2>4 DEF TurnInv, LoopInv
  <2>6. UNCHANGED <<counted, printed>>
    BY <1>0, <2>1 DEF counted, printed
  <2> QED
    BY <1>0, <2>5, <2>6, SumKept DEF TurnInv, SumInv
<1>2. CASE ~Create(p)
  <2>1. UNCHANGED thr
    BY <1>2 DEF Start, MainStep, Unlink, Open, Join, LastUnlink, Kill, locals
  <2>2. \A q \in Procs : main'[q] \in {"last_unlink", "ended"} =>
          \A u \in 1 .. kNum : thr[<<q, u>>] = "ended"
    <3>1. \A q \in Procs : q # p => main'[q] = main[q]
      BY <1>0, <1>2 DEF Start, MainStep, Unlink, Open, Join, LastUnlink, Kill, MainGoes
    <3>2. main'[p] \in {"last_unlink", "ended"} =>
            main[p] = "last_unlink" \/ \A u \in 1 .. kNum : thr[<<p, u>>] = "ended"
      BY <1>0, <1>2 DEF Start, MainStep, Unlink, Open, Join, LastUnlink, Kill, MainGoes
    <3> QED
      BY <3>1, <3>2 DEF TurnInv, LoopInv
  <2>3. \A q \in Procs : psem'[q] # q => value'[q] = 0
    <3>1. CASE Open(p)
      <4>1. /\ psem' = [psem EXCEPT ![p] = name']
            /\ \/ name' = p /\ value' = [value EXCEPT ![p] = 1]
               \/ name # None /\ name' = name /\ value' = value
        BY <3>1 DEF Open
      <4>2. psem[p] # p
        BY <3>1, NoneOK DEF Inv, PsemInv, Open, MainGoes
      <4> QED
        BY <1>0, <4>1, <4>2 DEF TurnInv, LoopInv
    <3>2. CASE ~Open(p)
      <4>1. UNCHANGED <<psem, value>>
        BY <1>2, <3>2 DEF Start, MainStep, Unlink, Join, LastUnlink, Kill
      <4> QED
        BY <4>1 DEF TurnInv, LoopInv
    <3> QED
      BY <3>1, <3>2
  <2>4. LoopInv'
    BY <1>0, <2>1, <2>2, <2>3 DEF TurnInv, LoopInv, LoopOf
  <2>5. UNCHANGED <<counted, printed>>
    BY <1>0, <2>1 DEF counted, printed
  <2> QED
    BY <1>0, <2>4, <2>5, SumKept DEF TurnInv, SumInv
<1> QED
  BY <1>1, <1>2

\* A thread moves, and the value of its semaphore may change.
LEMMA ThreadLoops ==
  ASSUME Inv, LoopInv, NEW x \in Threads, NEW to, NEW n \in 0 .. kTurns, thr[x] # "ended",
         thr' = [thr EXCEPT ![x] = to], loop' = [loop EXCEPT ![x] = n], LoopOf(x)',
         UNCHANGED <<main, psem>>, \A p \in Procs : psem[p] # p => value'[p] = value[p]
  PROVE  LoopInv'
<1>0. thr \in [Threads -> {"none", "wait", "ended"} \cup Inside]
  BY DEF Inv, Types
<1>1. loop' \in [Threads -> 0 .. kTurns]
  BY DEF LoopInv
<1>2. \A y \in Threads : y # x => LoopOf(y)'
  <2>1. \A y \in Threads : y # x => thr'[y] = thr[y] /\ loop'[y] = loop[y]
    BY <1>0 DEF LoopInv
  <2> QED
    BY <2>1 DEF LoopInv, LoopOf
<1>3. \A p \in Procs : main[p] \in {"last_unlink", "ended"} =>
        \A t \in 1 .. kNum : thr'[<<p, t>>] = "ended"
  <2> SUFFICES ASSUME NEW p \in Procs, main[p] \in {"last_unlink", "ended"}, NEW t \in 1 .. kNum
               PROVE  thr'[<<p, t>>] = "ended"
    OBVIOUS
  <2>1. <<p, t>> \in Threads /\ thr[<<p, t>>] = "ended"
    BY PairsAreThreads DEF LoopInv
  <2> QED
    BY <1>0, <2>1
<1> QED
  BY <1>1, <1>2, <1>3 DEF LoopInv

-----------------------------------------------------------------------------
LEMMA ThreadTurn ==
  ASSUME Inv, TurnInv, NEW x \in Threads, testFunc(x)
  PROVE  TurnInv'
<1> DEFINE s == psem[x[1]]
<1>0. /\ thr \in [Threads -> {"none", "wait", "ended"} \cup Inside]
      /\ loop \in [Threads -> 0 .. kTurns] /\ loop[x] \in 0 .. kTurns /\ LoopOf(x)
      /\ value \in [Procs -> Nat] /\ reg \in [Threads -> 0 .. kNum * kTurns]
      /\ cnt \in [Procs -> Nat] /\ lines \in [Procs -> Nat]
      /\ x[1] \in Procs /\ x[2] \in 1 .. kNum
      /\ kTurns \in Nat \ {0}
  BY ThreadOwner, PairsAreThreads, SizesOK DEF Inv, Types, TurnInv, LoopInv, SumInv
<1>a. UNCHANGED <<main, psem>>
  BY DEF testFunc, Wait, Load, Store, PrintCount, Post
<1>b. thr[x] # "none" /\ thr[x] # "ended"
  BY DEF testFunc, Wait, Load, Store, PrintCount, Post, ThreadGoes
<1>c. \A p \in Procs : psem[p] # p => value'[p] = value[p]
  <2>1. psem[s] = s
    BY <1>b, SemOf
  <2>2. value' = value \/ \E v : value' = [value EXCEPT ![s] = v]
    BY DEF testFunc, Wait, Load, Store, PrintCount, Post
  <2> HIDE DEF s
  <2> QED
    BY <1>0, <2>1, <2>2
<1>d. \A y \in Threads : LoopOf(y)
  BY DEF TurnInv, LoopInv
<1>1. CASE Wait(x)
  <2>1. /\ thr[x] = "wait" /\ thr' = [thr EXCEPT ![x] = "load"]
        /\ loop' = [loop EXCEPT ![x] = loop[x] + 1] /\ UNCHANGED <<cnt, lines, reg>>
    BY <1>1 DEF Wait, ThreadGoes
  <2>2. loop[x] + 1 \in 0 .. kTurns /\ LoopOf(x)'
    BY <1>0, <2>1 DEF LoopOf
  <2>3. LoopInv'
    BY <1>a, <1>b, <1>c, <2>1, <2>2, ThreadLoops DEF TurnInv
  <2>4. UNCHANGED <<counted, printed>>
    BY <1>0, <2>1 DEF counted, printed
  <2> QED
    BY <1>0, <2>1, <2>3, <2>4, SumKept DEF TurnInv
<1>2. CASE Load(x)
  <2>1. /\ thr[x] = "load" /\ thr' = [thr EXCEPT ![x] = "store"]
        /\ reg' = [reg EXCEPT ![x] = cnt[x[1]]] /\ UNCHANGED <<cnt, lines, loop>>
    BY <1>2 DEF Load, ThreadGoes
  <2>2. loop' = [loop EXCEPT ![x] = loop[x]] /\ LoopOf(x)'
    BY <1>0, <2>1 DEF LoopOf
  <2>3. LoopInv'
    BY <1>0, <1>a, <1>b, <1>c, <2>1, <2>2, ThreadLoops DEF TurnInv
  <2>4. UNCHANGED <<counted, printed>>
    BY <1>0, <2>1 DEF counted, printed
  <2>5. reg' \in [Threads -> 0 .. kNum * kTurns]
    <3>1. cnt[x[1]] \in 0 .. kNum * kTurns
      BY <1>0, SumBounds DEF TurnInv
    <3> QED
      BY <1>0, <2>1, <3>1
  <2> QED
    BY <2>1, <2>3, <2>4, <2>5, SumKept DEF TurnInv
<1>3. CASE Store(x)
  <2>1. /\ thr[x] = "store" /\ thr' = [thr EXCEPT ![x] = "print"]
        /\ cnt' = [cnt EXCEPT ![x[1]] = reg[x] + 1] /\ UNCHANGED <<lines, reg, loop>>
    BY <1>3 DEF Store, ThreadGoes
  <2>2. loop' = [loop EXCEPT ![x] = loop[x]] /\ LoopOf(x)'
    BY <1>0, <2>1 DEF LoopOf
  <2>3. LoopInv'
    BY <1>0, <1>a, <1>b, <1>c, <2>1, <2>2, ThreadLoops DEF TurnInv
  <2>4. UNCHANGED printed
    BY <1>0, <2>1 DEF printed
  <2>5. /\ counted \in [Threads -> Nat] /\ counted' \in [Threads -> Nat]
        /\ counted[x] \in 0 .. kTurns - 1 /\ counted'[x] = counted[x] + 1
        /\ \A y \in Threads : y # x => counted'[y] = counted[y]
    BY <1>0, <1>d, <2>1 DEF counted, LoopOf
  <2>6. /\ Cardinality(TurnsOf(x[1], counted')) = Cardinality(TurnsOf(x[1], counted)) + 1
        /\ \A p \in Procs : p # x[1] => TurnsOf(p, counted') = TurnsOf(p, counted)
    BY <2>5, OneMoreTurn
  <2>7. cnt'[x[1]] = cnt[x[1]] + 1 /\ \A p \in Procs : p # x[1] => cnt'[p] = cnt[p]
    <3>1. reg[x] = cnt[x[1]]
      BY <2>1 DEF Inv, CountInv
    <3> QED
      BY <1>0, <2>1, <3>1
  <2>8. SumInv'
    <3>1. \A p \in Procs : cnt'[p] = Cardinality(TurnsOf(p, counted'))
      BY <1>0, <2>6, <2>7 DEF TurnInv, SumInv
    <3>2. \A p \in Procs : lines'[p] = Cardinality(TurnsOf(p, printed'))
      BY <2>1, <2>4 DEF TurnInv, SumInv
    <3> QED
      BY <1>0, <2>1, <3>1, <3>2 DEF SumInv, TurnsOf, Turns
  <2> QED
    BY <2>3, <2>8 DEF TurnInv
<1>4. CASE PrintCount(x)
  <2>1. /\ thr[x] = "print" /\ thr' = [thr EXCEPT ![x] = "post"]
        /\ lines' = [lines EXCEPT ![x[1]] = lines[x[1]] + 1] /\ UNCHANGED <<cnt, reg, loop>>
    BY <1>4 DEF PrintCount, ThreadGoes
  <2>2. loop' = [loop EXCEPT ![x] = loop[x]] /\ LoopOf(x)'
    BY <1>0, <2>1 DEF LoopOf
  <2>3. LoopInv'
    BY <1>0, <1>a, <1>b, <1>c, <2>1, <2>2, ThreadLoops DEF TurnInv
  <2>4. UNCHANGED counted
    BY <1>0, <2>1 DEF counted
  <2>5. /\ printed \in [Threads -> Nat] /\ printed' \in [Threads -> Nat]
        /\ printed[x] \in 0 .. kTurns - 1 /\ printed'[x] = printed[x] + 1
        /\ \A y \in Threads : y # x => printed'[y] = printed[y]
    BY <1>0, <1>d, <2>1 DEF printed, LoopOf
  <2>6. /\ Cardinality(TurnsOf(x[1], printed')) = Cardinality(TurnsOf(x[1], printed)) + 1
        /\ \A p \in Procs : p # x[1] => TurnsOf(p, printed') = TurnsOf(p, printed)
    BY <2>5, OneMoreTurn
  <2>7. lines'[x[1]] = lines[x[1]] + 1 /\ \A p \in Procs : p # x[1] => lines'[p] = lines[p]
    BY <1>0, <2>1
  <2>8. SumInv'
    <3>1. \A p \in Procs : lines'[p] = Cardinality(TurnsOf(p, printed'))
      BY <1>0, <2>6, <2>7 DEF TurnInv, SumInv
    <3>2. \A p \in Procs : cnt'[p] = Cardinality(TurnsOf(p, counted'))
      BY <2>1, <2>4 DEF TurnInv, SumInv
    <3> QED
      BY <1>0, <2>1, <3>1, <3>2 DEF SumInv, TurnsOf, Turns
  <2> QED
    BY <2>3, <2>8 DEF TurnInv
<1>5. CASE Post(x)
  <2>1. /\ thr[x] = "post"
        /\ thr' = [thr EXCEPT ![x] = IF loop[x] < kTurns THEN "wait" ELSE "ended"]
        /\ UNCHANGED <<cnt, lines, reg, loop>>
    BY <1>5 DEF Post, ThreadGoes
  <2>2. loop' = [loop EXCEPT ![x] = loop[x]] /\ LoopOf(x)'
    BY <1>0, <2>1 DEF LoopOf
  <2>3. LoopInv'
    BY <1>0, <1>a, <1>b, <1>c, <2>1, <2>2, ThreadLoops DEF TurnInv
  <2>4. UNCHANGED <<counted, printed>>
    BY <1>0, <2>1 DEF counted, printed
  <2> QED
    BY <1>0, <2>1, <2>3, <2>4, SumKept DEF TurnInv
<1> QED
  BY <1>1, <1>2, <1>3, <1>4, <1>5 DEF testFunc

LEMMA TurnInvariant == Spec => []TurnInv
<1>1. Init => TurnInv
  BY InitTurn
<1>2. Inv /\ TurnInv /\ [Next]_vars => TurnInv'
  <2> SUFFICES ASSUME Inv, TurnInv, [Next]_vars PROVE TurnInv'
    OBVIOUS
  <2>1. CASE UNCHANGED vars
    <3>1. UNCHANGED <<main, value, psem, cnt, thr, loop, reg, lines>>
      BY <2>1 DEF vars, locals
    <3>2. UNCHANGED <<counted, printed>>
      BY <3>1 DEF counted, printed
    <3> QED
      BY <3>1, <3>2, SumKept DEF TurnInv, LoopInv, LoopOf, SumInv
  <2> QED
    BY <2>1, MainTurn, ThreadTurn DEF Next
<1> QED
  BY <1>1, <1>2, Invariant, PTL DEF Spec

\* Every variable keeps its type: a semaphore's value is 0 or 1, no count passes
\* the number of all turns (testFunc(), main()).
THEOREM TypeCorrect == Spec => []TypeOK
<1>1. Inv /\ TurnInv => TypeOK
  <2> SUFFICES ASSUME Inv, TurnInv PROVE TypeOK
    OBVIOUS
  <2>1. \A p \in Procs : value[p] \in 0 .. 1
    <3> SUFFICES ASSUME NEW p \in Procs PROVE value[p] = 0 \/ value[p] = 1
      OBVIOUS
    <3>1. CASE psem[p] = p
      BY <3>1 DEF Inv, TokenInv
    <3>2. CASE psem[p] # p
      BY <3>2 DEF TurnInv, LoopInv
    <3> QED
      BY <3>1, <3>2
  <2>2. value \in [Procs -> 0 .. 1]
    BY <2>1 DEF Inv, Types
  <2>3. cnt \in [Procs -> 0 .. kNum * kTurns] /\ lines \in [Procs -> 0 .. kNum * kTurns]
    BY SumBounds DEF TurnInv, Inv, Types
  <2> QED
    BY <2>2, <2>3 DEF TypeOK, Inv, Types, TurnInv, LoopInv, SumInv
<1> QED
  BY <1>1, Invariant, TurnInvariant, PTL

\* Every line has its number, and a process that ends has counted all turns of
\* all its threads and printed a line for each: whoever else uses its semaphore.
THEOREM AllLinesNumbered == Spec => []LinesNumbered
<1>1. Inv /\ TurnInv => LinesNumbered
  <2> SUFFICES ASSUME Inv, TurnInv PROVE LinesNumbered
    OBVIOUS
  <2>1. PrintsOwnNumber
    BY DEF Inv, CountInv, PrintsOwnNumber
  <2>2. ASSUME NEW p \in Procs, main[p] = "ended"
        PROVE  cnt[p] = kNum * kTurns /\ lines[p] = kNum * kTurns
    <3>1. \A t \in Turns : counted[<<p, t[1]>>] = kTurns /\ printed[<<p, t[1]>>] = kTurns
      <4> SUFFICES ASSUME NEW t \in Turns
                   PROVE  counted[<<p, t[1]>>] = kTurns /\ printed[<<p, t[1]>>] = kTurns
        OBVIOUS
      <4>1. <<p, t[1]>> \in Threads /\ thr[<<p, t[1]>>] = "ended"
        BY <2>2, PairsAreThreads DEF TurnInv, LoopInv
      <4>2. loop[<<p, t[1]>>] = kTurns
        BY <4>1 DEF TurnInv, LoopInv, LoopOf
      <4> QED
        BY <4>1, <4>2 DEF counted, printed
    <3>2. \A t \in Turns : t[2] <= kTurns
      BY PairsAreThreads, SizesOK
    <3>3. TurnsOf(p, counted) = Turns /\ TurnsOf(p, printed) = Turns
      BY <3>1, <3>2 DEF TurnsOf
    <3> QED
      BY <3>3, TurnsFinite DEF TurnInv, SumInv
  <2> QED
    BY <2>1, <2>2 DEF LinesNumbered
<1> QED
  BY <1>1, Invariant, TurnInvariant, PTL

\* A semaphore is free, or one thread has it, of whichever process, dead or alive.
THEOREM TokenIsOne == Spec => []OneToken
<1>1. Inv => OneToken
  <2> SUFFICES ASSUME Inv, NEW s \in Procs, psem[s] = s
               PROVE  value[s] + Cardinality(Holders(s)) = 1
    BY DEF OneToken
  <2>1. CASE value[s] = 1 /\ \A x \in Threads : ~Has(x, s)
    <3>1. Holders(s) = {}
      BY <2>1 DEF Holders, Has
    <3>2. Cardinality(Holders(s)) = 0
      BY <3>1, FS_EmptySet
    <3> QED
      BY <2>1, <3>2
  <2>2. CASE /\ value[s] = 0
             /\ \E x \in Threads : Has(x, s) /\ \A y \in Threads : Has(y, s) => y = x
    <3>1. PICK x \in Threads : Has(x, s) /\ \A y \in Threads : Has(y, s) => y = x
      BY <2>2
    <3>2. Holders(s) = {x}
      BY <3>1 DEF Holders, Has
    <3>3. Cardinality(Holders(s)) = 1
      BY <3>2, FS_Singleton
    <3> QED
      BY <2>2, <3>3
  <2> QED
    BY <2>1, <2>2 DEF Inv, TokenInv
<1> QED
  BY <1>1, Invariant, PTL

\* A process shares its semaphore only if another opened the name between its
\* sem_unlink() and its sem_open().
THEOREM OwnSemaphore == Spec => []OwnUnlessRaced
<1>1. Inv => OwnUnlessRaced
  BY DEF Inv, RaceInv, OwnUnlessRaced
<1> QED
  BY <1>1, Invariant, PTL

\* While main() makes its threads, those it has made are the first ones.
MadeInv ==
  \A p \in Procs :
    /\ main[p] = "create" =>
         \E k \in 1 .. kNum : \A t \in 1 .. kNum : thr[<<p, t>>] = "none" <=> t >= k
    /\ main[p] = "join" => \A t \in 1 .. kNum : thr[<<p, t>>] # "none"

LEMMA MadeStep ==
  ASSUME Inv, MadeInv, [Next]_vars PROVE MadeInv'
<1>0. /\ thr \in [Threads -> {"none", "wait", "ended"} \cup Inside]
      /\ main \in [Procs -> {"off", "unlink", "open", "create", "join",
                             "last_unlink", "ended", "killed"}]
      /\ kNum \in Nat \ {0}
  BY SizesOK DEF Inv, Types
<1>1. ASSUME NEW p \in Procs, Start(p) \/ Unlink(p) \/ Join(p) \/ LastUnlink(p) \/ Kill(p)
      PROVE  MadeInv'
  <2>1. /\ thr' = thr
        /\ \A q \in Procs : main'[q] = main[q] \/ main'[q] \notin {"create", "join"}
    BY <1>0, <1>1 DEF Start, Unlink, Join, LastUnlink, Kill, MainGoes, locals
  <2>2. \A q \in Procs : main'[q] \in {"create", "join"} => main'[q] = main[q]
    BY <2>1
  <2> QED
    BY <2>1, <2>2 DEF MadeInv
<1>2. ASSUME NEW p \in Procs, Open(p) PROVE MadeInv'
  <2>1. \A t \in 1 .. kNum : thr[<<p, t>>] = "none" <=> t >= 1
    BY <1>2, PairsAreThreads DEF Inv, PsemInv, Open, MainGoes
  <2>2. 1 \in 1 .. kNum
    BY <1>0
  <2>3. main' = [main EXCEPT ![p] = "create"] /\ thr' = thr
    BY <1>2 DEF Open, MainGoes, locals
  <2> QED
    BY <1>0, <2>1, <2>2, <2>3 DEF MadeInv
<1>3. ASSUME NEW p \in Procs, Create(p) PROVE MadeInv'
  <2>1. PICK t \in 1 .. kNum :
          /\ thr[<<p, t>>] = "none" /\ \A u \in 1 .. t - 1 : thr[<<p, u>>] # "none"
          /\ thr' = [thr EXCEPT ![<<p, t>>] = "wait"]
          /\ main' = IF t = kNum THEN [main EXCEPT ![p] = "join"] ELSE main
    BY <1>3 DEF Create
  <2>2. PICK k \in 1 .. kNum : \A u \in 1 .. kNum : thr[<<p, u>>] = "none" <=> u >= k
    BY <1>3 DEF Create, MadeInv
  <2>3. k = t
    <3>1. t >= k
      BY <2>1, <2>2
    <3>2. k \in 1 .. t - 1 => thr[<<p, k>>] = "none"
      BY <2>2
    <3> QED
      BY <1>0, <2>1, <3>1, <3>2
  <2>4. \A u \in 1 .. kNum : thr'[<<p, u>>] = "none" <=> u >= t + 1
    <3> SUFFICES ASSUME NEW u \in 1 .. kNum
                 PROVE  thr'[<<p, u>>] = "none" <=> u >= t + 1
      OBVIOUS
    <3>1. <<p, u>> \in Threads /\ (<<p, u>> = <<p, t>> <=> u = t)
      BY PairsAreThreads
    <3>2. thr'[<<p, u>>] = IF u = t THEN "wait" ELSE thr[<<p, u>>]
      BY <1>0, <2>1, <3>1
    <3> QED
      BY <1>0, <2>2, <2>3, <3>2
  <2>5. \A q \in Procs : q # p =>
          main'[q] = main[q] /\ \A u \in 1 .. kNum : thr'[<<q, u>>] = thr[<<q, u>>]
    <3> SUFFICES ASSUME NEW q \in Procs, q # p
                 PROVE  main'[q] = main[q] /\ \A u \in 1 .. kNum : thr'[<<q, u>>] = thr[<<q, u>>]
      OBVIOUS
    <3>1. \A u \in 1 .. kNum : <<q, u>> \in Threads /\ <<q, u>> # <<p, t>>
      BY PairsAreThreads
    <3> QED
      BY <1>0, <2>1, <3>1
  <2>6. \A q \in Procs : q # p =>
          /\ main'[q] = "create" =>
               \E l \in 1 .. kNum : \A u \in 1 .. kNum : thr'[<<q, u>>] = "none" <=> u >= l
          /\ main'[q] = "join" => \A u \in 1 .. kNum : thr'[<<q, u>>] # "none"
    BY <2>5 DEF MadeInv
  <2>7. main[p] = "create" /\ main'[p] = IF t = kNum THEN "join" ELSE "create"
    BY <1>0, <1>3, <2>1 DEF Create
  <2>8. CASE t = kNum
    <3>1. \A u \in 1 .. kNum : thr'[<<p, u>>] # "none"
      BY <1>0, <2>4, <2>8
    <3> QED
      BY <2>6, <2>7, <2>8, <3>1 DEF MadeInv
  <2>9. CASE t # kNum
    <3>1. t + 1 \in 1 .. kNum
      BY <1>0, <2>9
    <3> QED
      BY <2>4, <2>6, <2>7, <2>9, <3>1 DEF MadeInv
  <2> QED
    BY <2>8, <2>9
<1>4. ASSUME NEW x \in Threads, testFunc(x) PROVE MadeInv'
  <2>1. UNCHANGED main /\ thr[x] # "none" /\ \E to \in {"wait", "ended"} \cup Inside :
          thr' = [thr EXCEPT ![x] = to]
    BY <1>4 DEF testFunc, Wait, Load, Store, PrintCount, Post, ThreadGoes, Inside
  <2>2. \A y \in Threads : thr'[y] = "none" <=> thr[y] = "none"
    BY <1>0, <2>1 DEF Inside
  <2> QED
    BY <2>1, <2>2, PairsAreThreads DEF MadeInv
<1>5. CASE UNCHANGED vars
  <2>1. main' = main /\ thr' = thr
    BY <1>5 DEF vars, locals
  <2> QED
    BY <2>1 DEF MadeInv
<1> QED
  BY <1>1, <1>2, <1>3, <1>4, <1>5 DEF Next, MainStep

LEMMA MadeInvariant == Spec => []MadeInv
<1>1. Init => MadeInv
  BY DEF Init, MadeInv
<1>2. Inv /\ MadeInv /\ [Next]_vars => MadeInv'
  BY MadeStep
<1> QED
  BY <1>1, <1>2, Invariant, PTL DEF Spec

\* A process that has not ended can go on, or waits for a thread that can, of
\* whichever process, or for one that was killed with the semaphore.
THEOREM SomeoneGoes == Spec => []NoDeadlock
<1>1. Inv /\ MadeInv => NoDeadlock
  <2> SUFFICES ASSUME Inv, MadeInv, NEW p \in Procs,
                      main[p] \notin {"off", "ended", "killed"}, ~MainCanGo(p), ~Robbed(p)
               PROVE  \E x \in Threads : psem[x[1]] = psem[p] /\ CanGo(x)
    BY DEF NoDeadlock
  <2>0. /\ main[p] \in {"off", "unlink", "open", "create", "join",
                        "last_unlink", "ended", "killed"}
        /\ thr \in [Threads -> {"none", "wait", "ended"} \cup Inside]
    BY DEF Inv, Types
  <2>1. main[p] # "create"
    <3> SUFFICES ASSUME main[p] = "create" PROVE FALSE
      OBVIOUS
    <3>1. PICK k \in 1 .. kNum : \A t \in 1 .. kNum : thr[<<p, t>>] = "none" <=> t >= k
      BY DEF MadeInv
    <3>2. thr[<<p, k>>] = "none" /\ \A u \in 1 .. k - 1 : thr[<<p, u>>] # "none"
      BY <3>1, SizesOK
    <3> QED
      BY <3>2 DEF MainCanGo
  <2>2. main[p] = "join" /\ \E t \in 1 .. kNum : thr[<<p, t>>] # "ended"
    BY <2>0, <2>1 DEF MainCanGo
  <2>3. PICK t \in 1 .. kNum : thr[<<p, t>>] # "ended"
    BY <2>2
  <2> DEFINE x == <<p, t>>
  <2>4. x \in Threads /\ x[1] = p /\ thr[x] \in {"wait"} \cup Inside
    BY <2>0, <2>2, <2>3, PairsAreThreads DEF MadeInv
  <2> HIDE DEF x
  <2>5. CASE thr[x] \in Inside
    BY <2>2, <2>4, <2>5 DEF CanGo
  <2>6. CASE thr[x] = "wait"
    <3> DEFINE s == psem[p]
    <3>1. s \in Procs /\ psem[s] = s
      BY <2>4, <2>6, SemOf
    <3>2. CASE value[s] = 1
      BY <2>2, <2>4, <2>6, <3>2 DEF CanGo
    <3>3. CASE \E y \in Threads : Has(y, s)
      <4>1. PICK y \in Threads : Has(y, s)
        BY <3>3
      <4>2. main[y[1]] # "killed"
        BY <4>1 DEF Robbed, Holders, Has
      <4> QED
        BY <4>1, <4>2 DEF Has, CanGo
    <3> HIDE DEF s
    <3> QED
      BY <3>1, <3>2, <3>3 DEF Inv, TokenInv
  <2> QED
    BY <2>4, <2>5, <2>6
<1> QED
  BY <1>1, Invariant, MadeInvariant, PTL
=============================================================================
