-------------------------- MODULE FactLedgerProofs --------------------------
(* What holds of facts, values and applications for any number of callers,     *)
(* names, responses and calls.  The rows of a name are only written under the  *)
(* lock of its fact, so what a call sees of a name it has locked is what is    *)
(* committed plus its own writes, and of any other name what is committed.     *)
EXTENDS FactLedger, FiniteSetTheorems, TLAPS

FactsOf(F, n) == {f \in F : f.name = n}
ValuesOf(V, n) == {v \in V : v.fact = n}
(* Rows overlaid with newer ones.                                              *)
FactsOver(F, G) == {f \in F : \A g \in G : g.name # f.name} \cup G
ValuesOver(V, W) == {v \in V : \A w \in W : Id(w) # Id(v)} \cup W

(* What a call sees of a name.                                                 *)
FactSeen(t, F, n) == FactsOf(FactsOver(F, t.facts), n)
ValuesSeen(t, V, n) == ValuesOf(ValuesOver(V, t.values), n)

(* The numbers of a run's values of a name, and those its items list.          *)
NosOf(VV, r) == {v.no : v \in {w \in VV : w.run = r}}
ItemNos(items, n) == {i.no : i \in {j \in ToSet(items) : j.outcome # "withheld" /\ j.fact = n}}
CommittedNos(A, r, n) == IF A[r] = None THEN {} ELSE ItemNos(A[r], n)
Claimed(t) == t.op = "persist" /\ t.stage # "claim"
ListedNos(t, A, r, n) == IF Claimed(t) /\ r = t.run THEN ItemNos(t.items, n) ELSE CommittedNos(A, r, n)

(* The fact of a name and its values: one fact, dense numbers, the accepted    *)
(* value is current, or pending while it is about to become current.           *)
Ordered(FF, VV, p) ==
    /\ \A f, g \in FF : f = g
    /\ \A v, w \in VV : v.no = w.no => v = w
    /\ \E k \in Nat : {v.no : v \in VV} = 1..k
    /\ VV # {} => FF # {}
    /\ \A f \in FF : /\ \A v \in VV : v.status = "accepted" <=> v.no \in {f.current, p}
                     /\ f.current # 0 => \E v \in VV : v.no = f.current
                     /\ p # 0 => f.current # p
    /\ p # 0 => \E v \in VV : v.no = p
Pending(t, n) == IF t.stage = "replace" /\ t.name = n THEN t.no ELSE 0

Follows(w, v) ==
    /\ w.no = v.no /\ w.run = v.run /\ w.hash = v.hash
    /\ \/ w.status = v.status
       \/ v.status = "proposed"
       \/ v.status = "accepted" /\ w.status = "superseded"
Later(VV, WW) == \A v \in VV : \E w \in WW : Follows(w, v)
StaysBound(FF, GG) == \A f \in FF : f.bound => \E g \in GG : g.bound

(* The values of a name with one number, and what takes their place.           *)
Supersedes(N, VV, k) ==
    /\ \A w \in N : \E v \in VV : /\ v.no = k /\ w.no = v.no /\ w.fact = v.fact
                                /\ w.run = v.run /\ w.hash = v.hash
                                /\ w.status = "superseded"
    /\ \A v \in VV : v.no = k => \E w \in N : w.no = v.no
    /\ \A w, x \in N : w = x

(* What a call sees of a name is in order and as late as what is committed.    *)
SeesFits(t, F, V, A, n) ==
    /\ Ordered(FactSeen(t, F, n), ValuesSeen(t, V, n), Pending(t, n))
    /\ Later(ValuesOf(V, n), ValuesSeen(t, V, n))
    /\ StaysBound(FactsOf(F, n), FactSeen(t, F, n))
    /\ \A r \in Runs : NosOf(ValuesSeen(t, V, n), r) = ListedNos(t, A, r, n)

Tx == [op : {"none", "persist", "human", "accept", "reject"},
       stage : {"idle", "claim", "resolve", "fact", "value", "replace", "commit"},
       run : Runs \cup {None}, name : Names \cup {None}, no : Nat,
       bound : BOOLEAN, hash : Hashes \cup {None}, replace : BOOLEAN,
       todo : Seq(Proposal), items : Seq(Item), facts : SUBSET Fact, values : SUBSET Value]

(* The stages of each call and what it has locked by then.                     *)
StagesFit(t, H, A) ==
    /\ t.op = "none" => t = Idle
    /\ t.op = "persist" =>
          /\ t.run \in Runs /\ t.stage \in {"claim", "resolve", "fact"}
          /\ t.stage = "claim" => t.items = <<>> /\ t.facts = {} /\ t.values = {}
          /\ t.stage # "claim" => <<"application", t.run>> \in H /\ A[t.run] = None
          /\ t.stage = "fact" => t.name \in Names /\ t.todo # <<>>
    /\ t.op = "human" =>
          t.stage \in {"fact", "replace", "commit"} /\ t.name \in Names /\ t.hash \in Hashes
    /\ t.op \in {"accept", "reject"} => t.stage \in {"value", "fact", "replace", "commit"} /\ t.name \in Names
    /\ t.stage \in {"replace", "commit"} => <<"fact", t.name>> \in H
    /\ t.stage = "replace" => t.no # 0

(* The value a decision is about is there.                                     *)
ValueIsThere(t, V) ==
    t.op \in {"accept", "reject"} => \E v \in V : v.fact = t.name /\ v.no = t.no

(* The rows a call has written belong to facts it has locked.                  *)
WritesAreLocked(t, H) ==
    /\ \A f \in t.facts : <<"fact", f.name>> \in H
    /\ \A v \in t.values : <<"fact", v.fact>> \in H

TxFits(t, H, F, V, A) ==
    /\ t \in Tx
    /\ StagesFit(t, H, A) /\ ValueIsThere(t, V) /\ WritesAreLocked(t, H)
    /\ \A n \in Names : SeesFits(t, F, V, A, n)

RowsFit ==
    /\ entities \subseteq Names
    /\ facts \subseteq Fact /\ values \subseteq Value
    /\ DOMAIN applied = Runs /\ \A r \in Runs : applied[r] # None => applied[r] \in Seq(Item)
    /\ DOMAIN tx = Callers /\ DOMAIN held = Callers
    /\ \A c, d \in Callers : c # d => held[c] \cap held[d] = {}

LedgerInv ==
    /\ RowsFit
    /\ \A n \in Names : SeesFits(Idle, facts, values, applied, n)
    /\ \A c \in Callers : TxFits(tx[c], held[c], facts, values, applied)

-----------------------------------------------------------------------------
(* Overlays and numbers.                                                       *)

(* Overlaying twice is overlaying with the overlaid.                           *)
LEMMA OverTwice ==
    ASSUME NEW V, NEW W, NEW N
    PROVE  ValuesOver(V, ValuesOver(W, N)) = ValuesOver(ValuesOver(V, W), N)
BY DEF ValuesOver

LEMMA FactsOverTwice ==
    ASSUME NEW F, NEW G, NEW H
    PROVE  FactsOver(F, FactsOver(G, H)) = FactsOver(FactsOver(F, G), H)
BY DEF FactsOver

(* Writing values of one name leaves the others as they were.                  *)
LEMMA OverOther ==
    ASSUME NEW V, NEW N, NEW n, \A v \in N : v.fact # n
    PROVE  ValuesOf(ValuesOver(V, N), n) = ValuesOf(V, n)
BY DEF ValuesOver, ValuesOf, Id

LEMMA FactsOverOther ==
    ASSUME NEW F, NEW G, NEW n, \A f \in G : f.name # n
    PROVE  FactsOf(FactsOver(F, G), n) = FactsOf(F, n)
BY DEF FactsOver, FactsOf

LEMMA OverOwn ==
    ASSUME NEW V, NEW N, NEW n, \A v \in N : v.fact = n
    PROVE  ValuesOf(ValuesOver(V, N), n) =
              {v \in ValuesOf(V, n) : \A w \in N : w.no # v.no} \cup N
BY DEF ValuesOver, ValuesOf, Id

LEMMA OverNothing ==
    ASSUME NEW V, NEW F
    PROVE  ValuesOver(V, {}) = V /\ FactsOver(F, {}) = F
BY DEF ValuesOver, FactsOver

(* The highest of the numbers from one to k is k.                              *)
LEMMA HighestNo ==
    ASSUME NEW k \in Nat
    PROVE  Max({0} \cup 1..k) = k
<1>1. \A x \in {0} \cup 1..k : (\A y \in {0} \cup 1..k : x >= y) <=> x = k
  OBVIOUS
<1>2. k \in {0} \cup 1..k
  OBVIOUS
<1> QED
  BY <1>1, <1>2 DEF Max

(* What is listed after one more item.                                         *)
LEMMA ListedItem ==
    ASSUME NEW items \in Seq(Item), NEW i \in Item, NEW n
    PROVE  ItemNos(Append(items, i), n) =
              ItemNos(items, n) \cup (IF i.outcome # "withheld" /\ i.fact = n THEN {i.no} ELSE {})
<1>1. ToSet(Append(items, i)) = ToSet(items) \cup {i}
  <2> DEFINE more == Append(items, i)
  <2>1. DOMAIN more = 1..(Len(items) + 1) /\ DOMAIN items = 1..Len(items) /\ Len(items) \in Nat
    OBVIOUS
  <2>2. \A j \in 1..Len(items) : more[j] = items[j]
    OBVIOUS
  <2>3. more[Len(items) + 1] = i
    OBVIOUS
  <2>4. DOMAIN more = (DOMAIN items) \cup {Len(items) + 1}
    BY <2>1
  <2> HIDE DEF more
  <2>5. {more[j] : j \in DOMAIN more} = {items[j] : j \in DOMAIN items} \cup {i}
    BY <2>1, <2>2, <2>3, <2>4
  <2> QED
    BY <2>5 DEF ToSet, more
<1> QED
  BY <1>1 DEF ItemNos

LEMMA ListedNothing ==
    ASSUME NEW n
    PROVE  ItemNos(<<>>, n) = {}
BY DEF ItemNos, ToSet

-----------------------------------------------------------------------------
(* The order of a name's values after each kind of write.                      *)

(* A value is appended: proposed, or accepted and about to become current.     *)
LEMMA OrderedAppend ==
    ASSUME NEW FF \in SUBSET Fact, NEW VV \in SUBSET Value, Ordered(FF, VV, 0),
           NEW f \in Fact, \A g \in FF : f.current = g.current, FF = {} => f.current = 0,
           NEW k \in Nat, {v.no : v \in VV} = 1..k,
           NEW v \in Value, v.no = k + 1, v.status \in {"proposed", "accepted"},
           NEW p, p = IF v.status = "accepted" THEN v.no ELSE 0
    PROVE  Ordered({f}, VV \cup {v}, p)
<1> DEFINE WW == VV \cup {v}
<1>1. \A w \in VV : w.no \in 1..k
  OBVIOUS
<1>2. \A w \in WW, x \in WW : w.no = x.no => w = x
  BY <1>1 DEF Ordered, Value
<1>3. {w.no : w \in WW} = 1..(k + 1)
  <2>1. {w.no : w \in WW} = {w.no : w \in VV} \cup {v.no}
    OBVIOUS
  <2> QED
    BY <2>1
<1>4. f.current # 0 => \E w \in WW : w.no = f.current
  BY DEF Ordered
<1>5. f.current \in 0..k
  BY <1>1 DEF Ordered, Fact
<1>6. \A w \in VV : w.status = "accepted" <=> w.no = f.current
  BY <1>1 DEF Ordered
<1>7. \A w \in WW : w.status = "accepted" <=> w.no \in {f.current, p}
  BY <1>1, <1>5, <1>6
<1>8. p # 0 => f.current # p /\ \E w \in WW : w.no = p
  BY <1>5
<1> QED
  BY <1>2, <1>3, <1>4, <1>7, <1>8 DEF Ordered

(* Only what the fact says besides its current value changes.                  *)
LEMMA OrderedRebind ==
    ASSUME NEW FF, NEW VV, Ordered(FF, VV, 0),
           NEW f, NEW g \in FF, f.current = g.current
    PROVE  Ordered({f}, VV, 0)
BY DEF Ordered

(* A proposed value is accepted, and is about to become current, or rejected.  *)
LEMMA OrderedDecide ==
    ASSUME NEW FF \in SUBSET Fact, NEW VV \in SUBSET Value, Ordered(FF, VV, 0),
           NEW v \in VV, v.status = "proposed",
           NEW d \in Value, d.no = v.no, d.status \in {"accepted", "rejected"},
           NEW p, p = IF d.status = "accepted" THEN v.no ELSE 0
    PROVE  Ordered(FF, {w \in VV : d.no # w.no} \cup {d}, p)
<1> DEFINE WW == {w \in VV : d.no # w.no} \cup {d}
<1>1. \A w \in WW, x \in WW : w.no = x.no => w = x
  BY DEF Ordered
<1>2. {w.no : w \in WW} = {w.no : w \in VV}
  OBVIOUS
<1>3. \E k \in Nat : {w.no : w \in WW} = 1..k
  BY <1>2 DEF Ordered
<1>4. \A f \in FF : f.current # v.no
  BY DEF Ordered
<1>5. v.no # 0
  BY DEF Value
<1>6. ASSUME NEW f \in FF
      PROVE  /\ \A w \in WW : w.status = "accepted" <=> w.no \in {f.current, p}
             /\ f.current # 0 => \E w \in WW : w.no = f.current
             /\ p # 0 => f.current # p
  <2>1. \A w \in WW : w.status = "accepted" <=> w.no \in {f.current, p}
    BY <1>4, <1>5 DEF Ordered, Value
  <2>2. f.current # 0 => \E w \in WW : w.no = f.current
    BY <1>4 DEF Ordered
  <2> QED
    BY <2>1, <2>2, <1>4
<1>7. p # 0 => \E w \in WW : w.no = p
  OBVIOUS
<1>8. \A f, g \in FF : f = g
  BY DEF Ordered
<1>9. FF # {}
  BY DEF Ordered
<1> QED
  BY <1>1, <1>3, <1>6, <1>7, <1>8, <1>9 DEF Ordered

(* The pending value becomes current; the value that was is superseded.        *)
LEMMA OrderedReplace ==
    ASSUME NEW FF, NEW VV, NEW p \in Nat \ {0}, Ordered(FF, VV, p),
           NEW g \in FF, NEW G, G # {}, \A f \in G : f.current = p, \A e, f \in G : e = f,
           NEW N, Supersedes(N, VV, g.current),
           NEW WW, WW = {v \in VV : \A w \in N : w.no # v.no} \cup N
    PROVE  Ordered(G, WW, 0)
<1>1. \A w \in N : \E v \in VV : w.no = v.no /\ v.no = g.current
  BY DEF Supersedes
<1>2. ASSUME NEW v \in VV, v.no = g.current
      PROVE  \E w \in N : w.no = v.no
  BY <1>2 DEF Supersedes
<1>3. \A w \in N : w.no = g.current /\ w.status = "superseded"
  BY DEF Supersedes
<1>5. \A w, x \in WW : w.no = x.no => w = x
  BY DEF Ordered, Supersedes
<1>6. {w.no : w \in WW} = {w.no : w \in VV}
  <2>1. ASSUME NEW v \in VV
        PROVE  \E w \in WW : w.no = v.no
    BY <1>2, <1>3
  <2>2. ASSUME NEW w \in WW
        PROVE  \E v \in VV : v.no = w.no
    BY <1>1, <1>3
  <2> QED
    BY <2>1, <2>2
<1>7. \E k \in Nat : {w.no : w \in WW} = 1..k
  BY <1>6 DEF Ordered
<1>8. g.current # p
  BY DEF Ordered
<1>9. \A w \in WW : w.status = "accepted" <=> w.no = p
  <2>1. ASSUME NEW w \in VV, \A x \in N : x.no # w.no
        PROVE  w.status = "accepted" <=> w.no = p
    BY <2>1, <1>2 DEF Ordered
  <2> QED
    BY <2>1, <1>3, <1>8
<1>10. \E w \in WW : w.no = p
  BY <1>8, <1>3 DEF Ordered
<1>11. \A w \in WW : w.no # 0
  BY <1>7
<1> QED
  BY <1>5, <1>7, <1>9, <1>10, <1>11 DEF Ordered

-----------------------------------------------------------------------------
(* What a call sees after a write of its own, or a commit of another's.        *)

LEMMA LaterTwice ==
    ASSUME NEW VV, NEW WW, NEW XX, Later(VV, WW), Later(WW, XX)
    PROVE  Later(VV, XX)
BY DEF Later, Follows

LEMMA LaterSame ==
    ASSUME NEW VV
    PROVE  Later(VV, VV)
BY DEF Later, Follows

LEMMA LaterOver ==
    ASSUME NEW VV, NEW N, \A v \in VV, w \in N : w.no = v.no => Follows(w, v)
    PROVE  Later(VV, {v \in VV : \A w \in N : w.no # v.no} \cup N)
BY DEF Later, Follows

(* A name the call does not write is seen as before.                           *)
LEMMA OtherName ==
    ASSUME NEW t, NEW u, NEW F, NEW V, NEW A, NEW n, NEW G, NEW N,
           u.facts = FactsOver(t.facts, G), \A f \in G : f.name # n,
           u.values = ValuesOver(t.values, N), \A v \in N : v.fact # n,
           Pending(u, n) = Pending(t, n),
           \A r \in Runs : ListedNos(u, A, r, n) = ListedNos(t, A, r, n),
           SeesFits(t, F, V, A, n)
    PROVE  SeesFits(u, F, V, A, n)
<1>1. FactSeen(u, F, n) = FactSeen(t, F, n)
  BY FactsOverTwice, FactsOverOther DEF FactSeen
<1>2. ValuesSeen(u, V, n) = ValuesSeen(t, V, n)
  BY OverTwice, OverOther DEF ValuesSeen
<1> QED
  BY <1>1, <1>2 DEF SeesFits

(* The name the call writes.                                                   *)
LEMMA OwnName ==
    ASSUME NEW t, NEW u, NEW F, NEW V, NEW A, NEW n, NEW N,
           u.values = ValuesOver(t.values, N), \A v \in N : v.fact = n,
           NEW WW, WW = {v \in ValuesSeen(t, V, n) : \A w \in N : w.no # v.no} \cup N,
           Ordered(FactSeen(u, F, n), WW, Pending(u, n)),
           \A v \in ValuesSeen(t, V, n), w \in N : w.no = v.no => Follows(w, v),
           StaysBound(FactSeen(t, F, n), FactSeen(u, F, n)),
           \A r \in Runs : NosOf(WW, r) = ListedNos(u, A, r, n),
           SeesFits(t, F, V, A, n)
    PROVE  SeesFits(u, F, V, A, n)
<1>1. ValuesSeen(u, V, n) = WW
  BY OverTwice, OverOwn DEF ValuesSeen
<1>2. Later(ValuesOf(V, n), WW)
  BY LaterOver, LaterTwice DEF SeesFits
<1>3. StaysBound(FactsOf(F, n), FactSeen(u, F, n))
  BY DEF SeesFits, StaysBound
<1> QED
  BY <1>1, <1>2, <1>3 DEF SeesFits

(* A call that has written nothing sees what is committed.                     *)
LEMMA NothingWritten ==
    ASSUME NEW t, NEW F, NEW V, NEW A, NEW n,
           t.facts = {}, t.values = {}, Pending(t, n) = 0,
           \A r \in Runs : ListedNos(t, A, r, n) = CommittedNos(A, r, n),
           SeesFits(Idle, F, V, A, n)
    PROVE  SeesFits(t, F, V, A, n)
<1>1. /\ Idle.facts = {} /\ Idle.values = {} /\ Pending(Idle, n) = 0
      /\ \A r \in Runs : ListedNos(Idle, A, r, n) = CommittedNos(A, r, n)
  BY DEF Idle, Pending, ListedNos, Claimed
<1>2. t.facts = FactsOver(Idle.facts, {}) /\ t.values = ValuesOver(Idle.values, {})
  BY <1>1, OverNothing
<1> QED
  BY <1>1, <1>2, OtherName

(* What a call saw of a name is what is committed of it when it commits.       *)
LEMMA SeenIsCommitted ==
    ASSUME NEW t, NEW F, NEW V, NEW A, NEW n, SeesFits(t, F, V, A, n), Pending(t, n) = 0,
           NEW B, \A r \in Runs : CommittedNos(B, r, n) = ListedNos(t, A, r, n)
    PROVE  SeesFits(Idle, FactsOver(F, t.facts), ValuesOver(V, t.values), B, n)
<1>1. FactsOver(FactsOver(F, t.facts), Idle.facts) = FactsOver(F, t.facts)
      /\ ValuesOver(ValuesOver(V, t.values), Idle.values) = ValuesOver(V, t.values)
  BY OverNothing DEF Idle
<1>2. /\ Pending(Idle, n) = 0
      /\ \A r \in Runs : ListedNos(Idle, B, r, n) = CommittedNos(B, r, n)
  BY DEF Idle, Pending, ListedNos, Claimed
<1> QED
  BY <1>1, <1>2, LaterSame DEF SeesFits, FactSeen, ValuesSeen, StaysBound

(* Another call commits: a name it has not written is committed as before,     *)
(* and its items list nothing of it.                                           *)
LEMMA CommitElsewhere ==
    ASSUME NEW d, NEW F, NEW V, NEW A, NEW n, SeesFits(d, F, V, A, n),
           \A f \in d.facts : f.name # n, \A v \in d.values : v.fact # n,
           SeesFits(Idle, F, V, A, n),
           NEW t, SeesFits(t, F, V, A, n),
           NEW B, \A r \in Runs : CommittedNos(B, r, n) = ListedNos(d, A, r, n)
    PROVE  SeesFits(t, FactsOver(F, d.facts), ValuesOver(V, d.values), B, n)
<1> DEFINE G == FactsOver(F, d.facts)
           W == ValuesOver(V, d.values)
<1>1. FactsOf(G, n) = FactsOf(F, n) /\ ValuesOf(W, n) = ValuesOf(V, n)
  BY FactsOverOther, OverOther
<1>2. FactSeen(t, G, n) = FactSeen(t, F, n)
  BY <1>1 DEF FactSeen, FactsOver, FactsOf
<1>3. ValuesSeen(t, W, n) = ValuesSeen(t, V, n)
  <2>1. \A v : v \in ValuesSeen(t, W, n) <=> v \in ValuesSeen(t, V, n)
    <3> HIDE DEF W
    <3> QED
      BY <1>1 DEF ValuesSeen, ValuesOver, ValuesOf
  <2> QED
    BY <2>1 DEF ValuesSeen, ValuesOver, ValuesOf
<1>4. ValuesSeen(d, V, n) = ValuesOf(V, n)
  BY <1>1 DEF ValuesSeen
<1>5. ValuesSeen(Idle, V, n) = ValuesOf(V, n)
  BY OverNothing DEF ValuesSeen, Idle
<1>6. ASSUME NEW r \in Runs
      PROVE  ListedNos(t, B, r, n) = ListedNos(t, A, r, n)
  <2>1. ListedNos(d, A, r, n) = ListedNos(Idle, A, r, n)
    BY <1>4, <1>5 DEF SeesFits
  <2>2. ListedNos(Idle, A, r, n) = CommittedNos(A, r, n)
    BY DEF ListedNos, Claimed, Idle
  <2> QED
    BY <2>1, <2>2 DEF ListedNos
<1> QED
  BY <1>1, <1>2, <1>3, <1>6 DEF SeesFits

(* A call that has written nothing of a name lists nothing of it.              *)
LEMMA NothingListed ==
    ASSUME NEW t, NEW F, NEW V, NEW A, NEW n, SeesFits(t, F, V, A, n), SeesFits(Idle, F, V, A, n),
           \A v \in t.values : v.fact # n,
           Claimed(t), t.run \in Runs, A[t.run] = None
    PROVE  ItemNos(t.items, n) = {}
<1>1. ValuesSeen(t, V, n) = ValuesOf(V, n) /\ ValuesSeen(Idle, V, n) = ValuesOf(V, n)
  BY OverOther, OverNothing DEF ValuesSeen, Idle
<1>2. ~Claimed(Idle)
  BY DEF Idle, Claimed
<1> QED
  BY <1>1, <1>2 DEF SeesFits, ListedNos, CommittedNos

(* Another call commits: of a name this call has not written it sees what is   *)
(* now committed.                                                              *)
LEMMA SeesCommit ==
    ASSUME NEW t, NEW F, NEW V, NEW A, NEW n, SeesFits(t, F, V, A, n), SeesFits(Idle, F, V, A, n),
           \A f \in t.facts : f.name # n, \A v \in t.values : v.fact # n, Pending(t, n) = 0,
           NEW B, Claimed(t) => t.run \in Runs /\ A[t.run] = None /\ B[t.run] = None,
           NEW G, NEW W, SeesFits(Idle, G, W, B, n)
    PROVE  SeesFits(t, G, W, B, n)
<1>1. t.facts = FactsOver(Idle.facts, t.facts) /\ t.values = ValuesOver(Idle.values, t.values)
  BY DEF FactsOver, ValuesOver, Idle
<1>2. Pending(Idle, n) = 0
  BY DEF Pending, Idle
<1>3. ASSUME NEW r \in Runs
      PROVE  ListedNos(t, B, r, n) = ListedNos(Idle, B, r, n)
  <2>1. ListedNos(Idle, B, r, n) = CommittedNos(B, r, n)
    BY DEF ListedNos, Claimed, Idle
  <2>2. CASE Claimed(t) /\ r = t.run
    BY <2>1, <2>2, NothingListed DEF ListedNos, CommittedNos
  <2>3. CASE ~(Claimed(t) /\ r = t.run)
    BY <2>1, <2>3 DEF ListedNos
  <2> QED
    BY <2>2, <2>3
<1> QED
  BY <1>1, <1>2, <1>3, OtherName

-----------------------------------------------------------------------------
(* The ways a transaction moves.                                               *)

LEMMA IdleFits ==
    ASSUME NEW F, NEW V, NEW A, NEW H, \A n \in Names : SeesFits(Idle, F, V, A, n)
    PROVE  TxFits(Idle, H, F, V, A)
<1>1. Idle \in Tx
  BY DEF Idle, Tx
<1>2. StagesFit(Idle, H, A) /\ ValueIsThere(Idle, V) /\ WritesAreLocked(Idle, H)
  BY DEF Idle, StagesFit, ValueIsThere, WritesAreLocked
<1> QED
  BY <1>1, <1>2 DEF TxFits

(* A call begins, or executes a statement for which no other call holds the    *)
(* row.                                                                        *)
LEMMA TxStep ==
    ASSUME LedgerInv, NEW c \in Callers, NEW t, NEW L,
           \A d \in Callers \ {c} : L \cap held[d] = {},
           TxFits(t, held[c] \cup L, facts, values, applied),
           tx' = [tx EXCEPT ![c] = t], DOMAIN held' = Callers,
           held'[c] = held[c] \cup L, \A d \in Callers \ {c} : held'[d] = held[d],
           UNCHANGED <<entities, facts, values, applied>>
    PROVE  LedgerInv'
<1>1. RowsFit'
  BY DEF LedgerInv, RowsFit
<1>2. \A n \in Names : SeesFits(Idle, facts, values, applied, n)'
  BY DEF LedgerInv
<1>3. ASSUME NEW d \in Callers
      PROVE  TxFits(tx'[d], held'[d], facts', values', applied')
  BY DEF LedgerInv, RowsFit
<1> QED
  BY <1>1, <1>2, <1>3 DEF LedgerInv

LEMMA BeginStep ==
    ASSUME LedgerInv, NEW c \in Callers, NEW t, Begin(c, t),
           t \in Tx, StagesFit(t, held[c], applied), ValueIsThere(t, values),
           t.facts = {}, t.values = {}, t.stage # "replace", ~Claimed(t)
    PROVE  LedgerInv'
<1>1. \A n \in Names : SeesFits(t, facts, values, applied, n)
  BY NothingWritten DEF LedgerInv, Pending, ListedNos
<1>2. TxFits(t, held[c], facts, values, applied)
  BY <1>1 DEF TxFits, WritesAreLocked
<1>3. held[c] \cup {} = held[c]
  OBVIOUS
<1> QED
  BY <1>2, <1>3, TxStep DEF Begin, LedgerInv, RowsFit

LEMMA AdvanceStep ==
    ASSUME LedgerInv, NEW c \in Callers, NEW t, Advance(c, t), Granted(c),
           TxFits(t, held[c] \cup Wanted(c), facts, values, applied)
    PROVE  LedgerInv'
BY TxStep DEF Advance, Granted, LedgerInv, RowsFit

LEMMA RollbackStep ==
    ASSUME LedgerInv, NEW c \in Callers, Rollback(c)
    PROVE  LedgerInv'
<1>1. RowsFit'
  BY DEF LedgerInv, RowsFit, Rollback
<1>2. \A n \in Names : SeesFits(Idle, facts, values, applied, n)'
  BY DEF LedgerInv, Rollback
<1>3. ASSUME NEW d \in Callers
      PROVE  TxFits(tx'[d], held'[d], facts', values', applied')
  BY IdleFits DEF LedgerInv, RowsFit, Rollback
<1> QED
  BY <1>1, <1>2, <1>3 DEF LedgerInv

(* A commit publishes what the call sees; every other call is as it was.       *)
LEMMA PublishStep ==
    ASSUME LedgerInv, NEW d \in Callers, Publish(d), UNCHANGED entities, tx[d].stage # "replace",
           DOMAIN applied' = Runs,
           \A r \in Runs : applied'[r] # None => applied'[r] \in Seq(Item),
           \A r \in Runs, n \in Names : CommittedNos(applied', r, n) = ListedNos(tx[d], applied, r, n),
           \A c \in Callers \ {d} : Claimed(tx[c]) => applied'[tx[c].run] = None
    PROVE  LedgerInv'
<1> DEFINE t == tx[d]
<1>1. facts' = FactsOver(facts, t.facts) /\ values' = ValuesOver(values, t.values)
  BY DEF Publish, SeenFacts, SeenValues, FactsOver, ValuesOver
<1>2. TxFits(t, held[d], facts, values, applied)
  BY DEF LedgerInv
<1>3. RowsFit'
  <2>1. facts' \subseteq Fact /\ values' \subseteq Value
    BY <1>1, <1>2 DEF LedgerInv, RowsFit, TxFits, Tx, FactsOver, ValuesOver
  <2> QED
    BY <2>1 DEF LedgerInv, RowsFit, Publish
<1>4. ASSUME NEW n \in Names
      PROVE  SeesFits(Idle, facts', values', applied', n)
  BY <1>1, <1>2, SeenIsCommitted DEF TxFits, Pending
<1>5. ASSUME NEW c \in Callers, c # d
      PROVE  TxFits(tx[c], held[c], facts', values', applied')
  <2> DEFINE u == tx[c]
  <2>1. TxFits(u, held[c], facts, values, applied) /\ held[c] \cap held[d] = {}
    BY <1>5 DEF LedgerInv, RowsFit
  <2>2. StagesFit(u, held[c], applied')
    BY <1>5, <2>1 DEF TxFits, StagesFit, Claimed
  <2>3. ValueIsThere(u, values')
    <3>1. SUFFICES ASSUME u.op \in {"accept", "reject"}
                   PROVE  \E v \in values' : v.fact = u.name /\ v.no = u.no
      BY DEF ValueIsThere
    <3>2. u.name \in Names
      BY <2>1, <3>1 DEF TxFits, StagesFit
    <3>3. SeesFits(t, facts, values, applied, u.name)
      BY <1>2, <3>2 DEF TxFits
    <3>4. PICK v \in values : v.fact = u.name /\ v.no = u.no
      BY <2>1, <3>1 DEF TxFits, ValueIsThere
    <3>5. v \in ValuesOf(values, u.name)
      BY <3>4 DEF ValuesOf
    <3>6. PICK w \in ValuesSeen(t, values, u.name) : Follows(w, v)
      BY <3>3, <3>5 DEF SeesFits, Later
    <3> QED
      BY <1>1, <3>4, <3>6 DEF ValuesSeen, ValuesOf, Follows
  <2>4. ASSUME NEW n \in Names
        PROVE  SeesFits(u, facts', values', applied', n)
    <3>1. /\ SeesFits(u, facts, values, applied, n) /\ SeesFits(t, facts, values, applied, n)
          /\ SeesFits(Idle, facts, values, applied, n)
      BY <1>2, <2>1 DEF TxFits, LedgerInv
    <3>2. CASE <<"fact", n>> \in held[c]
      <4>1. (\A f \in t.facts : f.name # n) /\ \A v \in t.values : v.fact # n
        BY <1>2, <2>1, <3>2 DEF TxFits, WritesAreLocked
      <4>2. \A r \in Runs : CommittedNos(applied', r, n) = ListedNos(t, applied, r, n)
        OBVIOUS
      <4> HIDE DEF t, u
      <4> QED
        BY <1>1, <3>1, <4>1, <4>2, CommitElsewhere
    <3>3. CASE <<"fact", n>> \notin held[c]
      <4>1. (\A f \in u.facts : f.name # n) /\ \A v \in u.values : v.fact # n
        BY <2>1, <3>3 DEF TxFits, WritesAreLocked
      <4>2. Pending(u, n) = 0
        BY <2>1, <3>3 DEF TxFits, StagesFit, Pending
      <4>3. Claimed(u) => u.run \in Runs /\ applied[u.run] = None /\ applied'[u.run] = None
        BY <1>5, <2>1 DEF TxFits, StagesFit, Claimed
      <4>4. SeesFits(Idle, facts', values', applied', n)
        BY <1>4
      <4> HIDE DEF t, u
      <4> QED
        BY <3>1, <4>1, <4>2, <4>3, <4>4, SeesCommit
    <3> QED
      BY <3>2, <3>3
  <2> QED
    BY <2>1, <2>2, <2>3, <2>4 DEF TxFits
<1>6. ASSUME NEW c \in Callers
      PROVE  TxFits(tx'[c], held'[c], facts', values', applied')
  <2>1. CASE c = d
    BY <2>1, <1>4, IdleFits DEF LedgerInv, RowsFit, Publish
  <2>2. CASE c # d
    BY <2>2, <1>5 DEF LedgerInv, RowsFit, Publish
  <2> QED
    BY <2>1, <2>2
<1> QED
  BY <1>3, <1>4, <1>6 DEF LedgerInv

-----------------------------------------------------------------------------
(* The writes of a call, as the call sees them.                                *)

LEMMA FactWritten ==
    ASSUME NEW t, NEW u, NEW F, NEW m, NEW G, G # {}, \A g \in G : g.name = m,
           u.facts = FactsOver(t.facts, G)
    PROVE  FactSeen(u, F, m) = G
<1>1. FactSeen(u, F, m) = FactsOf(FactsOver(FactsOver(F, t.facts), G), m)
  BY FactsOverTwice DEF FactSeen
<1> QED
  BY <1>1 DEF FactsOver, FactsOf

(* A call writes rows of one name: of the others it sees what it saw.          *)
LEMMA OtherNames ==
    ASSUME NEW t, NEW u, NEW F, NEW V, NEW A, \A n \in Names : SeesFits(t, F, V, A, n),
           NEW m, NEW G, NEW N, u.facts = FactsOver(t.facts, G), u.values = ValuesOver(t.values, N),
           \A f \in G : f.name = m, \A v \in N : v.fact = m,
           \A n \in Names \ {m} : Pending(u, n) = Pending(t, n),
           \A n \in Names \ {m}, r \in Runs : ListedNos(u, A, r, n) = ListedNos(t, A, r, n),
           SeesFits(u, F, V, A, m)
    PROVE  \A n \in Names : SeesFits(u, F, V, A, n)
<1>1. SUFFICES ASSUME NEW n \in Names, n # m PROVE SeesFits(u, F, V, A, n)
  OBVIOUS
<1> QED
  BY <1>1, OtherName

LEMMA AppendSeen ==
    ASSUME NEW t, NEW u, NEW F, NEW V, NEW A, NEW m, SeesFits(t, F, V, A, m),
           NEW f \in Fact, f.name = m,
           NEW v \in Value, v.fact = m, v.status \in {"proposed", "accepted"},
           NEW G, f \in G, \A x \in G : x = f, u.facts = FactsOver(t.facts, G),
           NEW N, v \in N, \A x \in N : x = v, u.values = ValuesOver(t.values, N),
           FactSeen(t, F, m) \subseteq Fact, ValuesSeen(t, V, m) \subseteq Value,
           \A g \in FactSeen(t, F, m) : f.current = g.current /\ (g.bound => f.bound),
           FactSeen(t, F, m) = {} => f.current = 0,
           NEW k \in Nat, {w.no : w \in ValuesSeen(t, V, m)} = 1..k, v.no = k + 1,
           Pending(t, m) = 0,
           Pending(u, m) = IF v.status = "accepted" THEN v.no ELSE 0,
           \A r \in Runs :
              ListedNos(u, A, r, m) = ListedNos(t, A, r, m)
                                         \cup (IF r = v.run THEN {v.no} ELSE {})
    PROVE  SeesFits(u, F, V, A, m)
<1> DEFINE VV == ValuesSeen(t, V, m)
           FF == FactSeen(t, F, m)
           p == Pending(u, m)
<1>1. SeesFits(t, F, V, A, m) /\ Pending(t, m) = 0
  OBVIOUS
<1>20. G # {} /\ (\A g \in G : g.name = m) /\ u.facts = FactsOver(t.facts, G)
  OBVIOUS
<1>21. FactSeen(u, F, m) = G
  BY <1>20, FactWritten
<1>2. p = IF v.status = "accepted" THEN v.no ELSE 0
  OBVIOUS
<1>3. Ordered(FF, VV, 0)
  BY <1>1 DEF SeesFits
<1>4. \A w \in VV : w.no \in 1..k
  OBVIOUS
<1>5. VV \cup {v} = {w \in VV : \A x \in {v} : x.no # w.no} \cup {v}
  BY <1>4
<1>6. StaysBound(FF, {f})
  BY DEF StaysBound
<1>7. ASSUME NEW r \in Runs
      PROVE  NosOf(VV \cup {v}, r) = ListedNos(u, A, r, m)
  <2>1. NosOf(VV, r) = ListedNos(t, A, r, m)
    BY <1>1 DEF SeesFits
  <2>2. NosOf(VV \cup {v}, r) = NosOf(VV, r) \cup (IF r = v.run THEN {v.no} ELSE {})
    BY DEF NosOf
  <2>3. ListedNos(u, A, r, m) = ListedNos(t, A, r, m) \cup (IF r = v.run THEN {v.no} ELSE {})
    OBVIOUS
  <2>4. CASE r = v.run
    BY <2>1, <2>2, <2>3, <2>4
  <2>5. CASE r # v.run
    BY <2>1, <2>2, <2>3, <2>5
  <2> QED
    BY <2>4, <2>5
<1> HIDE DEF VV, FF, p
<1>8. Ordered({f}, VV \cup {v}, p)
  BY <1>2, <1>3, OrderedAppend DEF VV, FF
<1>9. \A w \in VV, x \in {v} : x.no = w.no => Follows(x, w)
  BY <1>4
<1> DEFINE WW == VV \cup N
<1>10. /\ u.values = ValuesOver(t.values, N) /\ \A w \in N : w.fact = m
       /\ \A w \in VV, x \in N : x.no = w.no => Follows(x, w)
       /\ WW = {w \in VV : \A x \in N : x.no # w.no} \cup N
       /\ Ordered(G, WW, p) /\ StaysBound(FF, G)
       /\ \A r \in Runs : NosOf(WW, r) = ListedNos(u, A, r, m)
  <2>1. G = {f} /\ N = {v}
    OBVIOUS
  <2> QED
    BY <1>5, <1>6, <1>7, <1>8, <1>9, <2>1
<1> HIDE DEF WW
<1> QED
  BY <1>1, <1>10, <1>21, OwnName DEF VV, FF, p

(* What the run already proposed is not appended again.                        *)
LEMMA RepeatSeen ==
    ASSUME NEW t, NEW u, NEW F, NEW V, NEW A, NEW m, SeesFits(t, F, V, A, m),
           NEW f, f.name = m,
           NEW w \in ValuesSeen(t, V, m), w.run \in Runs,
           NEW G, f \in G, \A x \in G : x = f, u.facts = FactsOver(t.facts, G), u.values = t.values,
           \A g \in FactSeen(t, F, m) : f.current = g.current /\ (g.bound => f.bound),
           Pending(t, m) = 0, Pending(u, m) = 0,
           \A r \in Runs :
              ListedNos(u, A, r, m) = ListedNos(t, A, r, m)
                                         \cup (IF r = w.run THEN {w.no} ELSE {})
    PROVE  SeesFits(u, F, V, A, m)
<1>8. u.values = ValuesOver(t.values, {})
  BY OverNothing
<1> DEFINE VV == ValuesSeen(t, V, m)
           FF == FactSeen(t, F, m)
<1>1. SeesFits(t, F, V, A, m) /\ Pending(t, m) = 0
  OBVIOUS
<1>20. G # {} /\ (\A g \in G : g.name = m) /\ u.facts = FactsOver(t.facts, G)
  OBVIOUS
<1>21. FactSeen(u, F, m) = G
  BY <1>20, FactWritten
<1>2. Ordered(FF, VV, 0)
  BY <1>1 DEF SeesFits
<1>3. PICK g \in FF : TRUE
  BY <1>2 DEF Ordered
<1>4. Ordered({f}, VV, 0)
  BY <1>2, <1>3, OrderedRebind
<1>6. StaysBound(FF, {f})
  BY DEF StaysBound
<1>7. ASSUME NEW r \in Runs
      PROVE  NosOf(VV, r) = ListedNos(u, A, r, m)
  BY <1>1 DEF SeesFits, NosOf
<1> DEFINE N == {}
<1>9. /\ u.values = ValuesOver(t.values, N) /\ \A x \in N : x.fact = m
      /\ \A v \in VV, x \in N : x.no = v.no => Follows(x, v)
      /\ VV = {v \in VV : \A x \in N : x.no # v.no} \cup N
      /\ Ordered(G, VV, 0) /\ StaysBound(FF, G) /\ Pending(u, m) = 0
  BY <1>8, <1>4, <1>6
<1> HIDE DEF VV, FF, N
<1> QED
  BY <1>1, <1>7, <1>9, <1>21, OwnName DEF VV, FF

LEMMA DecideSeen ==
    ASSUME NEW t, NEW u, NEW F, NEW V, NEW A, NEW m, SeesFits(t, F, V, A, m),
           FactSeen(t, F, m) \subseteq Fact, ValuesSeen(t, V, m) \subseteq Value,
           NEW v \in ValuesSeen(t, V, m), v.status = "proposed",
           NEW d \in Value, d.status \in {"accepted", "rejected"},
           d.fact = m, d.no = v.no, d.run = v.run, d.hash = v.hash,
           u.facts = t.facts, NEW N, d \in N, \A x \in N : x = d, u.values = ValuesOver(t.values, N),
           Pending(t, m) = 0,
           Pending(u, m) = IF d.status = "accepted" THEN v.no ELSE 0,
           \A r \in Runs : ListedNos(u, A, r, m) = ListedNos(t, A, r, m)
    PROVE  SeesFits(u, F, V, A, m)
<1> DEFINE VV == ValuesSeen(t, V, m)
           FF == FactSeen(t, F, m)
           p == Pending(u, m)
           WW == {w \in VV : d.no # w.no} \cup {d}
<1>1. SeesFits(t, F, V, A, m) /\ Pending(t, m) = 0 /\ FactSeen(u, F, m) = FF
  BY DEF FactSeen
<1>2. p = IF d.status = "accepted" THEN v.no ELSE 0
  OBVIOUS
<1>3. Ordered(FF, VV, 0)
  BY <1>1 DEF SeesFits
<1>4. WW = {w \in VV : \A x \in {d} : x.no # w.no} \cup {d}
  OBVIOUS
<1>5. StaysBound(FF, FF)
  BY DEF StaysBound
<1>6. ASSUME NEW w \in VV, w.no = d.no
      PROVE  w = v
  BY <1>3, <1>6 DEF Ordered
<1>7. ASSUME NEW r \in Runs
      PROVE  NosOf(WW, r) = ListedNos(u, A, r, m)
  <2>1. NosOf(VV, r) = ListedNos(t, A, r, m)
    BY <1>1 DEF SeesFits
  <2>2. NosOf(WW, r) = NosOf(VV, r)
    <3>1. \A x : x \in NosOf(WW, r) => x \in NosOf(VV, r)
      BY DEF NosOf
    <3>2. ASSUME NEW w \in VV, w.run = r
          PROVE  \E x \in WW : x.run = r /\ x.no = w.no
      BY <1>6, <3>2
    <3>3. \A x : x \in NosOf(VV, r) => x \in NosOf(WW, r)
      <4> HIDE DEF WW, VV
      <4> QED
        BY <3>2 DEF NosOf
    <3> HIDE DEF WW, VV
    <3> QED
      BY <3>1, <3>3
  <2> QED
    BY <2>1, <2>2
<1>8. \A w \in VV, x \in {d} : x.no = w.no => Follows(x, w)
  BY <1>6 DEF Follows
<1>9. Ordered(FF, WW, p)
  <2> HIDE DEF VV, FF, p
  <2> QED
    BY <1>2, <1>3, OrderedDecide DEF VV, FF
<1>10. /\ u.values = ValuesOver(t.values, N) /\ \A x \in N : x.fact = m
       /\ \A w \in VV, x \in N : x.no = w.no => Follows(x, w)
       /\ WW = {w \in VV : \A x \in N : x.no # w.no} \cup N
  <2>1. N = {d}
    OBVIOUS
  <2> QED
    BY <1>4, <1>8, <2>1
<1> HIDE DEF VV, FF, p, WW
<1> QED
  BY <1>1, <1>5, <1>7, <1>9, <1>10, OwnName DEF VV, FF, p

LEMMA Superseded ==
    ASSUME NEW VV \in SUBSET Value, NEW k, \A v, w \in VV : v.no = w.no => v = w,
           NEW N, N = {[v EXCEPT !.status = "superseded"] : v \in {w \in VV : w.no = k}}
    PROVE  Supersedes(N, VV, k) /\ N \subseteq Value
<1>1. ASSUME NEW v \in VV, NEW w, w = [v EXCEPT !.status = "superseded"]
      PROVE  /\ w \in Value /\ w.no = v.no /\ w.fact = v.fact
             /\ w.run = v.run /\ w.hash = v.hash /\ w.status = "superseded"
  BY <1>1 DEF Value
<1>2. ASSUME NEW w \in N
      PROVE  \E v \in VV : v.no = k /\ w = [v EXCEPT !.status = "superseded"]
  OBVIOUS
<1>3. ASSUME NEW v \in VV, v.no = k
      PROVE  \E w \in N : w.no = v.no
  <2> DEFINE w == [v EXCEPT !.status = "superseded"]
  <2>1. w \in N
    BY <1>3
  <2> QED
    BY <2>1, <1>1
<1> QED
  BY <1>1, <1>2, <1>3 DEF Supersedes

LEMMA ReplaceSeen ==
    ASSUME NEW t, NEW u, NEW F, NEW V, NEW A, NEW m, SeesFits(t, F, V, A, m),
           NEW g \in FactSeen(t, F, m), NEW f, f.name = m, f.bound = g.bound,
           NEW N, Supersedes(N, ValuesSeen(t, V, m), g.current),
           NEW G, f \in G, \A x \in G : x = f, u.facts = FactsOver(t.facts, G),
           u.values = ValuesOver(t.values, N),
           f.current = Pending(t, m), f.current \in Nat \ {0},
           Pending(u, m) = 0,
           \A r \in Runs : ListedNos(u, A, r, m) = ListedNos(t, A, r, m)
    PROVE  SeesFits(u, F, V, A, m)
<1> DEFINE VV == ValuesSeen(t, V, m)
           FF == FactSeen(t, F, m)
           WW == {v \in VV : \A w \in N : w.no # v.no} \cup N
<1>8. \A v \in VV : v.fact = m
  BY DEF ValuesSeen, ValuesOf
<1>9. ASSUME NEW w \in N
      PROVE  \E v \in VV : /\ v.no = g.current /\ w.no = v.no /\ w.fact = m
                           /\ w.run = v.run /\ w.hash = v.hash /\ w.status = "superseded"
  BY <1>8 DEF Supersedes
<1>1. SeesFits(t, F, V, A, m) /\ Pending(u, m) = 0
  OBVIOUS
<1>20. G # {} /\ (\A x \in G : x.name = m) /\ u.facts = FactsOver(t.facts, G)
  OBVIOUS
<1>21. FactSeen(u, F, m) = G
  BY <1>20, FactWritten
<1>2. Ordered(FF, VV, f.current)
  BY <1>1 DEF SeesFits
<1>3. Ordered(G, WW, 0)
  <2> DEFINE q == f.current
  <2>1. q \in Nat \ {0} /\ Ordered(FF, VV, q) /\ f.current = q
    BY <1>2
  <2>5. G # {} /\ (\A x \in G : x.current = q) /\ \A x, y \in G : x = y
    OBVIOUS
  <2> HIDE DEF q, VV, FF
  <2>2. g \in FF
    BY DEF FF
  <2>3. Supersedes(N, VV, g.current)
    BY DEF VV
  <2>6. WW = {v \in VV : \A w \in N : w.no # v.no} \cup N
    OBVIOUS
  <2> HIDE DEF WW
  <2> QED
    BY <2>1, <2>2, <2>3, <2>5, <2>6, OrderedReplace
<1>4. StaysBound(FF, G)
  BY <1>2 DEF StaysBound, Ordered
<1>5. g.current # f.current
  BY <1>2 DEF Ordered
<1>6. ASSUME NEW v \in VV, NEW w \in N, w.no = v.no
      PROVE  v.status = "accepted" /\ Follows(w, v)
  BY <1>9, <1>2, <1>6 DEF Ordered, Follows
<1>7. ASSUME NEW r \in Runs
      PROVE  NosOf(WW, r) = ListedNos(u, A, r, m)
  <2>1. NosOf(VV, r) = ListedNos(t, A, r, m)
    BY <1>1 DEF SeesFits
  <2>2. ASSUME NEW w \in WW
        PROVE  \E v \in VV : v.run = w.run /\ v.no = w.no
    BY <1>9
  <2>3. ASSUME NEW v \in VV
        PROVE  \E w \in WW : v.run = w.run /\ v.no = w.no
    BY <1>6 DEF Follows
  <2>4. NosOf(WW, r) = NosOf(VV, r)
    <3> HIDE DEF WW, VV
    <3>1. \A x : x \in NosOf(WW, r) <=> x \in NosOf(VV, r)
      BY <2>2, <2>3 DEF NosOf
    <3> QED
      BY <3>1 DEF NosOf
  <2> QED
    BY <2>1, <2>4
<1>10. (\A w \in N : w.fact = m) /\ \A v \in VV, w \in N : w.no = v.no => Follows(w, v)
  BY <1>9, <1>6
<1>11. WW = {v \in ValuesSeen(t, V, m) : \A w \in N : w.no # v.no} \cup N
  OBVIOUS
<1>12. Ordered(G, WW, 0) /\ StaysBound(FF, G)
  BY <1>3, <1>4
<1>13. \A r \in Runs : NosOf(WW, r) = ListedNos(u, A, r, m)
  BY <1>7
<1> HIDE DEF WW
<1>14. Ordered(FactSeen(u, F, m), WW, Pending(u, m)) /\ StaysBound(FactSeen(t, F, m), FactSeen(u, F, m))
  BY <1>1, <1>12, <1>21
<1>15. \A v \in ValuesSeen(t, V, m), w \in N : w.no = v.no => Follows(w, v)
  BY <1>10
<1> QED
  BY <1>1, <1>10, <1>11, <1>13, <1>14, <1>15, OwnName

-----------------------------------------------------------------------------
(* The statements of the calls.                                                *)

(* The fact a call names is the one it sees, or a new one.                     *)
LEMMA NamedFact ==
    ASSUME LedgerInv, NEW c \in Callers, NEW m \in Names
    PROVE  /\ FactSeen(tx[c], facts, m) \subseteq Fact
           /\ ValuesSeen(tx[c], values, m) \subseteq Value
           /\ FactNamed(c, m) \in Fact /\ FactNamed(c, m).name = m
           /\ \A g \in FactSeen(tx[c], facts, m) : g = FactNamed(c, m)
           /\ FactSeen(tx[c], facts, m) = {} => FactNamed(c, m).current = 0
<1> DEFINE FF == FactSeen(tx[c], facts, m)
<1>1. tx[c] \in Tx /\ SeesFits(tx[c], facts, values, applied, m)
  BY DEF LedgerInv, TxFits
<1>2. SeenFacts(c) = FactsOver(facts, tx[c].facts) /\ SeenValues(c) = ValuesOver(values, tx[c].values)
  BY DEF SeenFacts, SeenValues, FactsOver, ValuesOver
<1>3. SeenFacts(c) \subseteq Fact /\ SeenValues(c) \subseteq Value
  BY <1>1 DEF LedgerInv, RowsFit, Tx, SeenFacts, SeenValues
<1>4. FF = {f \in SeenFacts(c) : f.name = m} /\ ValuesSeen(tx[c], values, m) \subseteq SeenValues(c)
  BY <1>2 DEF FactSeen, FactsOf, ValuesSeen, ValuesOf
<1>5. \A g, h \in FF : g = h
  BY <1>1 DEF SeesFits, Ordered
<1>6. CASE \E f \in SeenFacts(c) : f.name = m
  <2>1. FactNamed(c, m) \in SeenFacts(c) /\ FactNamed(c, m).name = m
    BY <1>6 DEF FactNamed
  <2> QED
    BY <2>1, <1>3, <1>4, <1>5
<1>7. CASE ~\E f \in SeenFacts(c) : f.name = m
  BY <1>7, <1>3, <1>4 DEF FactNamed, Fact
<1> QED
  BY <1>6, <1>7

LEMMA NextNumber ==
    ASSUME LedgerInv, NEW c \in Callers, NEW m \in Names
    PROVE  \E k \in Nat : /\ {v.no : v \in ValuesSeen(tx[c], values, m)} = 1..k
                          /\ NextNo(c, m) = k + 1
<1>1. SeesFits(tx[c], facts, values, applied, m)
  BY DEF LedgerInv, TxFits
<1>2. PICK k \in Nat : {v.no : v \in ValuesSeen(tx[c], values, m)} = 1..k
  BY <1>1 DEF SeesFits, Ordered
<1>3. {v.no : v \in {w \in SeenValues(c) : w.fact = m}} = 1..k
  BY <1>2 DEF ValuesSeen, ValuesOf, ValuesOver, SeenValues
<1>4. NextNo(c, m) = 1 + k
  BY <1>3, HighestNo DEF NextNo
<1> QED
  BY <1>2, <1>4

(* A statement that writes rows of one name, whose fact the call has locked.   *)
LEMMA Wrote ==
    ASSUME LedgerInv, NEW c \in Callers, NEW u \in Tx, NEW m \in Names, NEW G, NEW N, NEW H,
           u.facts = FactsOver(tx[c].facts, G), u.values = ValuesOver(tx[c].values, N),
           \A f \in G : f.name = m, \A v \in N : v.fact = m,
           held[c] \subseteq H, <<"fact", m>> \in H,
           StagesFit(u, H, applied), ValueIsThere(u, values),
           \A n \in Names \ {m} : Pending(u, n) = Pending(tx[c], n),
           \A n \in Names \ {m}, r \in Runs : ListedNos(u, applied, r, n) = ListedNos(tx[c], applied, r, n),
           SeesFits(u, facts, values, applied, m)
    PROVE  TxFits(u, H, facts, values, applied)
<1>1. TxFits(tx[c], held[c], facts, values, applied)
  BY DEF LedgerInv
<1>2. \A n \in Names : SeesFits(tx[c], facts, values, applied, n)
  BY <1>1 DEF TxFits
<1>3. \A n \in Names : SeesFits(u, facts, values, applied, n)
  BY <1>2, OtherNames
<1>4. WritesAreLocked(u, H)
  BY <1>1 DEF TxFits, WritesAreLocked, FactsOver, ValuesOver
<1> QED
  BY <1>3, <1>4 DEF TxFits

LEMMA ClaimStep ==
    ASSUME LedgerInv, NEW c \in Callers, ClaimApplication(c)
    PROVE  LedgerInv'
<1> DEFINE t == tx[c]
           u == [t EXCEPT !.stage = "resolve"]
<1>1. t \in Tx /\ StagesFit(t, held[c], applied) /\ t.stage = "claim"
  BY DEF LedgerInv, TxFits, ClaimApplication
<1>2. t.op = "persist"
  BY <1>1 DEF StagesFit, Tx, Idle
<1>3. CASE applied[t.run] # None
  BY <1>3, RollbackStep DEF ClaimApplication
<1>4. CASE applied[t.run] = None
  <2>1. /\ u \in Tx /\ u.op = "persist" /\ u.stage = "resolve" /\ u.run = t.run /\ u.items = <<>>
        /\ u.facts = {} /\ u.values = {} /\ t.run \in Runs
    BY <1>1, <1>2 DEF Tx, StagesFit
  <2>2. Wanted(c) = {<<"application", t.run>>}
    BY <1>1 DEF Wanted
  <2>3. Advance(c, u) /\ Granted(c)
    BY <1>4 DEF ClaimApplication
  <2> HIDE DEF u
  <2>4. StagesFit(u, held[c] \cup Wanted(c), applied)
    BY <1>4, <2>1, <2>2 DEF StagesFit
  <2>5. ASSUME NEW n \in Names
        PROVE  SeesFits(u, facts, values, applied, n)
    <3>1. \A r \in Runs : ListedNos(u, applied, r, n) = CommittedNos(applied, r, n)
      BY <1>4, <2>1, ListedNothing DEF ListedNos, CommittedNos
    <3>2. Pending(u, n) = 0
      BY <2>1 DEF Pending
    <3> QED
      BY <2>1, <3>1, <3>2, NothingWritten DEF LedgerInv
  <2>6. TxFits(u, held[c] \cup Wanted(c), facts, values, applied)
    BY <2>1, <2>4, <2>5 DEF TxFits, ValueIsThere, WritesAreLocked
  <2> QED
    BY <2>3, <2>6, AdvanceStep
<1> QED
  BY <1>3, <1>4

(* The subject is resolved, or withheld: nothing is written.                   *)
LEMMA ResolvedFits ==
    ASSUME LedgerInv, NEW c \in Callers, tx[c].stage = "resolve", Wanted(c) = {},
           NEW u \in Tx, u.op = tx[c].op, u.run = tx[c].run, u.stage \in {"resolve", "fact"},
           u.stage = "fact" => u.name \in Names /\ u.todo # <<>>,
           u.facts = tx[c].facts, u.values = tx[c].values,
           \A n \in Names : ItemNos(u.items, n) = ItemNos(tx[c].items, n)
    PROVE  TxFits(u, held[c] \cup Wanted(c), facts, values, applied)
<1>1. TxFits(tx[c], held[c], facts, values, applied)
  BY DEF LedgerInv
<1>2. tx[c].op = "persist"
  BY <1>1 DEF TxFits, StagesFit, Tx, Idle
<1>3. StagesFit(u, held[c] \cup Wanted(c), applied)
  BY <1>1, <1>2 DEF StagesFit, TxFits
<1>4. ASSUME NEW n \in Names
      PROVE  SeesFits(u, facts, values, applied, n)
  <2>1. SeesFits(tx[c], facts, values, applied, n)
    BY <1>1 DEF TxFits
  <2>2. Pending(u, n) = Pending(tx[c], n)
    BY DEF Pending
  <2>3. \A r \in Runs : ListedNos(u, applied, r, n) = ListedNos(tx[c], applied, r, n)
    BY <1>2 DEF ListedNos, Claimed
  <2> QED
    BY <2>1, <2>2, <2>3 DEF SeesFits, FactSeen, ValuesSeen
<1> QED
  BY <1>1, <1>2, <1>3, <1>4 DEF TxFits, ValueIsThere, WritesAreLocked

LEMMA ResolveStep ==
    ASSUME LedgerInv, NEW c \in Callers, ResolveNext(c)
    PROVE  LedgerInv'
<1> DEFINE t == tx[c]
           m == Head(t.todo).mention
<1>1. /\ t \in Tx /\ t.stage = "resolve" /\ t.todo # <<>> /\ t.todo \in Seq(Proposal)
      /\ t.items \in Seq(Item)
  BY DEF LedgerInv, TxFits, ResolveNext, Tx
<1>2. Head(t.todo) \in Proposal /\ Tail(t.todo) \in Seq(Proposal)
  BY <1>1
<1>3. m \in Names
  BY <1>2 DEF Proposal
<1>4. Wanted(c) = {} /\ Granted(c)
  BY <1>1 DEF Wanted, Granted
<1>5. CASE Cardinality(Candidates(m)) > 1
  <2> DEFINE i == WithheldItem(m)
             u == [t EXCEPT !.todo = Tail(@), !.items = Append(@, i)]
  <2>1. i \in Item /\ i.outcome = "withheld"
    BY <1>3 DEF WithheldItem, Item
  <2>2. Append(t.items, i) \in Seq(Item)
    BY <1>1, <2>1
  <2>3. /\ u \in Tx /\ u.op = t.op /\ u.run = t.run /\ u.stage = "resolve"
        /\ u.facts = t.facts /\ u.values = t.values /\ u.items = Append(t.items, i)
    BY <1>1, <1>2, <2>2 DEF Tx
  <2>4. ASSUME NEW n \in Names
        PROVE  ItemNos(u.items, n) = ItemNos(t.items, n)
    <3> HIDE DEF i, u, t
    <3>1. ItemNos(Append(t.items, i), n) =
             ItemNos(t.items, n) \cup (IF i.outcome # "withheld" /\ i.fact = n THEN {i.no} ELSE {})
      BY <1>1, <2>1, ListedItem
    <3> QED
      BY <2>1, <2>3, <3>1
  <2>5. Advance(c, u)
    BY <1>5 DEF ResolveNext
  <2> HIDE DEF u
  <2>6. TxFits(u, held[c] \cup Wanted(c), facts, values, applied)
    BY <1>1, <1>4, <2>3, <2>4, ResolvedFits
  <2> QED
    BY <1>4, <2>5, <2>6, AdvanceStep
<1>6. CASE ~(Cardinality(Candidates(m)) > 1)
  <2>1. PICK n \in IF Candidates(m) = {} THEN {m} ELSE Candidates(m) :
           Advance(c, [t EXCEPT !.stage = "fact", !.name = n, !.bound = Candidates(m) # {}])
    BY <1>6 DEF ResolveNext
  <2>2. n \in Names
    BY <1>3 DEF Candidates, LedgerInv, RowsFit
  <2> DEFINE u == [t EXCEPT !.stage = "fact", !.name = n, !.bound = Candidates(m) # {}]
  <2>3. /\ u \in Tx /\ u.op = t.op /\ u.run = t.run /\ u.stage = "fact" /\ u.name = n
        /\ u.facts = t.facts /\ u.values = t.values /\ u.items = t.items /\ u.todo = t.todo
    BY <1>1, <2>2 DEF Tx
  <2>4. Advance(c, u)
    BY <2>1
  <2> HIDE DEF u
  <2>5. TxFits(u, held[c] \cup Wanted(c), facts, values, applied)
    BY <1>1, <1>4, <2>2, <2>3, ResolvedFits
  <2> QED
    BY <1>4, <2>4, <2>5, AdvanceStep
<1> QED
  BY <1>5, <1>6

(* A proposal is entered: its fact, perhaps a value, and what is listed of it. *)
LEMMA ProposedFits ==
    ASSUME LedgerInv, NEW c \in Callers, tx[c].op = "persist", tx[c].stage = "fact",
           NEW i \in Item, i.outcome # "withheld", i.fact = tx[c].name,
           NEW u \in Tx, u.op = "persist", u.stage = "resolve", u.run = tx[c].run,
           u.items = Append(tx[c].items, i),
           NEW G, NEW N, u.facts = FactsOver(tx[c].facts, G), u.values = ValuesOver(tx[c].values, N),
           \A f \in G : f.name = tx[c].name, \A v \in N : v.fact = tx[c].name,
           (\A r \in Runs : ListedNos(u, applied, r, tx[c].name) =
               ListedNos(tx[c], applied, r, tx[c].name) \cup (IF r = tx[c].run THEN {i.no} ELSE {}))
           => SeesFits(u, facts, values, applied, tx[c].name)
    PROVE  TxFits(u, held[c] \cup Wanted(c), facts, values, applied)
<1> DEFINE t == tx[c]
           m == t.name
<1>1. t \in Tx /\ StagesFit(t, held[c], applied) /\ m \in Names /\ t.items \in Seq(Item)
  BY DEF LedgerInv, TxFits, StagesFit, Tx
<1>2. Wanted(c) = {<<"fact", m>>}
  BY DEF Wanted
<1>3. StagesFit(u, held[c] \cup Wanted(c), applied) /\ ValueIsThere(u, values)
  BY <1>1 DEF StagesFit, ValueIsThere
<1>4. \A n \in Names : Pending(u, n) = Pending(t, n)
  BY DEF Pending
<1>5. Claimed(t) /\ Claimed(u)
  BY DEF Claimed
<1>6. ASSUME NEW n \in Names
      PROVE  ItemNos(u.items, n) = ItemNos(t.items, n) \cup (IF n = m THEN {i.no} ELSE {})
  <2>1. ItemNos(Append(t.items, i), n) =
           ItemNos(t.items, n) \cup (IF i.outcome # "withheld" /\ i.fact = n THEN {i.no} ELSE {})
    BY <1>1, ListedItem
  <2> QED
    BY <2>1
<1>7. ASSUME NEW n \in Names \ {m}, NEW r \in Runs
      PROVE  ListedNos(u, applied, r, n) = ListedNos(t, applied, r, n)
  <2>1. ItemNos(u.items, n) = ItemNos(t.items, n)
    BY <1>6
  <2> QED
    BY <1>5, <2>1 DEF ListedNos
<1>8. ASSUME NEW r \in Runs
      PROVE  ListedNos(u, applied, r, m) = ListedNos(t, applied, r, m) \cup (IF r = t.run THEN {i.no} ELSE {})
  <2>1. ItemNos(u.items, m) = ItemNos(t.items, m) \cup {i.no}
    BY <1>1, <1>6
  <2>2. CASE r = t.run
    BY <1>5, <2>1, <2>2 DEF ListedNos
  <2>3. CASE r # t.run
    BY <1>5, <2>3 DEF ListedNos
  <2> QED
    BY <2>2, <2>3
<1>9. SeesFits(u, facts, values, applied, m)
  BY <1>8
<1> DEFINE H == held[c] \cup Wanted(c)
<1>10. held[c] \subseteq H /\ <<"fact", m>> \in H
  BY <1>2
<1> HIDE DEF H, t, m
<1> QED
  BY <1>1, <1>3, <1>4, <1>7, <1>9, <1>10, Wrote DEF H, t, m

LEMMA BoundFact ==
    ASSUME NEW g \in Fact, NEW b \in BOOLEAN
    PROVE  /\ Bind(g, b) \in Fact /\ Bind(g, b).name = g.name /\ Bind(g, b).current = g.current
           /\ g.bound => Bind(g, b).bound
BY DEF Bind, Fact

LEMMA ProposeStep ==
    ASSUME LedgerInv, NEW c \in Callers, ProposeValue(c)
    PROVE  LedgerInv'
<1> DEFINE t == tx[c]
           m == t.name
           p == Head(t.todo)
           f == Bind(FactNamed(c, m), t.bound)
           same == {v \in SeenValues(c) : v.fact = m /\ v.run = t.run /\ v.hash = p.hash}
           v == [fact |-> m, no |-> NextNo(c, m), status |-> "proposed",
                 run |-> t.run, hash |-> p.hash, evidence |-> p.evidence]
           next(i) == [t EXCEPT !.stage = "resolve", !.todo = Tail(@), !.items = Append(@, i),
                                !.facts = WithFact(c, f)]
<1>1. /\ t \in Tx /\ t.op = "persist" /\ t.stage = "fact" /\ Granted(c)
      /\ StagesFit(t, held[c], applied) /\ SeesFits(t, facts, values, applied, m)
      /\ m \in Names /\ t.run \in Runs /\ t.todo # <<>>
  BY DEF LedgerInv, TxFits, StagesFit, ProposeValue
<1>2. t.todo \in Seq(Proposal) /\ t.items \in Seq(Item) /\ t.bound \in BOOLEAN
      /\ t.facts \subseteq Fact /\ t.values \subseteq Value
  BY <1>1 DEF Tx
<1>3. p \in Proposal /\ Tail(t.todo) \in Seq(Proposal)
  BY <1>1, <1>2
<1>4. /\ FactNamed(c, m) \in Fact /\ f \in Fact /\ f.name = m /\ f.current = FactNamed(c, m).current
      /\ FactNamed(c, m).bound => f.bound
  BY <1>1, <1>2, NamedFact, BoundFact
<1>5. /\ \A g \in FactSeen(t, facts, m) : f.current = g.current /\ (g.bound => f.bound)
      /\ FactSeen(t, facts, m) = {} => f.current = 0
  <2> HIDE DEF f
  <2> QED
    BY <1>1, <1>4, NamedFact
<1>6. WithFact(c, f) = FactsOver(t.facts, {f}) /\ WithFact(c, f) \subseteq Fact
  BY <1>2, <1>4 DEF WithFact, FactsOver
<1>7. Pending(t, m) = 0
  BY <1>1 DEF Pending
<1>8. FactSeen(t, facts, m) \subseteq Fact /\ ValuesSeen(t, values, m) \subseteq Value
  BY <1>1, NamedFact
<1>9. ASSUME NEW i \in Item
      PROVE  /\ next(i) \in Tx /\ next(i).op = "persist" /\ next(i).stage = "resolve"
             /\ next(i).run = t.run /\ next(i).items = Append(t.items, i)
             /\ next(i).facts = FactsOver(t.facts, {f}) /\ next(i).values = t.values
             /\ Pending(next(i), m) = 0
  <2>1. Append(t.items, i) \in Seq(Item)
    BY <1>2
  <2> HIDE DEF f
  <2> QED
    BY <1>1, <1>3, <1>6, <2>1 DEF Tx, Pending
<1>10. CASE same = {}
  <2>1. PICK k \in Nat : {w.no : w \in ValuesSeen(t, values, m)} = 1..k /\ NextNo(c, m) = k + 1
    BY <1>1, NextNumber
  <2>2. v \in Value /\ v.fact = m /\ v.status = "proposed" /\ v.no = k + 1 /\ v.run = t.run
    BY <1>1, <1>3, <2>1 DEF Value, Proposal
  <2> DEFINE i == StoredItem(t, "created", v.no)
             u == [next(i) EXCEPT !.values = WithValues(c, {v})]
  <2>3. i \in Item /\ i.outcome # "withheld" /\ i.fact = m /\ i.no = v.no
    BY <1>1, <1>2, <2>2 DEF StoredItem, Item
  <2>4. WithValues(c, {v}) = ValuesOver(t.values, {v}) /\ WithValues(c, {v}) \subseteq Value
    BY <1>2, <2>2 DEF WithValues, ValuesOver
  <2>5. /\ u \in Tx /\ u.op = "persist" /\ u.stage = "resolve" /\ u.run = t.run
        /\ u.items = Append(t.items, i) /\ u.facts = FactsOver(t.facts, {f})
        /\ u.values = ValuesOver(t.values, {v}) /\ Pending(u, m) = 0
    <3> DEFINE n == next(i)
    <3>1. /\ n \in Tx /\ n.op = "persist" /\ n.stage = "resolve" /\ n.run = t.run
          /\ n.items = Append(t.items, i) /\ n.facts = FactsOver(t.facts, {f})
      BY <1>9, <2>3
    <3>2. u = [n EXCEPT !.values = WithValues(c, {v})]
      OBVIOUS
    <3> HIDE DEF n, u, i, v, f
    <3> QED
      BY <3>1, <3>2, <2>4 DEF Tx, Pending
  <2>6. Advance(c, u)
    BY <1>10 DEF ProposeValue
  <2> HIDE DEF u, i, v, f, p, same, next
  <2> DEFINE G == {f}
             N == {v}
  <2>8. /\ u.facts = FactsOver(t.facts, G) /\ u.values = ValuesOver(t.values, N)
        /\ f \in G /\ (\A x \in G : x = f) /\ v \in N /\ (\A x \in N : x = v)
        /\ (\A x \in G : x.name = m) /\ \A x \in N : x.fact = m
    BY <1>4, <2>2, <2>5
  <2> HIDE DEF G, N
  <2>7. ASSUME \A r \in Runs : ListedNos(u, applied, r, m) =
                   ListedNos(t, applied, r, m) \cup (IF r = t.run THEN {i.no} ELSE {})
        PROVE  SeesFits(u, facts, values, applied, m)
    <3>1. \A r \in Runs : ListedNos(u, applied, r, m) =
                   ListedNos(t, applied, r, m) \cup (IF r = v.run THEN {v.no} ELSE {})
      BY <2>2, <2>3, <2>7
    <3>2. Pending(u, m) = IF v.status = "accepted" THEN v.no ELSE 0
      BY <2>2, <2>5
    <3> HIDE DEF t, m
    <3> QED
      BY <1>1, <1>4, <1>5, <1>7, <1>8, <2>1, <2>2, <2>5, <2>8, <3>1, <3>2, AppendSeen, SMTT(60)
  <2>9. TxFits(u, held[c] \cup Wanted(c), facts, values, applied)
    BY <1>1, <2>3, <2>5, <2>7, <2>8, ProposedFits
  <2> QED
    BY <1>1, <2>6, <2>9, AdvanceStep
<1>11. CASE same # {} /\ ReplaysValue(same, p)
  <2>1. PICK w \in same : Advance(c, next(StoredItem(t, "reused", w.no)))
    BY <1>11 DEF ProposeValue
  <2>2. w \in ValuesSeen(t, values, m) /\ w.run = t.run
    BY <2>1 DEF ValuesSeen, ValuesOf, ValuesOver, SeenValues
  <2> DEFINE i == StoredItem(t, "reused", w.no)
             u == next(i)
  <2>3. i \in Item /\ i.outcome # "withheld" /\ i.fact = m /\ i.no = w.no
    BY <1>1, <1>2, <1>8, <2>2 DEF StoredItem, Item, Value
  <2>4. /\ u \in Tx /\ u.op = "persist" /\ u.stage = "resolve" /\ u.run = t.run
        /\ u.items = Append(t.items, i) /\ u.facts = FactsOver(t.facts, {f})
        /\ u.values = t.values /\ Pending(u, m) = 0
    BY <1>9, <2>3
  <2>5. Advance(c, u)
    BY <2>1
  <2> HIDE DEF u, i, f, p, same, next
  <2> DEFINE G == {f}
             N == {}
  <2>7. /\ u.facts = FactsOver(t.facts, G) /\ u.values = ValuesOver(t.values, N)
        /\ f \in G /\ (\A x \in G : x = f)
        /\ (\A x \in G : x.name = m) /\ \A x \in N : x.fact = m
    BY <1>4, <2>4, OverNothing
  <2> HIDE DEF G, N
  <2>6. ASSUME \A r \in Runs : ListedNos(u, applied, r, m) =
                   ListedNos(t, applied, r, m) \cup (IF r = t.run THEN {i.no} ELSE {})
        PROVE  SeesFits(u, facts, values, applied, m)
    <3>1. \A r \in Runs : ListedNos(u, applied, r, m) =
                   ListedNos(t, applied, r, m) \cup (IF r = w.run THEN {w.no} ELSE {})
      BY <2>2, <2>3, <2>6
    <3>2. /\ SeesFits(t, facts, values, applied, m) /\ w.run \in Runs
          /\ \A g \in FactSeen(t, facts, m) : f.current = g.current /\ (g.bound => f.bound)
          /\ Pending(t, m) = 0 /\ Pending(u, m) = 0 /\ u.values = t.values
      BY <1>1, <1>5, <1>7, <2>2, <2>4
    <3> HIDE DEF t, m
    <3> QED
      BY <1>4, <2>2, <2>7, <3>1, <3>2, RepeatSeen, SMTT(60)
  <2>8. TxFits(u, held[c] \cup Wanted(c), facts, values, applied)
    BY <1>1, <2>3, <2>4, <2>6, <2>7, ProposedFits
  <2> QED
    BY <1>1, <2>5, <2>8, AdvanceStep
<1>12. CASE same # {} /\ ~ReplaysValue(same, p)
  BY <1>12, RollbackStep DEF ProposeValue
<1> QED
  BY <1>10, <1>11, <1>12

LEMMA CompleteStep ==
    ASSUME LedgerInv, NEW c \in Callers, CompleteApplication(c)
    PROVE  LedgerInv'
<1> DEFINE t == tx[c]
<1>1. /\ t \in Tx /\ t.stage = "resolve" /\ StagesFit(t, held[c], applied)
      /\ DOMAIN applied = Runs
      /\ Publish(c) /\ UNCHANGED entities /\ applied' = [applied EXCEPT ![t.run] = t.items]
  BY DEF LedgerInv, RowsFit, TxFits, CompleteApplication
<1>2. t.op = "persist" /\ t.run \in Runs /\ t.items \in Seq(Item) /\ t.items # None
  BY <1>1, NoneAssumption DEF StagesFit, Tx, Idle
<1>3. DOMAIN applied' = Runs /\ applied'[t.run] = t.items /\ \A r \in Runs : r # t.run => applied'[r] = applied[r]
  BY <1>1, <1>2
<1>4. \A r \in Runs : applied'[r] # None => applied'[r] \in Seq(Item)
  BY <1>2, <1>3 DEF LedgerInv, RowsFit
<1>5. ASSUME NEW r \in Runs, NEW n \in Names
      PROVE  CommittedNos(applied', r, n) = ListedNos(t, applied, r, n)
  <2>1. CASE r = t.run
    BY <1>1, <1>2, <1>3, <2>1 DEF CommittedNos, ListedNos, Claimed
  <2>2. CASE r # t.run
    BY <1>3, <2>2 DEF CommittedNos, ListedNos
  <2> QED
    BY <2>1, <2>2
<1>6. ASSUME NEW d \in Callers \ {c}, Claimed(tx[d])
      PROVE  applied'[tx[d].run] = None
  <2>1. <<"application", t.run>> \in held[c]
    BY <1>1, <1>2 DEF StagesFit
  <2>2. /\ <<"application", tx[d].run>> \in held[d] /\ applied[tx[d].run] = None /\ tx[d].run \in Runs
    BY <1>6 DEF LedgerInv, TxFits, StagesFit, Claimed
  <2>3. held[c] \cap held[d] = {}
    BY DEF LedgerInv, RowsFit
  <2> QED
    BY <1>3, <2>1, <2>2, <2>3
<1> QED
  BY <1>1, <1>3, <1>4, <1>5, <1>6, PublishStep

LEMMA CommitStep ==
    ASSUME LedgerInv, NEW c \in Callers, Commit(c)
    PROVE  LedgerInv'
<1>1. /\ tx[c] \in Tx /\ tx[c].stage = "commit" /\ StagesFit(tx[c], held[c], applied)
      /\ Publish(c) /\ UNCHANGED <<entities, applied>>
  BY DEF LedgerInv, TxFits, Commit
<1>2. ~Claimed(tx[c])
  BY <1>1 DEF StagesFit, Claimed
<1>3. \A r \in Runs, n \in Names : CommittedNos(applied', r, n) = ListedNos(tx[c], applied, r, n)
  BY <1>1, <1>2 DEF ListedNos
<1>4. DOMAIN applied' = Runs /\ \A r \in Runs : applied'[r] # None => applied'[r] \in Seq(Item)
  BY <1>1 DEF LedgerInv, RowsFit
<1>5. ASSUME NEW d \in Callers \ {c}, Claimed(tx[d])
      PROVE  applied'[tx[d].run] = None
  BY <1>1, <1>5 DEF LedgerInv, TxFits, StagesFit, Claimed
<1> QED
  BY <1>1, <1>3, <1>4, <1>5, PublishStep

LEMMA AppendStep ==
    ASSUME LedgerInv, NEW c \in Callers, AppendHuman(c)
    PROVE  LedgerInv'
<1> DEFINE t == tx[c]
           m == t.name
           f == Bind(FactNamed(c, m), t.bound)
           v == [fact |-> m, no |-> NextNo(c, m), status |-> "accepted",
                 run |-> None, hash |-> t.hash, evidence |-> "e1"]
           u == [t EXCEPT !.stage = "replace", !.no = v.no,
                          !.facts = WithFact(c, f), !.values = WithValues(c, {v})]
           G == {f}
           N == {v}
           H == held[c] \cup Wanted(c)
<1>1. /\ t \in Tx /\ t.op = "human" /\ t.stage = "fact" /\ Granted(c) /\ Advance(c, u)
      /\ StagesFit(t, held[c], applied) /\ SeesFits(t, facts, values, applied, m)
      /\ m \in Names /\ t.hash \in Hashes
  BY DEF LedgerInv, TxFits, StagesFit, AppendHuman
<1>2. t.bound \in BOOLEAN /\ t.facts \subseteq Fact /\ t.values \subseteq Value
  BY <1>1 DEF Tx
<1>3. PICK k \in Nat : {w.no : w \in ValuesSeen(t, values, m)} = 1..k /\ NextNo(c, m) = k + 1
  BY <1>1, NextNumber
<1>4. v \in Value /\ v.fact = m /\ v.status = "accepted" /\ v.no = k + 1 /\ v.run = None
  BY <1>1, <1>3 DEF Value
<1>5. /\ FactNamed(c, m) \in Fact /\ f \in Fact /\ f.name = m /\ f.current = FactNamed(c, m).current
      /\ FactNamed(c, m).bound => f.bound
  BY <1>1, <1>2, NamedFact, BoundFact
<1>6. /\ \A g \in FactSeen(t, facts, m) : f.current = g.current /\ (g.bound => f.bound)
      /\ FactSeen(t, facts, m) = {} => f.current = 0
  <2> HIDE DEF f
  <2> QED
    BY <1>1, <1>5, NamedFact
<1>7. FactSeen(t, facts, m) \subseteq Fact /\ ValuesSeen(t, values, m) \subseteq Value
  BY <1>1, NamedFact
<1>8. /\ WithFact(c, f) = FactsOver(t.facts, G) /\ WithFact(c, f) \subseteq Fact
      /\ WithValues(c, N) = ValuesOver(t.values, N) /\ WithValues(c, N) \subseteq Value
  BY <1>2, <1>4, <1>5 DEF WithFact, FactsOver, WithValues, ValuesOver
<1>9. f \in G /\ (\A x \in G : x = f) /\ v \in N /\ (\A x \in N : x = v)
  OBVIOUS
<1>10. u = [t EXCEPT !.stage = "replace", !.no = v.no, !.facts = WithFact(c, f), !.values = WithValues(c, N)]
  OBVIOUS
<1> HIDE DEF u, f, v, G, N
<1>11. /\ u \in Tx /\ u.op = "human" /\ u.stage = "replace" /\ u.name = m /\ u.no = v.no /\ u.hash = t.hash
       /\ u.facts = FactsOver(t.facts, G) /\ u.values = ValuesOver(t.values, N)
  <2> DEFINE X == WithFact(c, f)
             Y == WithValues(c, N)
             no == v.no
  <2>1. u = [t EXCEPT !.stage = "replace", !.no = no, !.facts = X, !.values = Y]
    BY <1>10
  <2>2. t \in Tx /\ no \in Nat /\ X \subseteq Fact /\ Y \subseteq Value
    BY <1>1, <1>4, <1>8
  <2> HIDE DEF X, Y, no, t
  <2>3. u \in Tx /\ u.op = t.op /\ u.stage = "replace" /\ u.name = t.name /\ u.hash = t.hash
    BY <2>1, <2>2 DEF Tx
  <2>4. u.no = no /\ u.facts = X /\ u.values = Y
    BY <2>1, <2>2 DEF Tx
  <2> QED
    BY <1>1, <1>8, <2>3, <2>4 DEF X, Y, no, t
<1>12. ~Claimed(t) /\ ~Claimed(u)
  BY <1>1, <1>11 DEF Claimed
<1>13. \A r \in Runs, n \in Names : ListedNos(u, applied, r, n) = ListedNos(t, applied, r, n)
  BY <1>12 DEF ListedNos
<1>14. \A r \in Runs : ListedNos(u, applied, r, m) =
                           ListedNos(t, applied, r, m) \cup (IF r = v.run THEN {v.no} ELSE {})
  BY <1>1, <1>4, <1>13, NoneAssumption
<1>15. Pending(t, m) = 0 /\ Pending(u, m) = IF v.status = "accepted" THEN v.no ELSE 0
  BY <1>1, <1>4, <1>11 DEF Pending
<1>16. \A n \in Names \ {m} : Pending(u, n) = Pending(t, n)
  BY <1>1, <1>11 DEF Pending
<1>17. SeesFits(u, facts, values, applied, m)
  <2>1. /\ SeesFits(t, facts, values, applied, m) /\ v.status \in {"proposed", "accepted"}
        /\ u.facts = FactsOver(t.facts, G) /\ u.values = ValuesOver(t.values, N)
    BY <1>1, <1>4, <1>11
  <2> HIDE DEF t, m
  <2> QED
    BY <1>3, <1>4, <1>5, <1>6, <1>7, <1>9, <1>14, <1>15, <2>1, AppendSeen, SMTT(60)
<1>18. held[c] \subseteq H /\ <<"fact", m>> \in H
  BY <1>1 DEF Wanted
<1> HIDE DEF H
<1>19. StagesFit(u, H, applied) /\ ValueIsThere(u, values)
  BY <1>1, <1>3, <1>4, <1>11, <1>18 DEF StagesFit, ValueIsThere
<1>20. (\A x \in G : x.name = m) /\ \A x \in N : x.fact = m
  BY <1>4, <1>5, <1>9
<1>21. TxFits(u, H, facts, values, applied)
  <2>1. \A n \in Names \ {m}, r \in Runs : ListedNos(u, applied, r, n) = ListedNos(t, applied, r, n)
    BY <1>13
  <2> QED
    BY <1>1, <1>11, <1>16, <1>17, <1>18, <1>19, <1>20, <2>1, Wrote
<1> QED
  BY <1>1, <1>21, AdvanceStep DEF H

LEMMA LockStep ==
    ASSUME LedgerInv, NEW c \in Callers, LockValue(c)
    PROVE  LedgerInv'
<1> DEFINE t == tx[c]
           u == [t EXCEPT !.stage = "fact"]
<1>1. TxFits(t, held[c], facts, values, applied) /\ t \in Tx /\ t.stage = "value" /\ Granted(c) /\ Advance(c, u)
  BY DEF LedgerInv, TxFits, LockValue
<1>2. t.op \in {"accept", "reject"} /\ t.name \in Names
  BY <1>1 DEF TxFits, StagesFit, Tx, Idle
<1>3. /\ u \in Tx /\ u.op = t.op /\ u.stage = "fact" /\ u.name = t.name /\ u.no = t.no
      /\ u.facts = t.facts /\ u.values = t.values /\ u.items = t.items
  BY <1>1 DEF Tx
<1> HIDE DEF u
<1>4. ASSUME NEW n \in Names
      PROVE  SeesFits(u, facts, values, applied, n)
  <2>1. Pending(u, n) = Pending(t, n)
    BY <1>1, <1>3 DEF Pending
  <2>2. \A r \in Runs : ListedNos(u, applied, r, n) = ListedNos(t, applied, r, n)
    BY <1>2, <1>3 DEF ListedNos, Claimed
  <2>3. SeesFits(t, facts, values, applied, n)
    BY <1>1 DEF TxFits
  <2> QED
    BY <1>3, <2>1, <2>2, <2>3 DEF SeesFits, FactSeen, ValuesSeen
<1>5. TxFits(u, held[c] \cup Wanted(c), facts, values, applied)
  BY <1>1, <1>2, <1>3, <1>4 DEF TxFits, StagesFit, ValueIsThere, WritesAreLocked
<1> QED
  BY <1>1, <1>5, AdvanceStep

LEMMA DecideStep ==
    ASSUME LedgerInv, NEW c \in Callers, Decide(c)
    PROVE  LedgerInv'
<1> DEFINE t == tx[c]
           m == t.name
           v == ValueOf(c, <<m, t.no>>)
           d == [v EXCEPT !.status = IF t.op = "accept" THEN "accepted" ELSE "rejected"]
           N == {d}
           u == [t EXCEPT !.stage = IF t.op = "accept" THEN "replace" ELSE "commit",
                          !.values = WithValues(c, N)]
           H == held[c] \cup Wanted(c)
<1>1. /\ t \in Tx /\ t.op \in {"accept", "reject"} /\ t.stage = "fact" /\ Granted(c)
      /\ StagesFit(t, held[c], applied) /\ SeesFits(t, facts, values, applied, m)
      /\ ValueIsThere(t, values) /\ m \in Names
  BY DEF LedgerInv, TxFits, StagesFit, Decide
<1>2. v \in ValuesSeen(t, values, m) /\ v.no = t.no
  <2>1. PICK w \in values : w.fact = m /\ w.no = t.no
    BY <1>1 DEF ValueIsThere
  <2>2. PICK x \in ValuesSeen(t, values, m) : Follows(x, w)
    BY <1>1, <2>1 DEF SeesFits, Later, ValuesOf
  <2>3. x \in SeenValues(c) /\ Id(x) = <<m, t.no>>
    BY <2>1, <2>2 DEF Follows, ValuesSeen, ValuesOf, ValuesOver, SeenValues, Id
  <2>4. v \in SeenValues(c) /\ Id(v) = <<m, t.no>>
    BY <2>3 DEF ValueOf
  <2> QED
    BY <2>4 DEF ValuesSeen, ValuesOf, ValuesOver, SeenValues, Id
<1>3. FactSeen(t, facts, m) \subseteq Fact /\ ValuesSeen(t, values, m) \subseteq Value
  BY <1>1, NamedFact
<1>4. CASE v.status # "proposed"
  BY <1>4, RollbackStep DEF Decide
<1>5. CASE v.status = "proposed"
  <2>1. Advance(c, u)
    BY <1>5 DEF Decide
  <2>2. v \in Value
    BY <1>2, <1>3
  <2> HIDE DEF v
  <2>3. /\ d \in Value /\ d.fact = v.fact /\ d.no = v.no /\ d.run = v.run /\ d.hash = v.hash
        /\ d.status = IF t.op = "accept" THEN "accepted" ELSE "rejected"
    BY <2>2 DEF Value
  <2>4. d.fact = m /\ d.status \in {"accepted", "rejected"} /\ (d.status = "accepted" <=> t.op = "accept")
    BY <1>2, <2>3 DEF ValuesSeen, ValuesOf
  <2>5. d \in N /\ \A x \in N : x = d
    OBVIOUS
  <2> HIDE DEF d, N
  <2>6. WithValues(c, N) = ValuesOver(t.values, N) /\ WithValues(c, N) \subseteq Value
    BY <1>1, <2>3, <2>5 DEF WithValues, ValuesOver, Tx
  <2>7. /\ u \in Tx /\ u.op = t.op /\ u.stage = (IF t.op = "accept" THEN "replace" ELSE "commit")
        /\ u.name = m /\ u.no = t.no /\ u.facts = t.facts /\ u.values = ValuesOver(t.values, N)
    BY <1>1, <2>6 DEF Tx
  <2> HIDE DEF u
  <2>8. ~Claimed(t) /\ ~Claimed(u)
    BY <1>1, <2>7 DEF Claimed
  <2>9. \A r \in Runs, n \in Names : ListedNos(u, applied, r, n) = ListedNos(t, applied, r, n)
    BY <2>8 DEF ListedNos
  <2>10. Pending(t, m) = 0 /\ Pending(u, m) = IF d.status = "accepted" THEN v.no ELSE 0
    BY <1>1, <1>2, <2>4, <2>7 DEF Pending
  <2>11. \A n \in Names \ {m} : Pending(u, n) = Pending(t, n)
    BY <1>1, <2>7 DEF Pending
  <2>12. SeesFits(u, facts, values, applied, m)
    <3>1. /\ SeesFits(t, facts, values, applied, m) /\ u.facts = t.facts
          /\ u.values = ValuesOver(t.values, N)
          /\ \A r \in Runs : ListedNos(u, applied, r, m) = ListedNos(t, applied, r, m)
      BY <1>1, <2>7, <2>9
    <3> HIDE DEF t, m
    <3> QED
      BY <1>2, <1>3, <1>5, <2>3, <2>4, <2>5, <2>10, <3>1, DecideSeen, SMTT(60)
  <2>13. held[c] \subseteq H /\ <<"fact", m>> \in H
    BY <1>1 DEF Wanted
  <2> HIDE DEF H
  <2>14. StagesFit(u, H, applied) /\ ValueIsThere(u, values)
    BY <1>1, <1>2, <2>2, <2>7, <2>13 DEF StagesFit, ValueIsThere, Value
  <2>15. TxFits(u, H, facts, values, applied)
    <3> DEFINE G == {}
    <3>1. u.facts = FactsOver(t.facts, G) /\ (\A x \in G : x.name = m) /\ \A x \in N : x.fact = m
      BY <2>4, <2>5, <2>7, OverNothing
    <3>2. \A n \in Names \ {m}, r \in Runs : ListedNos(u, applied, r, n) = ListedNos(t, applied, r, n)
      BY <2>9
    <3> HIDE DEF G
    <3> QED
      BY <1>1, <2>7, <2>11, <2>12, <2>13, <2>14, <3>1, <3>2, Wrote
  <2> QED
    BY <1>1, <2>1, <2>15, AdvanceStep DEF H
<1> QED
  BY <1>4, <1>5

LEMMA ReplaceStep ==
    ASSUME LedgerInv, NEW c \in Callers, ReplaceCurrent(c)
    PROVE  LedgerInv'
<1> DEFINE t == tx[c]
           m == t.name
           g == FactNamed(c, m)
           VV == ValuesSeen(t, values, m)
           N == {[v EXCEPT !.status = "superseded"] :
                    v \in {w \in SeenValues(c) : w.fact = m /\ w.no = g.current}}
           f == [g EXCEPT !.current = t.no]
           G == {f}
           u == [t EXCEPT !.stage = "commit", !.facts = WithFact(c, f), !.values = WithValues(c, N)]
           H == held[c] \cup Wanted(c)
<1>1. /\ t \in Tx /\ t.stage = "replace" /\ Granted(c) /\ t.no \in Nat \ {0}
      /\ StagesFit(t, held[c], applied) /\ SeesFits(t, facts, values, applied, m) /\ ValueIsThere(t, values)
      /\ m \in Names /\ t.op \in {"human", "accept", "reject"} /\ <<"fact", m>> \in held[c]
  <2>1. TxFits(t, held[c], facts, values, applied) /\ t.stage = "replace" /\ Granted(c)
    BY DEF LedgerInv, ReplaceCurrent
  <2>2. t \in Tx /\ StagesFit(t, held[c], applied) /\ ValueIsThere(t, values)
    BY <2>1 DEF TxFits
  <2>3. t.op \in {"human", "accept", "reject"}
    BY <2>1, <2>2 DEF StagesFit, Idle, Tx
  <2>4. m \in Names /\ <<"fact", m>> \in held[c] /\ t.no \in Nat \ {0}
    BY <2>1, <2>2, <2>3 DEF StagesFit, Tx
  <2> QED
    BY <2>1, <2>2, <2>3, <2>4 DEF TxFits
<1>2. CASE N # {} /\ ~t.replace
  BY <1>2, RollbackStep DEF ReplaceCurrent
<1>3. CASE ~(N # {} /\ ~t.replace)
  <2>1. Advance(c, u)
    BY <1>3 DEF ReplaceCurrent
  <2>2. Pending(t, m) = t.no
    BY <1>1 DEF Pending
  <2>3. /\ FactSeen(t, facts, m) \subseteq Fact /\ VV \subseteq Value /\ g \in Fact /\ g.name = m
        /\ \A h \in FactSeen(t, facts, m) : h = g
    BY <1>1, NamedFact
  <2>4. g \in FactSeen(t, facts, m)
    <3>1. Ordered(FactSeen(t, facts, m), VV, t.no)
      BY <1>1, <2>2 DEF SeesFits
    <3>2. FactSeen(t, facts, m) # {}
      BY <1>1, <3>1 DEF Ordered
    <3> QED
      BY <2>3, <3>2
  <2>5. \A v, w \in VV : v.no = w.no => v = w
    BY <1>1 DEF SeesFits, Ordered
  <2>6. N = {[v EXCEPT !.status = "superseded"] : v \in {w \in VV : w.no = g.current}}
    <3>1. {w \in SeenValues(c) : w.fact = m /\ w.no = g.current} = {w \in VV : w.no = g.current}
      BY DEF ValuesSeen, ValuesOf, ValuesOver, SeenValues
    <3> QED
      BY <3>1
  <2>7. Supersedes(N, VV, g.current) /\ N \subseteq Value
    <3> DEFINE k == g.current
    <3>1. N = {[v EXCEPT !.status = "superseded"] : v \in {w \in VV : w.no = k}} /\ VV \in SUBSET Value
      BY <2>3, <2>6
    <3> HIDE DEF k, N, VV
    <3>2. Supersedes(N, VV, k) /\ N \subseteq Value
      BY <2>5, <3>1, Superseded
    <3> QED
      BY <3>2 DEF k
  <2>8. \A w \in N : w.fact = m
    <3> HIDE DEF N
    <3> QED
      BY <2>7 DEF Supersedes, ValuesSeen, ValuesOf
  <2> HIDE DEF N, g
  <2>9. f \in Fact /\ f.name = m /\ f.bound = g.bound /\ f.current = t.no
    BY <1>1, <2>3 DEF Fact
  <2>10. (\A x \in G : x.name = m) /\ f \in G /\ \A x \in G : x = f
    BY <2>9
  <2>11. /\ WithFact(c, f) = FactsOver(t.facts, G) /\ WithFact(c, f) \subseteq Fact
         /\ WithValues(c, N) = ValuesOver(t.values, N) /\ WithValues(c, N) \subseteq Value
    BY <1>1, <2>7, <2>9 DEF WithFact, FactsOver, WithValues, ValuesOver, Tx
  <2> HIDE DEF f, G
  <2>12. /\ u \in Tx /\ u.op = t.op /\ u.stage = "commit" /\ u.name = m /\ u.no = t.no /\ u.hash = t.hash
         /\ u.facts = FactsOver(t.facts, G) /\ u.values = ValuesOver(t.values, N)
    <3> DEFINE X == WithFact(c, f)
               Y == WithValues(c, N)
    <3>1. u = [t EXCEPT !.stage = "commit", !.facts = X, !.values = Y]
      OBVIOUS
    <3>2. t \in Tx /\ X \subseteq Fact /\ Y \subseteq Value
      BY <1>1, <2>11
    <3> HIDE DEF X, Y, t, u
    <3>3. u \in Tx /\ u.op = t.op /\ u.stage = "commit" /\ u.name = t.name /\ u.no = t.no /\ u.hash = t.hash
      BY <3>1, <3>2 DEF Tx
    <3>4. u.facts = X /\ u.values = Y
      BY <3>1, <3>2 DEF Tx
    <3> QED
      BY <2>11, <3>3, <3>4 DEF X, Y
  <2> HIDE DEF u
  <2>13. ~Claimed(t) /\ ~Claimed(u)
    BY <1>1, <2>12 DEF Claimed
  <2>14. \A r \in Runs, n \in Names : ListedNos(u, applied, r, n) = ListedNos(t, applied, r, n)
    BY <2>13 DEF ListedNos
  <2>15. Pending(u, m) = 0 /\ \A n \in Names \ {m} : Pending(u, n) = Pending(t, n)
    BY <1>1, <2>12 DEF Pending
  <2>16. SeesFits(u, facts, values, applied, m)
    <3>1. /\ SeesFits(t, facts, values, applied, m) /\ u.facts = FactsOver(t.facts, G)
          /\ u.values = ValuesOver(t.values, N) /\ f.current = Pending(t, m) /\ f.current \in Nat \ {0}
          /\ \A r \in Runs : ListedNos(u, applied, r, m) = ListedNos(t, applied, r, m)
          /\ Supersedes(N, ValuesSeen(t, values, m), g.current)
      BY <1>1, <2>2, <2>7, <2>9, <2>12, <2>14
    <3> HIDE DEF t, m, VV
    <3> QED
      BY <2>4, <2>9, <2>10, <2>15, <3>1, ReplaceSeen, SMTT(60)
  <2>17. held[c] \subseteq H /\ <<"fact", m>> \in H
    BY <1>1
  <2> HIDE DEF H
  <2>18. StagesFit(u, H, applied) /\ ValueIsThere(u, values)
    BY <1>1, <2>12, <2>17 DEF StagesFit, ValueIsThere
  <2>19. TxFits(u, H, facts, values, applied)
    <3>1. \A n \in Names \ {m}, r \in Runs : ListedNos(u, applied, r, n) = ListedNos(t, applied, r, n)
      BY <2>14
    <3> QED
      BY <1>1, <2>8, <2>10, <2>12, <2>15, <2>16, <2>17, <2>18, <3>1, Wrote
  <2> QED
    BY <1>1, <2>1, <2>19, AdvanceStep DEF H
<1> QED
  BY <1>2, <1>3

-----------------------------------------------------------------------------
(* The invariant.                                                              *)

LEMMA InitFits == Init => LedgerInv
<1> SUFFICES ASSUME Init PROVE LedgerInv
  OBVIOUS
<1>1. RowsFit
  BY DEF Init, RowsFit
<1>2. ASSUME NEW n \in Names
      PROVE  SeesFits(Idle, facts, values, applied, n)
  <2>1. FactSeen(Idle, facts, n) = {} /\ ValuesSeen(Idle, values, n) = {}
    BY DEF Init, Idle, FactSeen, FactsOf, FactsOver, ValuesSeen, ValuesOf, ValuesOver
  <2>2. Ordered({}, {}, Pending(Idle, n))
    <3>1. 1..0 = {}
      OBVIOUS
    <3> QED
      BY <3>1 DEF Ordered, Pending, Idle
  <2>3. Later(ValuesOf(values, n), {}) /\ StaysBound(FactsOf(facts, n), {})
    BY DEF Init, Later, ValuesOf, StaysBound, FactsOf
  <2>4. \A r \in Runs : NosOf({}, r) = ListedNos(Idle, applied, r, n)
    BY DEF Init, NosOf, ListedNos, CommittedNos, Claimed, Idle
  <2> QED
    BY <2>1, <2>2, <2>3, <2>4 DEF SeesFits
<1>3. ASSUME NEW c \in Callers
      PROVE  TxFits(tx[c], held[c], facts, values, applied)
  BY <1>2, IdleFits DEF Init
<1> QED
  BY <1>1, <1>2, <1>3 DEF LedgerInv

LEMMA IdleRow ==
    Idle \in Tx /\ Idle.items = <<>> /\ Idle.facts = {} /\ Idle.values = {}
BY DEF Idle, Tx

(* A call begins with nothing written.                                         *)
LEMMA CallStep ==
    ASSUME LedgerInv, NEW c \in Callers, Call(c)
    PROVE  LedgerInv'
<1>1. ASSUME NEW run \in Runs, PersistBatch(c, run)
      PROVE  LedgerInv'
  <2> DEFINE t == [Idle EXCEPT !.op = "persist", !.stage = "claim", !.run = run, !.todo = Responses[run]]
  <2>1. /\ t \in Tx /\ t.op = "persist" /\ t.stage = "claim" /\ t.run = run
        /\ t.items = <<>> /\ t.facts = {} /\ t.values = {}
    BY IdleRow, LedgerAssumption DEF Tx
  <2>2. Begin(c, t)
    BY <1>1 DEF PersistBatch
  <2> HIDE DEF t
  <2>3. StagesFit(t, held[c], applied) /\ ValueIsThere(t, values) /\ ~Claimed(t)
    BY <2>1 DEF StagesFit, ValueIsThere, Claimed
  <2> QED
    BY <2>1, <2>2, <2>3, BeginStep
<1>2. ASSUME NEW n \in Names, NEW bound \in BOOLEAN, NEW hash \in Hashes, CreateHuman(c, n, bound, hash)
      PROVE  LedgerInv'
  <2> DEFINE t == [Idle EXCEPT !.op = "human", !.stage = "fact", !.name = n, !.bound = bound, !.hash = hash]
  <2>1. /\ t \in Tx /\ t.op = "human" /\ t.stage = "fact" /\ t.name = n /\ t.hash = hash
        /\ t.facts = {} /\ t.values = {}
    BY IdleRow DEF Tx
  <2>2. Begin(c, t)
    BY <1>2 DEF CreateHuman
  <2> HIDE DEF t
  <2>3. StagesFit(t, held[c], applied) /\ ValueIsThere(t, values) /\ ~Claimed(t)
    BY <2>1 DEF StagesFit, ValueIsThere, Claimed
  <2> QED
    BY <2>1, <2>2, <2>3, BeginStep
<1>3. ASSUME NEW v \in values, NEW op \in {"accept", "reject"}, NEW replace \in BOOLEAN,
             DecideValue(c, op, v, replace)
      PROVE  LedgerInv'
  <2> DEFINE t == [Idle EXCEPT !.op = op, !.stage = "value", !.name = v.fact, !.no = v.no, !.replace = replace]
  <2>1. v.fact \in Names /\ v.no \in Nat
    BY DEF LedgerInv, RowsFit, Value
  <2>2. /\ t \in Tx /\ t.op = op /\ t.stage = "value" /\ t.name = v.fact /\ t.no = v.no
        /\ t.facts = {} /\ t.values = {}
    BY <2>1, IdleRow DEF Tx
  <2>3. Begin(c, t)
    BY <1>3 DEF DecideValue
  <2> HIDE DEF t
  <2>4. StagesFit(t, held[c], applied) /\ ValueIsThere(t, values) /\ ~Claimed(t)
    BY <2>1, <2>2 DEF StagesFit, ValueIsThere, Claimed
  <2> QED
    BY <2>2, <2>3, <2>4, BeginStep
<1> QED
  BY <1>1, <1>2, <1>3 DEF Call

(* A user makes an entity.                                                     *)
LEMMA CurateStep ==
    ASSUME LedgerInv, Curate
    PROVE  LedgerInv'
<1>1. entities' \subseteq Names
  BY LedgerAssumption DEF Curate, CreateEntity, LedgerInv, RowsFit
<1>2. UNCHANGED <<facts, values, applied, tx, held>>
  BY DEF Curate, CreateEntity
<1>3. RowsFit'
  BY <1>1, <1>2 DEF LedgerInv, RowsFit
<1> QED
  BY <1>2, <1>3 DEF LedgerInv

LEMMA NextFits == LedgerInv /\ [Next]_vars => LedgerInv'
<1> SUFFICES ASSUME LedgerInv, [Next]_vars PROVE LedgerInv'
  OBVIOUS
<1>1. CASE UNCHANGED vars
  <2>1. UNCHANGED <<entities, facts, values, applied, tx, held>>
    BY <1>1 DEF vars
  <2> QED
    BY <2>1 DEF LedgerInv, RowsFit
<1>2. CASE Curate
  BY <1>2, CurateStep
<1>3. ASSUME NEW c \in Callers, Call(c) \/ Step(c) \/ BreakDeadlock(c) \/ Interrupt(c)
      PROVE  LedgerInv'
  <2>1. CASE Call(c)
    BY <2>1, CallStep
  <2>2. CASE Step(c)
    BY <2>2, ClaimStep, ResolveStep, ProposeStep, CompleteStep, AppendStep, LockStep, DecideStep,
       ReplaceStep, CommitStep DEF Step
  <2>3. CASE BreakDeadlock(c) \/ Interrupt(c)
    BY <2>3, RollbackStep DEF BreakDeadlock, Interrupt
  <2> QED
    BY <1>3, <2>1, <2>2, <2>3
<1> QED
  BY <1>1, <1>2, <1>3 DEF Next

(* What a call sees of a name is in order and as late as what is committed,    *)
(* whatever the other calls commit meanwhile: the row lock of the fact keeps   *)
(* the name's rows as they were.                                               *)
THEOREM LedgerInvariant == Spec => []LedgerInv
BY InitFits, NextFits, PTL DEF Spec

-----------------------------------------------------------------------------
(* What follows.                                                               *)

(* What is committed of a name is in order.                                    *)
LEMMA CommittedFits ==
    ASSUME LedgerInv, NEW n \in Names
    PROVE  /\ Ordered(FactsOf(facts, n), ValuesOf(values, n), 0)
           /\ \A r \in Runs : NosOf(ValuesOf(values, n), r) = CommittedNos(applied, r, n)
<1>1. SeesFits(Idle, facts, values, applied, n)
  BY DEF LedgerInv
<1>2. FactSeen(Idle, facts, n) = FactsOf(facts, n) /\ ValuesSeen(Idle, values, n) = ValuesOf(values, n)
  BY OverNothing DEF FactSeen, ValuesSeen, Idle
<1>3. Pending(Idle, n) = 0 /\ \A r \in Runs : ListedNos(Idle, applied, r, n) = CommittedNos(applied, r, n)
  BY DEF Pending, ListedNos, Claimed, Idle
<1> QED
  BY <1>1, <1>2, <1>3 DEF SeesFits

(* As many values as numbers.                                                  *)
LEMMA AsManyAsNumbers ==
    ASSUME NEW VV, NEW k \in Nat, {v.no : v \in VV} = 1..k, \A v, w \in VV : v.no = w.no => v = w
    PROVE  Cardinality(VV) = k
<1> DEFINE f == [i \in 1..k |-> CHOOSE v \in VV : v.no = i]
<1>1. ASSUME NEW i \in 1..k
      PROVE  f[i] \in VV /\ f[i].no = i
  <2>1. \E v \in VV : v.no = i
    OBVIOUS
  <2> QED
    BY <2>1
<1>2. f \in [1..k -> VV]
  BY <1>1
<1>3. ASSUME NEW i \in 1..k, NEW j \in 1..k, f[i] = f[j]
      PROVE  i = j
  BY <1>1, <1>3
<1>4. ASSUME NEW v \in VV
      PROVE  \E i \in 1..k : f[i] = v
  <2>1. v.no \in 1..k
    OBVIOUS
  <2> QED
    BY <1>1, <2>1
<1> HIDE DEF f
<1>5. f \in Bijection(1..k, VV)
  BY <1>2, <1>3, <1>4 DEF Bijection, Injection, Surjection, IsInjective
<1>6. IsFiniteSet(1..k) /\ Cardinality(1..k) = k
  BY FS_Interval
<1> QED
  BY <1>5, <1>6, FS_Bijection DEF ExistsBijection

LEMMA OrderFollows == LedgerInv => ValuesAreOrdered
<1> SUFFICES ASSUME LedgerInv PROVE ValuesAreOrdered
  OBVIOUS
<1>1. FactsTypeOK
  BY DEF LedgerInv, RowsFit, FactsTypeOK
<1>2. ASSUME NEW n \in Names
      PROVE  /\ {v.no : v \in ValuesOf(values, n)} = 1..Cardinality(ValuesOf(values, n))
             /\ ValuesOf(values, n) # {} => Cardinality(FactsOf(facts, n)) = 1
  <2>1. Ordered(FactsOf(facts, n), ValuesOf(values, n), 0)
    BY CommittedFits
  <2>2. PICK k \in Nat : {v.no : v \in ValuesOf(values, n)} = 1..k
    BY <2>1 DEF Ordered
  <2>3. \A v, w \in ValuesOf(values, n) : v.no = w.no => v = w
    BY <2>1 DEF Ordered
  <2>4. Cardinality(ValuesOf(values, n)) = k
    BY <2>2, <2>3, AsManyAsNumbers
  <2>5. ASSUME ValuesOf(values, n) # {}
        PROVE  Cardinality(FactsOf(facts, n)) = 1
    <3>1. PICK f \in FactsOf(facts, n) : TRUE
      BY <2>1, <2>5 DEF Ordered
    <3>2. FactsOf(facts, n) = {f}
      BY <2>1 DEF Ordered
    <3> QED
      BY <3>2, FS_Singleton
  <2> QED
    BY <2>2, <2>4, <2>5
<1>3. VersionsAreDense
  BY <1>2 DEF VersionsAreDense, ValuesOf, FactsOf
<1>4. CurrentIsAccepted
  <2>1. SUFFICES ASSUME NEW f \in facts
                 PROVE  {v.no : v \in {w \in values : w.fact = f.name /\ w.status = "accepted"}}
                           = {f.current} \ {0}
    BY DEF CurrentIsAccepted
  <2>2. f.name \in Names /\ f.current \in Nat /\ values \subseteq Value
    BY DEF LedgerInv, RowsFit, Fact
  <2> DEFINE VV == ValuesOf(values, f.name)
             AA == {v \in VV : v.status = "accepted"}
  <2>3. Ordered(FactsOf(facts, f.name), VV, 0) /\ f \in FactsOf(facts, f.name)
    BY <2>2, CommittedFits DEF FactsOf
  <2>4. \A v \in VV : v.no # 0
    BY <2>2 DEF ValuesOf, Value
  <2>5. /\ \A v \in VV : v.status = "accepted" <=> v.no = f.current
        /\ f.current # 0 => \E v \in VV : v.no = f.current
    BY <2>3, <2>4 DEF Ordered
  <2>6. \A x : x \in {v.no : v \in AA} <=> x \in {f.current} \ {0}
    BY <2>4, <2>5
  <2>7. AA = {w \in values : w.fact = f.name /\ w.status = "accepted"}
    BY DEF ValuesOf
  <2> HIDE DEF AA
  <2>8. {v.no : v \in AA} = {f.current} \ {0}
    BY <2>6
  <2> QED
    BY <2>7, <2>8
<1> QED
  BY <1>1, <1>3, <1>4 DEF ValuesAreOrdered

(* However many transactions append to a fact at the same time, its values are *)
(* numbered from one without a gap or a repetition, only the current one is    *)
(* accepted, and no row is locked twice.                                       *)
THEOREM OrderTheorem == Spec => []ValuesAreOrdered
BY LedgerInvariant, OrderFollows, PTL

LEMMA WholeFollows == LedgerInv => AppliedIsWhole
<1> SUFFICES ASSUME LedgerInv, NEW run \in Runs
             PROVE  {Id(v) : v \in {w \in values : w.run = run}} =
                       IF applied[run] = None THEN {}
                       ELSE {<<i.fact, i.no>> : i \in {j \in ToSet(applied[run]) : j.outcome # "withheld"}}
  BY DEF AppliedIsWhole
<1> DEFINE VV == {w \in values : w.run = run}
           II == {j \in ToSet(applied[run]) : j.outcome # "withheld"}
<1>1. \A v \in VV : v.fact \in Names
  BY DEF LedgerInv, RowsFit, Value
<1>2. ASSUME NEW n \in Names
      PROVE  {v.no : v \in {w \in VV : w.fact = n}} = CommittedNos(applied, run, n)
  <2>1. NosOf(ValuesOf(values, n), run) = CommittedNos(applied, run, n)
    BY CommittedFits
  <2>2. {w \in VV : w.fact = n} = {w \in ValuesOf(values, n) : w.run = run}
    BY DEF ValuesOf
  <2> QED
    BY <2>1, <2>2 DEF NosOf
<1>3. CASE applied[run] = None
  <2>1. VV = {}
    BY <1>1, <1>2, <1>3 DEF CommittedNos
  <2> QED
    BY <1>3, <2>1
<1>4. CASE applied[run] # None
  <2>1. applied[run] \in Seq(Item)
    BY <1>4 DEF LedgerInv, RowsFit
  <2>2. \A i \in II : i \in Item
    BY <2>1 DEF ToSet
  <2>3. \A i \in II : i.fact \in Names
    BY <2>2 DEF Item
  <2>4. ASSUME NEW n \in Names
        PROVE  {v.no : v \in {w \in VV : w.fact = n}} = {i.no : i \in {j \in II : j.fact = n}}
    <3>1. {j \in II : j.fact = n} = {j \in ToSet(applied[run]) : j.outcome # "withheld" /\ j.fact = n}
      OBVIOUS
    <3> QED
      BY <1>2, <1>4, <3>1 DEF CommittedNos, ItemNos
  <2> HIDE DEF VV, II
  <2>5. ASSUME NEW v \in VV
        PROVE  \E i \in II : <<i.fact, i.no>> = Id(v)
    <3>1. v.no \in {w.no : w \in {x \in VV : x.fact = v.fact}}
      OBVIOUS
    <3>2. v.no \in {i.no : i \in {j \in II : j.fact = v.fact}}
      BY <1>1, <2>4, <3>1
    <3> QED
      BY <3>2 DEF Id
  <2>6. ASSUME NEW i \in II
        PROVE  \E v \in VV : Id(v) = <<i.fact, i.no>>
    <3>1. i.no \in {j.no : j \in {x \in II : x.fact = i.fact}}
      OBVIOUS
    <3>2. i.no \in {v.no : v \in {w \in VV : w.fact = i.fact}}
      BY <2>3, <2>4, <3>1
    <3> QED
      BY <3>2 DEF Id
  <2>7. {Id(v) : v \in VV} = {<<i.fact, i.no>> : i \in II}
    BY <2>5, <2>6
  <2> QED
    BY <1>4, <2>7 DEF VV, II
<1> QED
  BY <1>3, <1>4

(* A batch is stored whole or not at all: what a run proposed, and nothing     *)
(* else, is what its completed application lists.                              *)
THEOREM WholeTheorem == Spec => []AppliedIsWhole
BY LedgerInvariant, WholeFollows, PTL

(* Rows only change by a commit.                                               *)
LEMMA RowsChangeByCommit ==
    ASSUME Next
    PROVE  UNCHANGED <<facts, values>> \/ \E c \in Callers : Publish(c)
<1>1. CASE Curate
  BY <1>1 DEF Curate, CreateEntity
<1>2. ASSUME NEW c \in Callers, Call(c)
      PROVE  UNCHANGED <<facts, values>>
  BY <1>2 DEF Call, PersistBatch, CreateHuman, DecideValue, Begin
<1>3. ASSUME NEW c \in Callers, BreakDeadlock(c) \/ Interrupt(c)
      PROVE  UNCHANGED <<facts, values>>
  BY <1>3 DEF BreakDeadlock, Interrupt, Rollback
<1>4. ASSUME NEW c \in Callers, CompleteApplication(c) \/ Commit(c)
      PROVE  Publish(c)
  BY <1>4 DEF CompleteApplication, Commit
<1>5. ASSUME NEW c \in Callers, ClaimApplication(c) \/ ResolveNext(c) \/ LockValue(c)
      PROVE  UNCHANGED <<facts, values>>
  BY <1>5 DEF ClaimApplication, ResolveNext, LockValue, Rollback, Advance
<1>6. ASSUME NEW c \in Callers, ProposeValue(c)
      PROVE  UNCHANGED <<facts, values>>
  BY <1>6 DEF ProposeValue, Rollback, Advance
<1>7. ASSUME NEW c \in Callers, AppendHuman(c) \/ Decide(c) \/ ReplaceCurrent(c)
      PROVE  UNCHANGED <<facts, values>>
  BY <1>7 DEF AppendHuman, Decide, ReplaceCurrent, Rollback, Advance
<1> QED
  BY <1>1, <1>2, <1>3, <1>4, <1>5, <1>6, <1>7 DEF Next, Step

LEMMA NothingUndone ==
    ASSUME LedgerInv, [Next]_vars
    PROVE  [DecisionsAreFinal /\ BindingIsKept]_vars
<1>1. CASE UNCHANGED <<facts, values>>
  BY <1>1 DEF DecisionsAreFinal, BindingIsKept
<1>2. ASSUME NEW c \in Callers, Publish(c)
      PROVE  DecisionsAreFinal /\ BindingIsKept
  <2>1. facts' = FactsOver(facts, tx[c].facts) /\ values' = ValuesOver(values, tx[c].values)
    BY <1>2 DEF Publish, SeenFacts, SeenValues, FactsOver, ValuesOver
  <2>2. \A n \in Names : SeesFits(tx[c], facts, values, applied, n)
    BY DEF LedgerInv, TxFits
  <2>3. ASSUME NEW v \in values
        PROVE  \E w \in values' : w.fact = v.fact /\ Follows(w, v)
    <3>1. v.fact \in Names /\ v \in ValuesOf(values, v.fact)
      BY DEF LedgerInv, RowsFit, Value, ValuesOf
    <3>2. PICK w \in ValuesSeen(tx[c], values, v.fact) : Follows(w, v)
      BY <2>2, <3>1 DEF SeesFits, Later
    <3> QED
      BY <2>1, <3>2 DEF ValuesSeen, ValuesOf
  <2>4. DecisionsAreFinal
    BY <2>3 DEF DecisionsAreFinal, Follows, Id
  <2>5. ASSUME NEW f \in facts, f.bound
        PROVE  \E g \in facts' : g.name = f.name /\ g.bound
    <3>1. f.name \in Names /\ f \in FactsOf(facts, f.name)
      BY DEF LedgerInv, RowsFit, Fact, FactsOf
    <3>2. PICK g \in FactSeen(tx[c], facts, f.name) : g.bound
      BY <2>2, <2>5, <3>1 DEF SeesFits, StaysBound
    <3> QED
      BY <2>1, <3>2 DEF FactSeen, FactsOf
  <2> QED
    BY <2>4, <2>5 DEF BindingIsKept
<1> QED
  BY <1>1, <1>2, RowsChangeByCommit DEF vars

(* A rejected or superseded value never changes again, an accepted one is only *)
(* superseded, and a fact that names its entity keeps doing so.                *)
THEOREM UndoneTheorem == Spec => NothingIsUndone
BY LedgerInvariant, NothingUndone, PTL DEF Spec, NothingIsUndone
=============================================================================
