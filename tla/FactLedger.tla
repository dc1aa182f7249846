----------------------------- MODULE FactLedger -----------------------------
(* Facts, their numbered values and who writes them: AI batches that are       *)
(* persisted whole, human values, acceptances and rejections.  Every call is   *)
(* one database transaction; it takes row locks statement by statement, sees   *)
(* what is committed overlaid with what it wrote itself, and publishes at the  *)
(* commit.  Entities and aliases change in between.                            *)
EXTENDS Naturals, Sequences, FiniteSets, SequencesExt

CONSTANTS
    Callers,     \* sessions that may have a call open
    Names,       \* normalized subject keys; they identify a fact here
    Hashes,      \* hashes of normalized values
    Responses,   \* the answer of each completed inference run: proposals in order
    NewEntities, \* entities a user may create: a canonical key and an alias
    None,        \* no run, no name, no application
    MaxCalls     \* bound on the calls made

Runs == DOMAIN Responses

(* A proposal states a value of a subject under some evidence.                 *)
Proposal == [mention : Names, hash : Hashes, evidence : {"e1", "e2"}]
ASSUME LedgerAssumption ==
    /\ \A run \in Runs : Responses[run] \in Seq(Proposal)
    /\ NewEntities \subseteq [name : Names, alias : Names]
    /\ MaxCalls \in Nat

VARIABLES
    entities,    \* canonical keys of active entities
    aliases,     \* active aliases: <<alias, canonical key>>
    facts,       \* committed facts
    values,      \* committed values
    applied,     \* the result of each run's completed application, or None
    tx,          \* the transaction of each caller
    held,        \* the rows each transaction has locked
    calls        \* calls made

vars == <<entities, aliases, facts, values, applied, tx, held, calls>>

Fact == [name : Names, bound : BOOLEAN, current : Nat]
Value == [fact : Names, no : Nat \ {0},
          status : {"proposed", "accepted", "rejected", "superseded"},
          run : Runs \cup {None}, hash : Hashes, evidence : {"e1", "e2"}]
Item == [outcome : {"created", "reused", "withheld"}, fact : Names, no : Nat, bound : BOOLEAN]
(* Nothing else is None.                                                       *)
ASSUME NoneAssumption == None \notin Runs /\ None \notin Seq(Item)

(* No call, and what a call remembers.                                         *)
Idle == [op |-> "none", stage |-> "idle", run |-> None, name |-> None, no |-> 0,
         bound |-> FALSE, hash |-> None, replace |-> TRUE,
         todo |-> <<>>, items |-> <<>>, facts |-> {}, values |-> {}]

Init ==
    /\ entities = {} /\ aliases = {}
    /\ facts = {} /\ values = {}
    /\ applied = [run \in Runs |-> None]
    /\ tx = [c \in Callers |-> Idle]
    /\ held = [c \in Callers |-> {}]
    /\ calls = 0

-----------------------------------------------------------------------------
(* Rows and locks.                                                             *)
Id(v) == <<v.fact, v.no>>
SeenFacts(c) == {f \in facts : \A g \in tx[c].facts : g.name # f.name} \cup tx[c].facts
SeenValues(c) == {v \in values : \A w \in tx[c].values : Id(w) # Id(v)} \cup tx[c].values

FactNamed(c, n) ==
    IF \E f \in SeenFacts(c) : f.name = n
    THEN CHOOSE f \in SeenFacts(c) : f.name = n
    ELSE [name |-> n, bound |-> FALSE, current |-> 0]
ValueOf(c, id) == CHOOSE v \in SeenValues(c) : Id(v) = id
(* Broken: the numbers of all facts are counted together.                      *)
NextNoOverall(c, n) == 1 + Max({0} \cup {v.no : v \in SeenValues(c)})

NextNo(c, n) == 1 + Max({0} \cup {v.no : v \in {w \in SeenValues(c) : w.fact = n}})

WithFact(c, f) == {g \in tx[c].facts : g.name # f.name} \cup {f}
WithValues(c, new) == {w \in tx[c].values : \A v \in new : Id(w) # Id(v)} \cup new

(* The row the next statement of a call needs.                                 *)
Wanted(c) ==
    LET t == tx[c]
        current == FactNamed(c, t.name).current
    IN  IF t.stage = "claim" THEN {<<"application", t.run>>}
        ELSE IF t.stage = "fact" THEN {<<"fact", t.name>>}
        ELSE IF t.stage = "value" THEN {<<"value", t.name, t.no>>}
        ELSE IF t.stage = "replace" /\ current # 0 THEN {<<"value", t.name, current>>}
        ELSE {}

Granted(c) == \A d \in Callers \ {c} : Wanted(c) \cap held[d] = {}
Waits(c, d) == c # d /\ Wanted(c) \cap held[d] # {}
(* Every member of a cycle waits for a member and is waited for by one.        *)
InCycle(c) ==
    \E S \in SUBSET Callers :
        /\ c \in S
        /\ \A a \in S : (\E b \in S : Waits(a, b)) /\ (\E b \in S : Waits(b, a))

(* A statement of the call: its row is locked, what it remembers is replaced.  *)
Advance(c, t) ==
    /\ tx' = [tx EXCEPT ![c] = t]
    /\ held' = [held EXCEPT ![c] = @ \cup Wanted(c)]
    /\ UNCHANGED <<entities, aliases, facts, values, applied, calls>>
(* Broken: the session of a failed call is not closed.                         *)
RollbackHoldingLocks(c) ==
    /\ tx' = [tx EXCEPT ![c] = Idle]
    /\ UNCHANGED <<entities, aliases, facts, values, applied, held, calls>>

(* The transaction ends without effect and its locks go.                       *)
Rollback(c) ==
    /\ tx' = [tx EXCEPT ![c] = Idle]
    /\ held' = [held EXCEPT ![c] = {}]
    /\ UNCHANGED <<entities, aliases, facts, values, applied, calls>>

Publish(c) ==
    /\ facts' = SeenFacts(c) /\ values' = SeenValues(c)
    /\ tx' = [tx EXCEPT ![c] = Idle]
    /\ held' = [held EXCEPT ![c] = {}]

-----------------------------------------------------------------------------
(* Entities.  An existing entity is returned unchanged.                        *)
CreateEntity(e) ==
    /\ e.name \notin entities
    /\ entities' = entities \cup {e.name}
    /\ aliases' = aliases \cup {<<e.alias, e.name>>}
    /\ UNCHANGED <<facts, values, applied, tx, held, calls>>

(* A mention names the entity whose canonical key it is, else the one that has *)
(* it as alias; with several of those it is ambiguous, with none unresolved.   *)
Candidates(m) ==
    IF m \in entities THEN {m} ELSE {n \in entities : <<m, n>> \in aliases}

-----------------------------------------------------------------------------
(* The calls.                                                                  *)
Begin(c, t) ==
    /\ tx[c].op = "none" /\ calls < MaxCalls
    /\ tx' = [tx EXCEPT ![c] = t]
    /\ calls' = calls + 1
    /\ UNCHANGED <<entities, aliases, facts, values, applied, held>>

PersistBatch(c, run) ==
    Begin(c, [Idle EXCEPT !.op = "persist", !.stage = "claim", !.run = run,
                          !.todo = Responses[run]])

(* A person names an active entity by its canonical key, or none.              *)
CreateHuman(c, n, bound, hash) ==
    /\ bound => n \in entities
    /\ Begin(c, [Idle EXCEPT !.op = "human", !.stage = "fact", !.name = n,
                             !.bound = bound, !.hash = hash])

DecideValue(c, op, v, replace) ==
    Begin(c, [Idle EXCEPT !.op = op, !.stage = "value", !.name = v.fact, !.no = v.no,
                          !.replace = replace])

(* What an application says of a proposal has the right shape, and the value   *)
(* it points at is the one the run proposed.                                   *)
ItemMatchesProposal(item, run, i) ==
    \E v \in values : /\ v.fact = item.fact /\ v.no = item.no /\ v.run = run
                      /\ v.hash = Responses[run][i].hash
                      /\ v.evidence = Responses[run][i].evidence
(* The fact is bound as it was when the item was written.                      *)
ItemMatchesFact(item) == \E f \in facts : f.name = item.fact /\ f.bound = item.bound

(* Reading an application again compares it with the rows as they are now.     *)
Replayable(run) ==
    /\ Len(applied[run]) = Len(Responses[run])
    /\ \A i \in 1..Len(applied[run]) :
          applied[run][i].outcome # "withheld" =>
              ItemMatchesProposal(applied[run][i], run, i) /\ ItemMatchesFact(applied[run][i])

WithheldItem(m) == [outcome |-> "withheld", fact |-> m, no |-> 0, bound |-> FALSE]
StoredItem(t, outcome, no) ==
    [outcome |-> outcome, fact |-> t.name, no |-> no, bound |-> t.bound]

(* The application row of the run is inserted; an insert that meets another    *)
(* waits for it.  A completed application is replayed, or refused.             *)
ClaimApplication(c) ==
    /\ tx[c].stage = "claim" /\ Granted(c)
    /\ IF applied[tx[c].run] # None
       THEN Rollback(c)
       ELSE Advance(c, [tx[c] EXCEPT !.stage = "resolve"])

(* The next proposal's subject, resolved against what is committed now.        *)
ResolveNext(c) ==
    /\ tx[c].stage = "resolve" /\ tx[c].todo # <<>>
    /\ LET m == Head(tx[c].todo).mention IN
       IF Cardinality(Candidates(m)) > 1
       THEN Advance(c, [tx[c] EXCEPT !.todo = Tail(@), !.items = Append(@, WithheldItem(m))])
       ELSE \E n \in IF Candidates(m) = {} THEN {m} ELSE Candidates(m) :
               Advance(c, [tx[c] EXCEPT !.stage = "fact", !.name = n,
                                        !.bound = Candidates(m) # {}])

(* Broken: an unresolved mention takes the entity off the fact.                *)
BindAlways(f, bound) == [f EXCEPT !.bound = bound]

(* A fact is made on first mention; an entity, once known, is entered, also    *)
(* into a fact that was made without.                                          *)
Bind(f, bound) == [f EXCEPT !.bound = f.bound \/ bound]

(* What the run already proposed is repeated only with the same evidence.      *)
ReplaysValue(same, p) == \A w \in same : w.evidence = p.evidence

(* Broken: each proposal is committed for itself.                              *)
ProposeAndCommit(c) ==
    LET t == tx[c]
        p == Head(t.todo)
        v == [fact |-> t.name, no |-> NextNo(c, t.name), status |-> "proposed",
              run |-> t.run, hash |-> p.hash, evidence |-> p.evidence]
    IN  /\ t.op = "persist" /\ t.stage = "fact" /\ Granted(c)
        /\ values' = SeenValues(c) \cup {v}
        /\ facts' = SeenFacts(c) \cup {FactNamed(c, t.name)}
        /\ tx' = [tx EXCEPT ![c].stage = "resolve", ![c].todo = Tail(@)]
        /\ UNCHANGED <<entities, aliases, applied, held, calls>>

(* The fact is locked, or inserted, and the proposal becomes its next value,   *)
(* unless this run already proposed that value of it: then the stored one must *)
(* carry the same evidence.                                                    *)
ProposeValue(c) ==
    LET t == tx[c]
        p == Head(t.todo)
        f == Bind(FactNamed(c, t.name), t.bound)
        same == {v \in SeenValues(c) : v.fact = t.name /\ v.run = t.run /\ v.hash = p.hash}
        v == [fact |-> t.name, no |-> NextNo(c, t.name), status |-> "proposed",
              run |-> t.run, hash |-> p.hash, evidence |-> p.evidence]
        next(i) == [t EXCEPT !.stage = "resolve", !.todo = Tail(@), !.items = Append(@, i),
                             !.facts = WithFact(c, f)]
    IN  /\ t.op = "persist" /\ t.stage = "fact" /\ Granted(c)
        /\ IF same = {}
           THEN Advance(c, [next(StoredItem(t, "created", v.no)) EXCEPT !.values = WithValues(c, {v})])
           ELSE IF ReplaysValue(same, p)
           THEN \E w \in same : Advance(c, next(StoredItem(t, "reused", w.no)))
           ELSE Rollback(c)

(* Every proposal is stored or withheld: the application is completed with     *)
(* what became of each, in the same commit.                                    *)
CompleteApplication(c) ==
    /\ tx[c].stage = "resolve" /\ tx[c].todo = <<>>
    /\ applied' = [applied EXCEPT ![tx[c].run] = tx[c].items]
    /\ Publish(c)
    /\ UNCHANGED <<entities, aliases, calls>>

(* A human value is accepted as it is written; it then replaces the current.   *)
AppendHuman(c) ==
    LET t == tx[c]
        f == Bind(FactNamed(c, t.name), t.bound)
        v == [fact |-> t.name, no |-> NextNo(c, t.name), status |-> "accepted",
              run |-> None, hash |-> t.hash, evidence |-> "e1"]
    IN  /\ t.op = "human" /\ t.stage = "fact" /\ Granted(c)
        /\ Advance(c, [t EXCEPT !.stage = "replace", !.no = v.no,
                                !.facts = WithFact(c, f), !.values = WithValues(c, {v})])

(* A decision locks the value and, by the same statement, its fact.            *)
LockValue(c) ==
    /\ tx[c].stage = "value" /\ Granted(c)
    /\ Advance(c, [tx[c] EXCEPT !.stage = "fact"])

(* Broken: a rejected value may be accepted after all.                         *)
DecideAgain(c) ==
    LET t == tx[c]
        v == ValueOf(c, <<t.name, t.no>>)
        decided == [v EXCEPT !.status = IF t.op = "accept" THEN "accepted" ELSE "rejected"]
    IN  /\ t.op \in {"accept", "reject"} /\ t.stage = "fact" /\ Granted(c)
        /\ IF v.status \in {"proposed", "rejected"}
           THEN Advance(c, [t EXCEPT !.stage = IF t.op = "accept" THEN "replace" ELSE "commit",
                                     !.values = WithValues(c, {decided})])
           ELSE Rollback(c)

(* Only a proposed value is decided; a repeated decision changes nothing, any  *)
(* other is refused.                                                           *)
Decide(c) ==
    LET t == tx[c]
        v == ValueOf(c, <<t.name, t.no>>)
        decided == [v EXCEPT !.status = IF t.op = "accept" THEN "accepted" ELSE "rejected"]
    IN  /\ t.op \in {"accept", "reject"} /\ t.stage = "fact" /\ Granted(c)
        /\ IF v.status = "proposed"
           THEN Advance(c, [t EXCEPT !.stage = IF t.op = "accept" THEN "replace" ELSE "commit",
                                     !.values = WithValues(c, {decided})])
           ELSE Rollback(c)

(* Broken: the value that was current stays accepted.                          *)
ReplaceKeepingOld(c) ==
    LET t == tx[c]
        f == FactNamed(c, t.name)
    IN  /\ t.stage = "replace" /\ Granted(c)
        /\ Advance(c, [t EXCEPT !.stage = "commit",
                                !.facts = WithFact(c, [f EXCEPT !.current = t.no])])

(* The accepted value becomes current; the value that was is locked, and       *)
(* superseded if the caller confirmed it.                                      *)
ReplaceCurrent(c) ==
    LET t == tx[c]
        f == FactNamed(c, t.name)
        old == {[v EXCEPT !.status = "superseded"] :
                    v \in {w \in SeenValues(c) : w.fact = t.name /\ w.no = f.current}}
    IN  /\ t.stage = "replace" /\ Granted(c)
        /\ IF old # {} /\ ~t.replace
           THEN Rollback(c)
           ELSE Advance(c, [t EXCEPT !.stage = "commit",
                                     !.facts = WithFact(c, [f EXCEPT !.current = t.no]),
                                     !.values = WithValues(c, old)])

Commit(c) ==
    /\ tx[c].stage = "commit"
    /\ Publish(c)
    /\ UNCHANGED <<entities, aliases, applied, calls>>

(* The database ends one of the transactions that wait for each other.         *)
BreakDeadlock(c) == InCycle(c) /\ Rollback(c)

(* The request is cancelled or its process stops: the transaction is undone.   *)
Interrupt(c) == tx[c].op # "none" /\ Rollback(c)

Step(c) ==
    \/ ClaimApplication(c) \/ ResolveNext(c) \/ ProposeValue(c) \/ CompleteApplication(c)
    \/ AppendHuman(c) \/ LockValue(c) \/ Decide(c) \/ ReplaceCurrent(c) \/ Commit(c)

Call(c) ==
    \/ \E run \in Runs : PersistBatch(c, run)
    \/ \E n \in Names, bound \in BOOLEAN, hash \in Hashes : CreateHuman(c, n, bound, hash)
    \/ \E v \in values : \/ DecideValue(c, "reject", v, FALSE)
                         \/ \E replace \in BOOLEAN : DecideValue(c, "accept", v, replace)

Curate == \E e \in NewEntities : CreateEntity(e)

Next == Curate \/ \E c \in Callers : Call(c) \/ Step(c) \/ BreakDeadlock(c) \/ Interrupt(c)

Spec == Init /\ [][Next]_vars

(* A call's next statement is eventually executed; the database queues those   *)
(* that wait for a row and searches for deadlocks.                             *)
FairSpec == Spec /\ \A c \in Callers : SF_vars(Step(c)) /\ WF_vars(BreakDeadlock(c))

-----------------------------------------------------------------------------
(* The rows are well-formed, and no row is locked twice.                      *)
FactsTypeOK ==
    /\ facts \subseteq Fact /\ values \subseteq Value
    /\ \A run \in Runs : applied[run] # None => applied[run] \in Seq(Item)
    /\ \A c, d \in Callers : c # d => held[c] \cap held[d] = {}

(* The values of a fact are numbered from one without a gap and without a      *)
(* repetition, whichever transactions append them at the same time.            *)
VersionsAreDense ==
    \A n \in Names :
        LET mine == {v \in values : v.fact = n} IN
        /\ {v.no : v \in mine} = 1..Cardinality(mine)
        /\ mine # {} => Cardinality({f \in facts : f.name = n}) = 1

(* A fact has at most one accepted value, and it is the current one.           *)
CurrentIsAccepted ==
    \A f \in facts : {v.no : v \in {w \in values : w.fact = f.name /\ w.status = "accepted"}}
                        = {f.current} \ {0}

(* The values of a fact are in order: numbered without gaps, the accepted one  *)
(* current, and no row lock held by two transactions.                          *)
ValuesAreOrdered == FactsTypeOK /\ VersionsAreDense /\ CurrentIsAccepted

(* A batch is stored whole or not at all: the values of a run are exactly      *)
(* those its completed application lists.                                      *)
AppliedIsWhole ==
    \A run \in Runs :
        {Id(v) : v \in {w \in values : w.run = run}} =
            IF applied[run] = None THEN {}
            ELSE {<<i.fact, i.no>> : i \in {j \in ToSet(applied[run]) : j.outcome # "withheld"}}

(* A decision is final: a rejected or superseded value never changes, an       *)
(* accepted one only becomes superseded.                                       *)
DecisionsAreFinal ==
    \A v \in values : v.status # "proposed" =>
        \E w \in values' : /\ Id(w) = Id(v) /\ w.run = v.run /\ w.hash = v.hash
                           /\ \/ w.status = v.status
                              \/ v.status = "accepted" /\ w.status = "superseded"

(* Once a fact is bound to its entity it stays bound, whatever later mentions  *)
(* resolve to.                                                                 *)
BindingIsKept ==
    \A f \in facts : f.bound => \E g \in facts' : g.name = f.name /\ g.bound

(* What was decided about a value, or found about a fact, is never undone.     *)
NothingIsUndone == [][DecisionsAreFinal /\ BindingIsKept]_vars

(* Every call ends, although decisions lock a value before its fact and human  *)
(* values a fact before its current value: a deadlock costs one of the calls.  *)
EveryCallEnds == \A c \in Callers : tx[c].op # "none" ~> tx[c].op = "none"

(* What a batch stored can be read and replayed later.                         *)
ReplayWorks == \A run \in Runs : applied[run] # None => Replayable(run)

(* A response the schema accepts can be persisted: no two of its proposals     *)
(* collide for good.                                                           *)
ResponsesCanBeStored ==
    \A c \in Callers :
        tx[c].op = "persist" /\ tx[c].stage = "fact" =>
            \A v \in tx[c].values : v.fact = tx[c].name /\ v.hash = Head(tx[c].todo).hash
                                    => v.evidence = Head(tx[c].todo).evidence
=============================================================================
