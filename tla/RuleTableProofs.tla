---------------------------- MODULE RuleTableProofs ----------------------------
(***************************************************************************)
(* The flows follow the rules of the policies: for any policies, rules,    *)
(* VDSs and numbers of syncs, failed calls and restarts, as long as the    *)
(* workload is tolerable.  The inductive invariant and the types, the      *)
(* case that every call gets through, then calls that fail, and the        *)
(* theorem.                                                                *)
(***************************************************************************)
EXTENDS RuleTable, TLAPS

RuleNames(l) == {r.name : r \in UNION {RulesOf(l, p) : p \in Policies}}

Actions(l) == {r.action : r \in UNION {RulesOf(l, p) : p \in Policies}} \cup {NoAction}

Versions(l, p) == l.rules[p] \cup {{}}

IsJob(l, c, w, j) ==
    /\ j \in [pol : Policies, old : Versions(l, j.pol), new : Versions(l, j.pol),
              todo : SUBSET RuleNames(l), failed : BOOLEAN]
    /\ Worker(j.pol) = w
    /\ j.new = c[j.pol]
    /\ j.todo \subseteq Names(j.old \cup j.new)

TypeOK ==
    /\ Tolerable(load)
    /\ Rules \in [Keys -> [refs : SUBSET RuleNames(load), action : Actions(load)]]
    /\ \A k \in Keys : Rules[k] = NoRule \/ Rules[k].action # NoAction
    /\ sw \in [VDS -> [Keys -> Actions(load)]]
    /\ fresh \in SUBSET VDS
    /\ DOMAIN cur = Policies /\ \A p \in Policies : cur[p] \in Versions(load, p)
    /\ DOMAIN job = Workers /\ \A w \in Workers : job[w] = Idle \/ IsJob(load, cur, w, job[w])
    /\ gaveUp \in BOOLEAN
    /\ faults \in Nat

------------------------------------------------------------------------------
(* While every call gets through.                                             *)

Busy(p) == job[Worker(p)] # Idle /\ job[Worker(p)].pol = p

\* What has been done for a policy: the names of a sync that are still to come
\* stand for their old rules, the others for their new ones.
Holds(p) ==
    LET j == job[Worker(p)] IN
    IF Busy(p)
    THEN {r \in j.new : r.name \notin j.todo} \cup {r \in j.old : r.name \in j.todo}
    ELSE cur[p]

Held == UNION {Holds(p) : p \in Policies}

\* The references of a key are the names of the rules that hold it, and the
\* switches have its flow.
Counted(k) ==
    /\ Rules[k].refs = {r.name : r \in {x \in Held : x.key = k}}
    /\ Rules[k].refs = {} => Rules[k] = NoRule
    /\ \A r \in Held : r.key = k => Rules[k].action = r.action
    /\ \A v \in VDS : sw[v][k] = Rules[k].action \/ (v \notin fresh /\ sw[v][k] = NoAction)

CalmInv ==
    ActionsAgree(load) /\ load.faults = 0 => 
        /\ \A w \in Workers : job[w] # Idle => ~job[w].failed
        /\ \A k \in Keys : Counted(k)

------------------------------------------------------------------------------
(* While no two rules share a flow.                                           *)

Want(k) == {r \in UNION {cur[p] : p \in Policies} : r.key = k}

\* The table and the switches have what the policy of the key wants.
Good(k) ==
    /\ \A r \in Want(k) : /\ Rules[k] = [refs |-> {r.name}, action |-> r.action]
                          /\ \A v \in fresh : sw[v][k] = r.action
    /\ Want(k) = {} => Rules[k] = NoRule /\ \A v \in VDS : sw[v][k] = NoAction

\* What a job may find of a rule it has to deal with, in this or a later pass.
Pending(j, r) ==
    LET k == r.key
        entry == Rules[k]
    IN /\ r \in j.new /\ r \in j.old => Good(k)
       /\ r \in j.new /\ r \notin j.old =>
            /\ entry = NoRule \/ entry.refs = {r.name}
            /\ entry.action = r.action => Good(k)
       /\ r \in j.old /\ r.name \notin Names(j.new) =>
            /\ entry.refs \subseteq {r.name}
            /\ entry = NoRule => Good(k)

\* No job is about to change the key, or has failed to.
Untouched(k) ==
    \A w \in Workers : job[w] # Idle =>
        \A r \in job[w].old \cup job[w].new :
            r.key = k => ~job[w].failed /\ r.name \notin job[w].todo

FaultyInv ==
    Unshared(load) /\ ~gaveUp =>
        /\ \A k \in Keys : Untouched(k) => Good(k)
        /\ \A w \in Workers : job[w] # Idle =>
              \A r \in job[w].old \cup job[w].new : Pending(job[w], r)

Inv == TypeOK /\ CalmInv /\ FaultyInv

------------------------------------------------------------------------------
(* Facts about workloads and jobs.                                            *)

LEMMA VersionRules ==
    ASSUME NEW l, NEW p, NEW rs \in Versions(l, p), NEW r \in rs
    PROVE  rs \in l.rules[p] /\ r \in RulesOf(l, p)
BY Zenon DEF Versions, RulesOf

LEMMA RuleFacts ==
    ASSUME NEW l, WellNamed(l), NEW p \in Policies, NEW r \in RulesOf(l, p)
    PROVE  /\ r = [name |-> r.name, key |-> r.key, action |-> r.action]
           /\ r.key \in Keys /\ r.action # NoAction
           /\ r.name \in RuleNames(l) /\ r.action \in Actions(l)
BY Zenon, ZenonT(60) DEF WellNamed, RuleNames, Actions

LEMMA JobFacts ==
    ASSUME TypeOK, NEW w \in Workers, job[w] # Idle
    PROVE  /\ IsJob(load, cur, w, job[w])
           /\ job[w].pol \in Policies /\ Worker(job[w].pol) = w
           /\ job[w].new = cur[job[w].pol]
           /\ \A r \in job[w].old \cup job[w].new : r \in RulesOf(load, job[w].pol)
           /\ \A r, s \in job[w].old : r.name = s.name => r = s
           /\ \A r, s \in job[w].new : r.name = s.name => r = s
           /\ job[w].todo \subseteq Names(job[w].old \cup job[w].new)
           /\ job[w].failed \in BOOLEAN
<1> DEFINE j == job[w]
<1>1. IsJob(load, cur, w, j) /\ WellNamed(load)
  BY Zenon DEF TypeOK, Tolerable
<1> HIDE DEF j
<1>2. /\ j.pol \in Policies /\ j.failed \in BOOLEAN
      /\ j.old \in Versions(load, j.pol) /\ j.new \in Versions(load, j.pol)
      /\ Worker(j.pol) = w /\ j.new = cur[j.pol]
      /\ j.todo \subseteq Names(j.old \cup j.new)
  BY <1>1, Zenon DEF IsJob
<1>3. ASSUME NEW rs \in Versions(load, j.pol), NEW r \in rs, NEW s \in rs, r.name = s.name
      PROVE  r = s
  <2>1. rs \in load.rules[j.pol]
    BY <1>3, VersionRules, Zenon
  <2> QED
    BY <1>1, <1>2, <1>3, <2>1 DEF WellNamed
<1>4. \A r \in j.old \cup j.new : r \in RulesOf(load, j.pol)
  BY <1>2, VersionRules, Zenon
<1> QED
  BY <1>1, <1>2, <1>3, <1>4, Zenon DEF j

LEMMA CurFacts ==
    ASSUME TypeOK, NEW p \in Policies, NEW r \in cur[p]
    PROVE  r \in RulesOf(load, p)
BY VersionRules, Zenon DEF TypeOK

\* A rule's name tells its policy and its key.
LEMMA NameFacts ==
    ASSUME TypeOK, NEW p \in Policies, NEW q \in Policies,
           NEW r \in RulesOf(load, p), NEW s \in RulesOf(load, q), r.name = s.name
    PROVE  p = q /\ r.key = s.key
BY DEF TypeOK, Tolerable, WellNamed

LEMMA JobFields ==
    ASSUME NEW p, NEW old, NEW new, NEW todo, NEW failed
    PROVE  LET j == Job(p, old, new, todo, failed)
           IN /\ j # Idle
              /\ j.pol = p /\ j.old = old /\ j.new = new /\ j.todo = todo /\ j.failed = failed
<1>1. DOMAIN Idle = {"pol"}
  BY Zenon DEF Idle
<1>2. "old" \in DOMAIN Job(p, old, new, todo, failed)
  BY Zenon DEF Job
<1> QED
  BY <1>1, <1>2 DEF Job

LEMMA NotIdle ==
    ASSUME NEW j, "old" \in DOMAIN j
    PROVE  j # Idle
<1>1. DOMAIN Idle = {"pol"}
  BY Zenon DEF Idle
<1> QED
  BY <1>1

LEMMA WorkerType == ASSUME NEW p PROVE Worker(p) \in Workers
BY Zenon DEF Worker, Workers

------------------------------------------------------------------------------
(* Type correctness.                                                          *)

LEMMA InitType == TableInit /\ Tolerable(load) => TypeOK
<1> SUFFICES ASSUME TableInit, Tolerable(load) PROVE TypeOK
  BY Zenon
<1>1. NoRule \in [refs : SUBSET RuleNames(load), action : Actions(load)]
  BY Zenon DEF NoRule, Actions
<1>2. NoAction \in Actions(load)
  BY Zenon DEF Actions
<1> QED
  BY <1>1, <1>2, Zenon DEF TableInit, TypeOK, Versions

\* What a job becomes.
LEMMA JobType ==
    ASSUME NEW l, WellNamed(l), NEW c, NEW p \in Policies, NEW old \in Versions(l, p),
           c[p] \in Versions(l, p),
           NEW todo, todo \subseteq Names(old \cup c[p]), NEW failed \in BOOLEAN
    PROVE  IsJob(l, c, Worker(p), Job(p, old, c[p], todo, failed))
<1> DEFINE j == Job(p, old, c[p], todo, failed)
<1>1. \A r \in old \cup c[p] : r.name \in RuleNames(l)
  BY VersionRules, RuleFacts, Zenon
<1>2. todo \in SUBSET RuleNames(l)
  BY <1>1, Zenon DEF Names
<1>3. j \in [pol : Policies, old : Versions(l, p), new : Versions(l, p),
             todo : SUBSET RuleNames(l), failed : BOOLEAN]
  BY <1>2, Zenon DEF Job
<1>4. j.pol = p /\ j.old = old /\ j.new = c[p] /\ j.todo = todo
  BY JobFields
<1> HIDE DEF j
<1>5. IsJob(l, c, Worker(p), j)
  BY <1>3, <1>4, Zenon DEF IsJob
<1> QED
  BY <1>5, Zenon DEF j

TableType(l, rules, s) ==
    /\ rules \in [Keys -> [refs : SUBSET RuleNames(l), action : Actions(l)]]
    /\ \A k \in Keys : rules[k] = NoRule \/ rules[k].action # NoAction
    /\ s \in [VDS -> [Keys -> Actions(l)]]

\* A call leaves the other keys alone.
Elsewhere(k) ==
    \A x \in Keys \ {k} : Rules'[x] = Rules[x] /\ \A v \in VDS : sw'[v][x] = sw[v][x]

\* What adding a rule does to its key.
LEMMA AddIs ==
    ASSUME TypeOK, NEW p \in Policies, NEW r \in RulesOf(load, p),
           NEW done \in SUBSET VDS, AddEveroutePolicyRule(r, done)
    PROVE  /\ TableType(load, Rules', sw') /\ faults' \in Nat /\ Elsewhere(r.key)
           /\ done # VDS => load.faults # 0
           /\ \/ /\ Rules[r.key].action = r.action /\ done = VDS /\ sw' = sw
                 /\ Rules'[r.key] = [refs |-> Rules[r.key].refs \cup {r.name},
                                     action |-> r.action]
              \/ /\ Rules[r.key].action # r.action /\ done # VDS /\ Rules' = Rules
                 /\ \A v \in VDS : sw'[v][r.key] \in {sw[v][r.key], r.action}
              \/ /\ Rules[r.key].action # r.action /\ done = VDS
                 /\ Rules'[r.key] = [refs |-> IF Rules[r.key] = NoRule THEN {r.name}
                                              ELSE Rules[r.key].refs,
                                     action |-> r.action]
                 /\ \A v \in VDS : sw'[v][r.key] = r.action
<1> DEFINE k == r.key
<1>1. k \in Keys /\ r.action # NoAction /\ r.name \in RuleNames(load) /\ r.action \in Actions(load)
  BY RuleFacts, Zenon DEF TypeOK, Tolerable
<1>2. /\ Rules \in [Keys -> [refs : SUBSET RuleNames(load), action : Actions(load)]]
      /\ \A x \in Keys : Rules[x] = NoRule \/ Rules[x].action # NoAction
      /\ sw \in [VDS -> [Keys -> Actions(load)]] /\ faults \in Nat /\ load.faults \in Nat
  BY Zenon DEF TypeOK, Tolerable
<1>3. CASE Rules[k].action = r.action
  <2>1. /\ done = VDS /\ sw' = sw /\ faults' = faults
        /\ Rules' = [Rules EXCEPT ![k].refs = @ \cup {r.name}]
    BY <1>3, Zenon DEF AddEveroutePolicyRule
  <2>2. Rules'[k] = [refs |-> Rules[k].refs \cup {r.name}, action |-> r.action]
    BY <1>1, <1>2, <1>3, <2>1, Zenon
  <2>3. \A x \in Keys \ {k} : Rules'[x] = Rules[x]
    BY <1>1, <1>2, <2>1, Zenon
  <2>4. Rules' \in [Keys -> [refs : SUBSET RuleNames(load), action : Actions(load)]]
    BY <1>1, <1>2, <2>1, Zenon
  <2>5. \A x \in Keys : Rules'[x] = NoRule \/ Rules'[x].action # NoAction
    BY <1>1, <1>2, <2>2, <2>3, SMTT(30)
  <2> QED
    BY <1>2, <1>3, <2>1, <2>2, <2>3, <2>4, <2>5, Zenon DEF TableType, Elsewhere
<1>4. CASE Rules[k].action # r.action
  <2>1. /\ Reaches(done) /\ sw' = Set(k, done, r.action)
        /\ Rules' = IF done # VDS THEN Rules
                    ELSE [Rules EXCEPT ![k] =
                           [action |-> r.action,
                            refs |-> IF Rules[k] = NoRule THEN {r.name} ELSE Rules[k].refs]]
    BY <1>1, <1>2, <1>4, Zenon DEF AddEveroutePolicyRule
  <2>2. faults' \in Nat /\ (done # VDS => load.faults # 0)
    BY <1>2, <2>1 DEF Reaches
  <2>3. /\ sw' \in [VDS -> [Keys -> Actions(load)]]
        /\ \A v \in VDS : /\ \A x \in Keys \ {k} : sw'[v][x] = sw[v][x]
                          /\ v \in done => sw'[v][k] = r.action
                          /\ v \notin done => sw'[v] = sw[v]
    BY <1>1, <1>2, <2>1, Zenon DEF Set
  <2>4. CASE done # VDS
    <3>1. \A v \in VDS : sw'[v][k] \in {sw[v][k], r.action}
      BY <2>3, Zenon
    <3> QED
      BY <1>2, <1>4, <2>1, <2>2, <2>3, <2>4, <3>1, Zenon DEF TableType, Elsewhere
  <2>5. CASE done = VDS
    <3> DEFINE e == [action |-> r.action,
                     refs |-> IF Rules[k] = NoRule THEN {r.name} ELSE Rules[k].refs]
    <3>1. Rules' = [Rules EXCEPT ![k] = e]
      BY <2>1, <2>5, Zenon
    <3>2. e \in [refs : SUBSET RuleNames(load), action : Actions(load)] /\ e.action = r.action
      BY <1>1, <1>2, Zenon
    <3>3. e = [refs |-> IF Rules[k] = NoRule THEN {r.name} ELSE Rules[k].refs,
               action |-> r.action]
      BY Zenon
    <3> HIDE DEF e
    <3>4. /\ Rules' \in [Keys -> [refs : SUBSET RuleNames(load), action : Actions(load)]]
          /\ Rules'[k] = e /\ \A x \in Keys \ {k} : Rules'[x] = Rules[x]
      BY <1>1, <1>2, <3>1, <3>2, Zenon
    <3>5. \A x \in Keys : Rules'[x] = NoRule \/ Rules'[x].action # NoAction
      BY <1>1, <1>2, <3>2, <3>4, Zenon
    <3>6. TableType(load, Rules', sw') /\ Elsewhere(k)
      BY <2>3, <3>4, <3>5, Zenon DEF TableType, Elsewhere
    <3> QED
      BY <1>4, <2>2, <2>3, <2>5, <3>3, <3>4, <3>6, Zenon
  <2> QED
    BY <2>4, <2>5, Zenon
<1> QED
  BY <1>3, <1>4, Zenon

\* What removing a rule does to its key.
LEMMA RemoveIs ==
    ASSUME TypeOK, NEW p \in Policies, NEW r \in RulesOf(load, p),
           NEW done \in SUBSET VDS, RemoveEveroutePolicyRule(r, done)
    PROVE  /\ TableType(load, Rules', sw') /\ faults' \in Nat /\ Elsewhere(r.key)
           /\ done # VDS => load.faults # 0
           /\ \/ Rules[r.key] = NoRule /\ done = VDS /\ UNCHANGED <<Rules, sw>>
              \/ /\ Rules[r.key] # NoRule /\ done = VDS /\ sw' = sw
                 /\ r.name \in Rules[r.key].refs /\ Rules[r.key].refs \ {r.name} # {}
                 /\ Rules'[r.key] = [refs |-> Rules[r.key].refs \ {r.name},
                                     action |-> Rules[r.key].action]
              \/ /\ Rules[r.key] # NoRule
                 /\ r.name \notin Rules[r.key].refs \/ Rules[r.key].refs \ {r.name} = {}
                 /\ \A v \in VDS : v \in done => sw'[v][r.key] = NoAction
                 /\ Rules'[r.key] = IF done = VDS /\ Rules[r.key].refs \ {r.name} = {}
                                    THEN NoRule
                                    ELSE [refs |-> Rules[r.key].refs \ {r.name},
                                          action |-> Rules[r.key].action]
<1> DEFINE k == r.key
           entry == [Rules[k] EXCEPT !.refs = Rules[k].refs \ {r.name}]
           e == IF done = VDS /\ entry.refs = {} THEN NoRule ELSE entry
<1>1. k \in Keys /\ NoAction \in Actions(load)
  BY RuleFacts, Zenon DEF TypeOK, Tolerable, Actions
<1>2. /\ Rules \in [Keys -> [refs : SUBSET RuleNames(load), action : Actions(load)]]
      /\ \A x \in Keys : Rules[x] = NoRule \/ Rules[x].action # NoAction
      /\ sw \in [VDS -> [Keys -> Actions(load)]] /\ faults \in Nat /\ load.faults \in Nat
  BY Zenon DEF TypeOK, Tolerable
<1>3. CASE Rules[k] = NoRule
  BY <1>2, <1>3, Zenon DEF RemoveEveroutePolicyRule, TableType, Elsewhere
<1>4. CASE Rules[k] # NoRule
  <2>1. /\ entry = [refs |-> Rules[k].refs \ {r.name}, action |-> Rules[k].action]
        /\ entry.refs = Rules[k].refs \ {r.name} /\ entry.action = Rules[k].action
        /\ entry \in [refs : SUBSET RuleNames(load), action : Actions(load)]
    <3> DEFINE c == Rules[k]
    <3>1. c \in [refs : SUBSET RuleNames(load), action : Actions(load)]
      BY <1>1, <1>2, Zenon
    <3> HIDE DEF c
    <3>2. [c EXCEPT !.refs = c.refs \ {r.name}]
            = [refs |-> c.refs \ {r.name}, action |-> c.action]
      BY <3>1
    <3>3. entry = [refs |-> Rules[k].refs \ {r.name}, action |-> Rules[k].action]
      BY <3>2, Zenon DEF c
    <3> HIDE DEF entry
    <3>4. c.refs \in SUBSET RuleNames(load) /\ c.action \in Actions(load)
      BY <3>1, Zenon
    <3> QED
      BY <3>3, <3>4, Zenon DEF c
  <2>2. /\ \/ /\ r.name \in Rules[k].refs /\ entry.refs # {}
              /\ done = VDS
              /\ UNCHANGED <<sw, faults>>
           \/ /\ r.name \notin Rules[k].refs \/ entry.refs = {}
              /\ Reaches(done)
              /\ sw' = Set(k, done, NoAction)
        /\ Rules' = [Rules EXCEPT ![k] = e]
    BY <1>4, Zenon DEF RemoveEveroutePolicyRule
  <2> HIDE DEF entry
  <2>3. /\ e \in [refs : SUBSET RuleNames(load), action : Actions(load)]
        /\ e = NoRule \/ e.action # NoAction
    BY <1>1, <1>2, <1>4, <2>1, Zenon DEF NoRule
  <2>e. e = IF done = VDS /\ Rules[k].refs \ {r.name} = {} THEN NoRule
            ELSE [refs |-> Rules[k].refs \ {r.name}, action |-> Rules[k].action]
    BY <2>1, Zenon
  <2> HIDE DEF e
  <2>4. /\ Rules' \in [Keys -> [refs : SUBSET RuleNames(load), action : Actions(load)]]
        /\ Rules'[k] = e /\ \A x \in Keys \ {k} : Rules'[x] = Rules[x]
    BY <1>1, <1>2, <2>2, <2>3, Zenon
  <2>5. \A x \in Keys : Rules'[x] = NoRule \/ Rules'[x].action # NoAction
    BY <1>1, <1>2, <2>3, <2>4, Zenon
  <2>6. CASE r.name \in Rules[k].refs /\ entry.refs # {} /\ done = VDS /\ UNCHANGED <<sw, faults>>
    <3>1. TableType(load, Rules', sw') /\ Elsewhere(k)
      BY <1>2, <2>4, <2>5, <2>6, Zenon DEF TableType, Elsewhere
    <3> QED
      BY <1>2, <1>4, <2>1, <2>e, <2>4, <2>6, <3>1, Zenon
  <2>7. CASE /\ r.name \notin Rules[k].refs \/ entry.refs = {}
             /\ Reaches(done)
             /\ sw' = Set(k, done, NoAction)
    <3>1. faults' \in Nat /\ (done # VDS => load.faults # 0)
      BY <1>2, <2>7 DEF Reaches
    <3>2. /\ sw' \in [VDS -> [Keys -> Actions(load)]]
          /\ \A v \in VDS : /\ \A x \in Keys \ {k} : sw'[v][x] = sw[v][x]
                            /\ v \in done => sw'[v][k] = NoAction
      BY <1>1, <1>2, <2>7, Zenon DEF Set
    <3>3. TableType(load, Rules', sw') /\ Elsewhere(k)
      BY <2>4, <2>5, <3>2, Zenon DEF TableType, Elsewhere
    <3> QED
      BY <1>4, <2>1, <2>e, <2>4, <2>7, <3>1, <3>2, <3>3, Zenon
  <2> QED
    BY <2>2, <2>6, <2>7, Zenon
<1> QED
  BY <1>3, <1>4, Zenon

\* One rule name of a pass.
LEMMA ProcessIs ==
    ASSUME TypeOK, NEW w \in Workers, NEW n, NEW done \in SUBSET VDS,
           Process(w, n, done), load' = load
    PROVE  LET j == job[w] IN
           /\ TableType(load, Rules', sw') /\ faults' \in Nat
           /\ fresh' = fresh /\ cur' = cur /\ gaveUp' = gaveUp
           /\ j # Idle /\ n \in j.todo
           /\ job' = [job EXCEPT ![w] =
                        Job(j.pol, j.old, j.new, j.todo \ {n}, j.failed \/ done # VDS)]
           /\ done # VDS => load.faults # 0
           /\ \E r \in j.old \cup j.new : r.name = n /\ Elsewhere(r.key)
<1> DEFINE j == job[w]
           new == {r \in j.new : r.name = n}
           old == {r \in j.old : r.name = n}
<1>1. /\ j # Idle /\ n \in j.todo
      /\ fresh' = fresh /\ cur' = cur /\ gaveUp' = gaveUp
      /\ job' = [job EXCEPT ![w] =
                   Job(j.pol, j.old, j.new, j.todo \ {n}, j.failed \/ done # VDS)]
  BY Zenon DEF Process
<1>2. \/ new # {} /\ new = old /\ done = VDS /\ UNCHANGED <<Rules, sw, faults>>
      \/ \E r \in new : r \notin old /\ AddEveroutePolicyRule(r, done)
      \/ \E r \in old : new = {} /\ RemoveEveroutePolicyRule(r, done)
  BY Zenon DEF Process
<1>3. j.pol \in Policies /\ \A r \in j.old \cup j.new : r \in RulesOf(load, j.pol)
  BY <1>1, JobFacts, Zenon
<1>4. CASE new # {} /\ new = old /\ done = VDS /\ UNCHANGED <<Rules, sw, faults>>
  <2>1. TableType(load, Rules', sw') /\ faults' \in Nat
    BY <1>4, Zenon DEF TypeOK, TableType
  <2>2. \E r \in j.new : r.name = n
    BY <1>4, Zenon
  <2>3. \A k : Elsewhere(k)
    BY <1>4, Zenon DEF Elsewhere
  <2> QED
    BY <1>1, <1>4, <2>1, <2>2, <2>3, Zenon
<1>5. CASE \E r \in new : r \notin old /\ AddEveroutePolicyRule(r, done)
  <2>1. PICK r \in new : r \notin old /\ AddEveroutePolicyRule(r, done)
    BY <1>5, Zenon
  <2>2. r \in RulesOf(load, j.pol) /\ r.name = n /\ r \in j.new
    BY <1>3, Zenon
  <2>3. /\ TableType(load, Rules', sw') /\ faults' \in Nat /\ Elsewhere(r.key)
        /\ done # VDS => load.faults # 0
    BY <1>3, <2>1, <2>2, AddIs, ZenonT(60)
  <2> QED
    BY <1>1, <2>2, <2>3, Zenon
<1>6. CASE \E r \in old : new = {} /\ RemoveEveroutePolicyRule(r, done)
  <2>1. PICK r \in old : new = {} /\ RemoveEveroutePolicyRule(r, done)
    BY <1>6, Zenon
  <2>2. r \in RulesOf(load, j.pol) /\ r.name = n /\ r \in j.old
    BY <1>3, Zenon
  <2>3. /\ TableType(load, Rules', sw') /\ faults' \in Nat /\ Elsewhere(r.key)
        /\ done # VDS => load.faults # 0
    BY <1>3, <2>1, <2>2, RemoveIs, Zenon
  <2> QED
    BY <1>1, <2>2, <2>3, Zenon
<1> QED
  BY <1>2, <1>4, <1>5, <1>6, Zenon

LEMMA StepType ==
    ASSUME TypeOK, [TableNext]_tableVars
    PROVE  TypeOK'
<1>1. CASE UNCHANGED tableVars
  BY <1>1, Zenon DEF TypeOK, tableVars, IsJob, Tolerable
<1> SUFFICES ASSUME TableNext PROVE TypeOK'
  BY <1>1, Zenon
<1>l. load' = load /\ WellNamed(load)
  BY Zenon DEF TableNext, TypeOK, Tolerable
<1>2. ASSUME NEW p \in Policies, NEW new \in load.rules[p], StartSync(p, new)
      PROVE  TypeOK'
  <2> DEFINE j == Job(p, cur[p], new, Names(cur[p] \cup new), FALSE)
  <2>1. /\ UNCHANGED <<Rules, sw, fresh, gaveUp, faults>>
        /\ cur' = [cur EXCEPT ![p] = new] /\ job[Worker(p)] = Idle
        /\ job' = [job EXCEPT ![Worker(p)] = j]
    BY <1>2, Zenon DEF StartSync
  <2>2. DOMAIN cur' = Policies /\ \A q \in Policies : cur'[q] \in Versions(load, q)
    BY <2>1, Zenon DEF TypeOK, Versions
  <2>3. cur'[p] = new /\ cur[p] \in Versions(load, p)
    BY <2>1, Zenon DEF TypeOK
  <2>4. IsJob(load, cur', Worker(p), j)
    BY <1>l, <2>2, <2>3, JobType, Zenon
  <2>5. ASSUME NEW w \in Workers, job'[w] # Idle
        PROVE  IsJob(load, cur', w, job'[w])
    <3>1. CASE w = Worker(p)
      BY <2>1, <2>4, <3>1, Zenon DEF TypeOK
    <3>2. CASE w # Worker(p)
      <4>1. job'[w] = job[w]
        BY <2>1, <3>2, Zenon DEF TypeOK
      <4>2. job[w].pol # p
        BY <2>5, <3>2, <4>1, JobFacts, Zenon
      <4>3. cur'[job[w].pol] = cur[job[w].pol]
        BY <2>1, <4>2 DEF TypeOK
      <4> QED
        BY <2>5, <4>1, <4>3, JobFacts, Zenon DEF IsJob
    <3> QED
      BY <3>1, <3>2, Zenon
  <2> QED
    BY <1>l, <2>1, <2>2, <2>5, Zenon DEF TypeOK
<1>j. ASSUME NEW w \in Workers, job[w] # Idle, NEW todo,
             todo \subseteq Names(job[w].old \cup job[w].new), NEW failed \in BOOLEAN
      PROVE  IsJob(load, cur, w, Job(job[w].pol, job[w].old, job[w].new, todo, failed))
  <2>1. /\ job[w].pol \in Policies /\ Worker(job[w].pol) = w /\ job[w].new = cur[job[w].pol]
        /\ job[w].old \in Versions(load, job[w].pol) /\ job[w].new \in Versions(load, job[w].pol)
    BY <1>j, JobFacts, Zenon DEF IsJob
  <2> HIDE DEF TypeOK
  <2>2. IsJob(load, cur, Worker(job[w].pol),
              Job(job[w].pol, job[w].old, cur[job[w].pol], todo, failed))
    BY <1>l, <1>j, <2>1, JobType, Zenon
  <2> QED
    BY <2>1, <2>2, Zenon
\* Whatever becomes of one worker's job, while the policies stay as they are.
<1>k. ASSUME NEW w \in Workers, NEW j, j = Idle \/ IsJob(load, cur, w, j),
             job' = [job EXCEPT ![w] = j], cur' = cur
      PROVE  /\ DOMAIN job' = Workers
             /\ \A x \in Workers : job'[x] = Idle \/ IsJob(load, cur', x, job'[x])
  BY <1>k, Zenon DEF TypeOK
<1>3. ASSUME NEW w \in Workers, NEW n \in job[w].todo, NEW done \in SUBSET VDS,
             Process(w, n, done)
      PROVE  TypeOK'
  <2> DEFINE j == Job(job[w].pol, job[w].old, job[w].new, job[w].todo \ {n},
                      job[w].failed \/ done # VDS)
  <2>1. /\ TableType(load, Rules', sw') /\ faults' \in Nat
        /\ fresh' = fresh /\ cur' = cur /\ gaveUp' = gaveUp
        /\ job[w] # Idle /\ job' = [job EXCEPT ![w] = j]
    BY <1>l, <1>3, ProcessIs, ZenonT(60)
  <2>2. IsJob(load, cur, w, j)
    <3>1. /\ job[w].todo \ {n} \subseteq Names(job[w].old \cup job[w].new)
          /\ (job[w].failed \/ done # VDS) \in BOOLEAN
      BY <2>1, JobFacts, Zenon
    <3> QED
      BY <1>j, <2>1, <3>1, Zenon
  <2> HIDE DEF j
  <2>3. /\ DOMAIN job' = Workers
        /\ \A x \in Workers : job'[x] = Idle \/ IsJob(load, cur', x, job'[x])
    BY <1>k, <2>1, <2>2, Zenon
  <2> QED
    BY <1>l, <2>1, <2>3, Zenon DEF TypeOK, TableType
<1>4. ASSUME NEW w \in Workers, EndPass(w)
      PROVE  TypeOK'
  <2> DEFINE j == IF job[w].failed
                  THEN Job(job[w].pol, job[w].old, job[w].new,
                           Names(job[w].old \cup job[w].new), FALSE)
                  ELSE Idle
  <2>1. /\ UNCHANGED <<Rules, sw, fresh, cur, gaveUp, faults>>
        /\ job[w] # Idle /\ job' = [job EXCEPT ![w] = j]
    BY <1>4, Zenon DEF EndPass
  <2>2. j = Idle \/ IsJob(load, cur, w, j)
    BY <1>j, <2>1, Zenon
  <2> HIDE DEF j
  <2>3. /\ DOMAIN job' = Workers
        /\ \A x \in Workers : job'[x] = Idle \/ IsJob(load, cur', x, job'[x])
    BY <1>k, <2>1, <2>2, Zenon
  <2> QED
    BY <1>l, <2>1, <2>3, Zenon DEF TypeOK
<1>5. ASSUME NEW w \in Workers, GiveUp(w)
      PROVE  TypeOK'
  <2>1. /\ UNCHANGED <<Rules, sw, fresh, cur, faults>> /\ gaveUp' = TRUE
        /\ job' = [job EXCEPT ![w] = Idle]
    BY <1>5, Zenon DEF GiveUp
  <2>2. /\ DOMAIN job' = Workers
        /\ \A x \in Workers : job'[x] = Idle \/ IsJob(load, cur', x, job'[x])
    BY <1>k, <2>1, Zenon
  <2> QED
    BY <1>l, <2>1, <2>2, Zenon DEF TypeOK
<1>6. ASSUME NEW v \in VDS, SwitchRestart(v) \/ ReplayRules(v)
      PROVE  TypeOK'
  <2>1. UNCHANGED <<Rules, cur, job, gaveUp, faults>>
    BY <1>6, Zenon DEF SwitchRestart, ReplayRules
  <2>2. sw' \in [VDS -> [Keys -> Actions(load)]] /\ fresh' \in SUBSET VDS
    <3>1. CASE SwitchRestart(v)
      BY <3>1, Zenon DEF SwitchRestart, TypeOK, Actions
    <3>2. CASE ReplayRules(v)
      <4> DEFINE g == [k \in Keys |-> IF Rules[k] = NoRule THEN sw[v][k] ELSE Rules[k].action]
      <4>1. sw' = [sw EXCEPT ![v] = g] /\ fresh' = fresh \cup {v}
        BY <3>2, Zenon DEF ReplayRules, TypeOK
      <4>2. g \in [Keys -> Actions(load)]
        BY Zenon DEF TypeOK
      <4> HIDE DEF g
      <4> QED
        BY <4>1, <4>2, Zenon DEF TypeOK
    <3> QED
      BY <1>6, <3>1, <3>2, Zenon
  <2> QED
    BY <1>l, <2>1, <2>2, Zenon DEF TypeOK
<1> QED
  BY <1>2, <1>3, <1>4, <1>5, <1>6, Zenon DEF TableNext

------------------------------------------------------------------------------
(* While every call gets through.                                             *)

LEMMA HoldsFacts ==
    ASSUME TypeOK, NEW p \in Policies, NEW r \in Holds(p)
    PROVE  r \in RulesOf(load, p)
<1>1. CASE Busy(p)
  BY <1>1, JobFacts, WorkerType, Zenon DEF Busy, Holds
<1>2. CASE ~Busy(p)
  BY <1>2, CurFacts, Zenon DEF Holds
<1> QED
  BY <1>1, <1>2, Zenon

\* The rules that are held come and go with the names that are dealt with.
LEMMA ProcessHeld ==
    ASSUME TypeOK, NEW w \in Workers, job[w] # Idle, NEW n \in job[w].todo, NEW failed,
           cur' = cur,
           job' = [job EXCEPT ![w] = Job(job[w].pol, job[w].old, job[w].new,
                                         job[w].todo \ {n}, failed)]
    PROVE  /\ Held' = {r \in Held : r.name # n} \cup {r \in job[w].new : r.name = n}
           /\ {r \in Held : r.name = n} = {r \in job[w].old : r.name = n}
<1> DEFINE j == job[w]
<1>p. PICK p \in Policies : p = j.pol
  BY JobFacts, Zenon
<1>1. /\ p = j.pol /\ p \in Policies /\ Worker(p) = w
      /\ \A r \in j.old \cup j.new : r \in RulesOf(load, p)
      /\ n \in Names(j.old \cup j.new)
  BY <1>p, JobFacts, Zenon
<1>2. PICK s \in j.old \cup j.new : s.name = n
  BY <1>1, Zenon DEF Names
<1>3. /\ job'[w] # Idle /\ job'[w].pol = p /\ job'[w].old = j.old /\ job'[w].new = j.new
      /\ job'[w].todo = j.todo \ {n}
      /\ \A x \in Workers \ {w} : job'[x] = job[x]
  <2> DEFINE d == Job(p, j.old, j.new, j.todo \ {n}, failed)
  <2>1. d # Idle /\ d.pol = p /\ d.old = j.old /\ d.new = j.new /\ d.todo = j.todo \ {n}
    BY JobFields, SMTT(30)
  <2>2. job' = [job EXCEPT ![w] = d] /\ DOMAIN job = Workers
    BY <1>1, Zenon DEF TypeOK
  <2> HIDE DEF d
  <2> QED
    BY <2>1, <2>2, Zenon
<1> HIDE DEF j
<1>4. ASSUME NEW q \in Policies, q # p
      PROVE  Holds(q)' = Holds(q) /\ \A r \in Holds(q) : r.name # n
  <2>1. \A r \in Holds(q) : r.name # n
    BY <1>1, <1>2, <1>4, HoldsFacts, NameFacts, SMTT(30)
  <2>2. CASE Worker(q) = w
    BY <1>1, <1>3, <1>4, <2>1, <2>2, Zenon DEF Holds, Busy, j
  <2>3. CASE Worker(q) # w
    <3>1. job'[Worker(q)] = job[Worker(q)]
      BY <1>3, <2>3, WorkerType, Zenon
    <3> QED
      BY <2>1, <3>1, Zenon DEF Holds, Busy
  <2> QED
    BY <2>2, <2>3, Zenon
<1>5. /\ Holds(p) = {r \in j.new : r.name \notin j.todo} \cup {r \in j.old : r.name \in j.todo}
      /\ Holds(p)' = {r \in j.new : r.name \notin j.todo \ {n}}
                       \cup {r \in j.old : r.name \in j.todo \ {n}}
  BY <1>1, <1>3, Zenon DEF Holds, Busy, j
<1>6. n \in j.todo
  BY Zenon DEF j
<1>7. /\ Holds(p)' = {r \in Holds(p) : r.name # n} \cup {r \in j.new : r.name = n}
      /\ {r \in Holds(p) : r.name = n} = {r \in j.old : r.name = n}
  BY <1>5, <1>6, Zenon
<1>8. ASSUME NEW r
      PROVE  /\ r \in Held' <=> r \in {x \in Held : x.name # n} \cup {x \in j.new : x.name = n}
             /\ r \in {x \in Held : x.name = n} <=> r \in {x \in j.old : x.name = n}
  <2>1. r \in Held <=> \E q \in Policies : r \in Holds(q)
    BY Zenon DEF Held
  <2>2. r \in Held' <=> \E q \in Policies : r \in Holds(q)'
    BY Zenon DEF Held
  <2>3. r \in Holds(p)' <=> (r \in Holds(p) /\ r.name # n) \/ (r \in j.new /\ r.name = n)
    BY <1>7, Zenon
  <2>4. (r \in Holds(p) /\ r.name = n) <=> (r \in j.old /\ r.name = n)
    BY <1>7, Zenon
  <2>5. \A q \in Policies \ {p} : (r \in Holds(q)' <=> r \in Holds(q)) /\ (r \in Holds(q) => r.name # n)
    BY <1>4, Zenon
  <2>6. r \in Held' <=> (r \in Held /\ r.name # n) \/ (r \in j.new /\ r.name = n)
    BY <1>1, <2>1, <2>2, <2>3, <2>5, Zenon
  <2>7. (r \in Held /\ r.name = n) <=> (r \in j.old /\ r.name = n)
    BY <1>1, <2>1, <2>4, <2>5, Zenon
  <2> QED
    BY <2>6, <2>7, Zenon
<1> QED
  BY <1>8, Zenon DEF j

\* A key that no rule which comes or goes has stays as it is.
LEMMA CountedElsewhere ==
    ASSUME NEW k \in Keys, Counted(k),
           Rules'[k] = Rules[k], \A v \in VDS : sw'[v][k] = sw[v][k], fresh' = fresh,
           {r \in Held' : r.key = k} = {r \in Held : r.key = k}
    PROVE  Counted(k)'
<1>1. \A r \in Held' : r.key = k => r \in Held
  BY Zenon
<1> QED
  BY <1>1, Zenon DEF Counted

LEMMA CalmProcess ==
    ASSUME TypeOK, CalmInv, ActionsAgree(load), load.faults = 0, load' = load,
           NEW w \in Workers, NEW n, NEW done \in SUBSET VDS, Process(w, n, done)
    PROVE  (\A x \in Workers : job[x] # Idle => ~job[x].failed)' /\ \A k \in Keys : Counted(k)'
<1> DEFINE new == {r \in job[w].new : r.name = n}
           old == {r \in job[w].old : r.name = n}
<1>1. /\ fresh' = fresh /\ cur' = cur
      /\ job[w] # Idle /\ n \in job[w].todo /\ done = VDS
      /\ job' = [job EXCEPT ![w] =
                   Job(job[w].pol, job[w].old, job[w].new, job[w].todo \ {n},
                       job[w].failed \/ done # VDS)]
  BY ProcessIs
<1>2. PICK c \in job[w].old \cup job[w].new : c.name = n /\ Elsewhere(c.key)
  BY ProcessIs, Zenon
<1>3. /\ job[w].pol \in Policies
      /\ \A r \in job[w].old \cup job[w].new : r \in RulesOf(load, job[w].pol)
      /\ \A r, s \in job[w].new : r.name = s.name => r = s
  BY <1>1, JobFacts, Zenon
<1>4. /\ Held' = {r \in Held : r.name # n} \cup new
      /\ {r \in Held : r.name = n} = old
  BY <1>1, ProcessHeld, Zenon
<1>5. \A k \in Keys : Counted(k)
  BY Zenon DEF CalmInv
<1>6. \A r \in Held : \E p \in Policies : r \in RulesOf(load, p)
  BY HoldsFacts, Zenon DEF Held
<1>7. \A x \in Workers : job'[x] # Idle => ~job'[x].failed
  <2>1. ~job[w].failed
    BY <1>1, Zenon DEF CalmInv
  <2> DEFINE d == Job(job[w].pol, job[w].old, job[w].new, job[w].todo \ {n},
                      job[w].failed \/ done # VDS)
  <2>2. ~d.failed
    <3> DEFINE f == job[w].failed \/ done # VDS
    <3>1. f = FALSE
      BY <1>1, <2>1, Zenon
    <3> HIDE DEF f
    <3>2. Job(job[w].pol, job[w].old, job[w].new, job[w].todo \ {n}, f).failed = f
      BY JobFields, SMTT(30)
    <3> QED
      BY <3>1, <3>2, Zenon DEF f
  <2>3. job' = [job EXCEPT ![w] = d] /\ DOMAIN job = Workers
    BY <1>1, Zenon DEF TypeOK
  <2> HIDE DEF d
  <2> QED
    BY <2>2, <2>3, Zenon DEF CalmInv
\* The names of the rules that have the key of this one.
<1>k. /\ c.key \in Keys
      /\ \A r \in old \cup new : r.key = c.key
      /\ \A r \in Held \cup Held' : r.name = n => r.key = c.key
  BY <1>2, <1>3, <1>4, NameFacts, RuleFacts, SMTT(30) DEF TypeOK, Tolerable
<1>8. ASSUME NEW k \in Keys, k # c.key
      PROVE  Counted(k)'
  <2>1. {r \in Held' : r.key = k} = {r \in Held : r.key = k}
    BY <1>4, <1>k, <1>8, Zenon
  <2>2. Rules'[k] = Rules[k] /\ \A v \in VDS : sw'[v][k] = sw[v][k]
    BY <1>2, <1>8, Zenon DEF Elsewhere
  <2> QED
    BY <1>1, <1>5, <2>1, <2>2, CountedElsewhere, Zenon
<1>9. Counted(c.key)
  BY <1>5, <1>k, Zenon
<1>10. ASSUME NEW k \in Keys, k = c.key
       PROVE  Counted(k)'
  <2>1. /\ Rules[k].refs = {r.name : r \in {x \in Held : x.key = k}}
        /\ Rules[k].refs = {} => Rules[k] = NoRule
        /\ \A r \in Held : r.key = k => Rules[k].action = r.action
        /\ \A v \in VDS : sw[v][k] = Rules[k].action \/ (v \notin fresh /\ sw[v][k] = NoAction)
    BY <1>9, <1>10, Zenon DEF Counted
  <2>t. TableType(load, Rules, sw) /\ TableType(load, Rules', sw')
    BY ProcessIs, Zenon DEF TypeOK, TableType
  <2>2. CASE new # {} /\ new = old /\ UNCHANGED <<Rules, sw>>
    <3>1. Held' = Held
      BY <1>4, <2>2, Zenon
    <3> QED
      BY <1>1, <2>1, <2>2, <3>1, Zenon DEF Counted
  <2>3. ASSUME NEW r \in new, r \notin old, AddEveroutePolicyRule(r, done)
        PROVE  Counted(k)'
    <3>1. /\ r \in RulesOf(load, job[w].pol) /\ r.name = n /\ r.key = k /\ new = {r}
          /\ r.action # NoAction
      BY <1>3, <1>k, <1>10, <2>3, RuleFacts, Zenon DEF TypeOK, Tolerable
    <3>2. \/ /\ Rules[k].action = r.action /\ sw' = sw
             /\ Rules'[k] = [refs |-> Rules[k].refs \cup {n}, action |-> r.action]
          \/ /\ Rules[k].action # r.action
             /\ Rules'[k] = [refs |-> IF Rules[k] = NoRule THEN {n} ELSE Rules[k].refs,
                             action |-> r.action]
             /\ \A v \in VDS : sw'[v][k] = r.action
      <4>1. \/ /\ Rules[r.key].action = r.action /\ done = VDS /\ sw' = sw
               /\ Rules'[r.key] = [refs |-> Rules[r.key].refs \cup {r.name},
                                   action |-> r.action]
            \/ /\ Rules[r.key].action # r.action /\ done # VDS /\ Rules' = Rules
               /\ \A v \in VDS : sw'[v][r.key] \in {sw[v][r.key], r.action}
            \/ /\ Rules[r.key].action # r.action /\ done = VDS
               /\ Rules'[r.key] = [refs |-> IF Rules[r.key] = NoRule THEN {r.name}
                                            ELSE Rules[r.key].refs,
                                   action |-> r.action]
               /\ \A v \in VDS : sw'[v][r.key] = r.action
        BY <1>3, <2>3, <3>1, AddIs, Zenon
      <4> QED
        BY <1>1, <3>1, <4>1, Zenon
    <3>3. \A x \in Held' : x \in Held \/ x = r
      BY <1>4, <3>1, Zenon
    <3>4. CASE /\ Rules[k].action = r.action /\ sw' = sw
               /\ Rules'[k] = [refs |-> Rules[k].refs \cup {n}, action |-> r.action]
      <4>1. Rules'[k].refs = {x.name : x \in {y \in Held' : y.key = k}}
        <5>1. \A m : m \in Rules[k].refs <=> \E x \in Held : x.key = k /\ x.name = m
          BY <2>1, Zenon
        <5>2. \A x : x \in Held' <=> (x \in Held /\ x.name # n) \/ x = r
          BY <1>4, <3>1, Zenon
        <5>3. \A m : m \in Rules[k].refs \cup {n} <=> \E x \in Held' : x.key = k /\ x.name = m
          BY <3>1, <5>1, <5>2, ZenonT(60)
        <5>4. Rules'[k].refs = Rules[k].refs \cup {n}
          BY <3>4, SMTT(30)
        <5> QED
          BY <5>3, <5>4, Zenon
      <4>2. \A x \in Held' : x.key = k => Rules'[k].action = x.action
        BY <2>1, <3>3, <3>4, SMTT(30)
      <4>3. Rules'[k].refs # {} /\ Rules'[k].action = Rules[k].action
        BY <3>4, SMTT(30)
      <4> QED
        BY <1>1, <2>1, <3>4, <4>1, <4>2, <4>3, Zenon DEF Counted
    <3>5. CASE /\ Rules[k].action # r.action
               /\ Rules'[k] = [refs |-> IF Rules[k] = NoRule THEN {n} ELSE Rules[k].refs,
                               action |-> r.action]
               /\ \A v \in VDS : sw'[v][k] = r.action
      <4>1. \A x \in Held : x.key = k => x.name = n
        <5> SUFFICES ASSUME NEW x \in Held, x.key = k PROVE x.name = n
          BY Zenon
        <5>1. PICK q \in Policies : x \in RulesOf(load, q)
          BY <1>6, Zenon
        <5>2. x.action # r.action
          BY <2>1, <3>5, Zenon
        <5> QED
          BY <1>3, <3>1, <5>1, <5>2, SMTT(30) DEF ActionsAgree
      <4>2. Rules'[k].refs = {n} /\ Rules'[k].action = r.action
        <5>1. CASE Rules[k] = NoRule
          BY <3>5, <5>1
        <5>2. CASE Rules[k] # NoRule
          <6>1. Rules[k].refs = {n}
            BY <2>1, <4>1, <5>2, Zenon
          <6> QED
            BY <3>5, <5>2, <6>1, SMTT(30)
        <5> QED
          BY <5>1, <5>2, Zenon
      <4>3. \A x \in Held' : x.key = k => x = r
        BY <1>4, <3>1, <4>1, Zenon
      <4>4. r \in Held'
        BY <1>4, <2>3, Zenon
      <4>5. Rules'[k].refs = {x.name : x \in {y \in Held' : y.key = k}}
        BY <3>1, <4>2, <4>3, <4>4, Zenon
      <4> QED
        BY <3>5, <4>2, <4>3, <4>5, Zenon DEF Counted
    <3> QED
      BY <3>2, <3>4, <3>5, Zenon
  <2>4. ASSUME NEW r \in old, new = {}, RemoveEveroutePolicyRule(r, done)
        PROVE  Counted(k)'
    <3>1. r \in RulesOf(load, job[w].pol) /\ r.name = n /\ r.key = k /\ r \in Held
      BY <1>3, <1>4, <1>k, <1>10, <2>4, Zenon
    <3>2. n \in Rules[k].refs /\ Rules[k] # NoRule
      BY <2>1, <3>1, SMTT(30) DEF NoRule
    <3>3. \/ /\ sw' = sw /\ Rules[k].refs \ {n} # {}
             /\ Rules'[k] = [refs |-> Rules[k].refs \ {n}, action |-> Rules[k].action]
          \/ /\ Rules[k].refs \ {n} = {} /\ Rules'[k] = NoRule
             /\ \A v \in VDS : sw'[v][k] = NoAction
      BY <1>1, <1>3, <2>4, <3>1, <3>2, RemoveIs, ZenonT(60)
    <3>4. \A x : x \in Held' <=> x \in Held /\ x.name # n
      BY <1>4, <2>4, Zenon
    <3>5. {x.name : x \in {y \in Held' : y.key = k}} = Rules[k].refs \ {n}
      BY <2>1, <3>4, Zenon
    <3>6. CASE /\ sw' = sw /\ Rules[k].refs \ {n} # {}
               /\ Rules'[k] = [refs |-> Rules[k].refs \ {n}, action |-> Rules[k].action]
      <4>1. Rules'[k].refs = Rules[k].refs \ {n} /\ Rules'[k].action = Rules[k].action
        BY <3>6
      <4> QED
        BY <1>1, <2>1, <3>4, <3>5, <3>6, <4>1, Zenon DEF Counted
    <3>7. CASE /\ Rules[k].refs \ {n} = {} /\ Rules'[k] = NoRule
               /\ \A v \in VDS : sw'[v][k] = NoAction
      <4>1. Rules'[k].refs = {} /\ Rules'[k].action = NoAction
        BY <3>7 DEF NoRule
      <4>2. \A x \in Held' : x.key # k
        BY <3>5, <3>7, SMTT(30)
      <4> QED
        BY <3>5, <3>7, <4>1, <4>2, Zenon DEF Counted
    <3> QED
      BY <3>3, <3>6, <3>7, Zenon
  <2>5. \/ new # {} /\ new = old /\ done = VDS /\ UNCHANGED <<Rules, sw, faults>>
        \/ \E r \in new : r \notin old /\ AddEveroutePolicyRule(r, done)
        \/ \E r \in old : new = {} /\ RemoveEveroutePolicyRule(r, done)
    BY Zenon DEF Process
  <2> QED
    BY <2>2, <2>3, <2>4, <2>5, Zenon
<1> QED
  BY <1>7, <1>8, <1>10, Zenon

LEMMA CalmStep ==
    ASSUME TypeOK, TypeOK', CalmInv, [TableNext]_tableVars
    PROVE  CalmInv'
<1>1. CASE UNCHANGED tableVars
  <2>1. UNCHANGED <<load, Rules, sw, fresh, cur, job>>
    BY <1>1, Zenon DEF tableVars
  <2>2. Held' = Held
    BY <2>1, SMTT(30) DEF Held, Holds, Busy
  <2>3. \A k : Counted(k)' <=> Counted(k)
    BY <2>1, <2>2, Zenon DEF Counted
  <2> QED
    BY <2>1, <2>3 DEF CalmInv, ActionsAgree, RulesOf
<1> SUFFICES ASSUME TableNext, ActionsAgree(load), load.faults = 0
             PROVE  /\ \A w \in Workers : job'[w] # Idle => ~job'[w].failed
                    /\ \A k \in Keys : Counted(k)'
  <2>1. ASSUME TableNext PROVE load' = load
    BY <2>1, Zenon DEF TableNext
  <2> QED
    BY <1>1, <2>1, Zenon DEF CalmInv
<1>l. load' = load
  BY Zenon DEF TableNext
<1>c. /\ \A w \in Workers : job[w] # Idle => ~job[w].failed
      /\ \A k \in Keys : Counted(k)
  BY Zenon DEF CalmInv
<1>2. ASSUME NEW p \in Policies, NEW new \in load.rules[p], StartSync(p, new)
      PROVE  /\ \A w \in Workers : job'[w] # Idle => ~job'[w].failed
             /\ \A k \in Keys : Counted(k)'
  <2> DEFINE j == Job(p, cur[p], new, Names(cur[p] \cup new), FALSE)
  <2>1. /\ UNCHANGED <<Rules, sw, fresh>>
        /\ cur' = [cur EXCEPT ![p] = new] /\ job[Worker(p)] = Idle
        /\ job' = [job EXCEPT ![Worker(p)] = j]
    BY <1>2, Zenon DEF StartSync
  <2>2. /\ j # Idle /\ j.pol = p /\ j.old = cur[p] /\ j.new = new
        /\ j.todo = Names(cur[p] \cup new) /\ j.failed = FALSE
    BY NotIdle, Zenon DEF Job
  <2> HIDE DEF j
  <2>3. /\ job'[Worker(p)] = j /\ \A x \in Workers \ {Worker(p)} : job'[x] = job[x]
        /\ cur'[p] = new /\ \A q \in Policies \ {p} : cur'[q] = cur[q]
    BY <2>1, WorkerType, Zenon DEF TypeOK
  <2>4. \A w \in Workers : job'[w] # Idle => ~job'[w].failed
    BY <1>c, <2>2, <2>3, Zenon
  <2>5. Holds(p)' = Holds(p)
    <3>1. Holds(p) = cur[p]
      BY <2>1, Zenon DEF Holds, Busy
    <3>2. Holds(p)' = {r \in new : r.name \notin j.todo} \cup {r \in cur[p] : r.name \in j.todo}
      BY <2>2, <2>3, Zenon DEF Holds, Busy
    <3> QED
      BY <2>2, <3>1, <3>2, SMTT(30) DEF Names
  <2>6. ASSUME NEW q \in Policies, q # p
        PROVE  Holds(q)' = Holds(q)
    <3>1. CASE Worker(q) = Worker(p)
      BY <2>1, <2>2, <2>3, <2>6, <3>1, SMTT(30) DEF Holds, Busy
    <3>2. CASE Worker(q) # Worker(p)
      <4>1. job'[Worker(q)] = job[Worker(q)] /\ cur'[q] = cur[q]
        BY <2>3, <2>6, <3>2, WorkerType, Zenon
      <4> QED
        BY <4>1, Zenon DEF Holds, Busy
    <3> QED
      BY <3>1, <3>2, Zenon
  <2>7. Held' = Held
    <3>1. \A q \in Policies : Holds(q)' = Holds(q)
      BY <2>5, <2>6, Zenon
    <3> QED
      BY <3>1, Zenon DEF Held
  <2> QED
    BY <1>c, <2>1, <2>4, <2>7, Zenon DEF Counted
<1>3. ASSUME NEW w \in Workers, NEW n \in job[w].todo, NEW done \in SUBSET VDS,
             Process(w, n, done)
      PROVE  /\ \A x \in Workers : job'[x] # Idle => ~job'[x].failed
             /\ \A k \in Keys : Counted(k)'
  BY <1>l, <1>3, CalmProcess, Zenon
<1>4. ASSUME NEW w \in Workers, EndPass(w)
      PROVE  /\ \A x \in Workers : job'[x] # Idle => ~job'[x].failed
             /\ \A k \in Keys : Counted(k)'
  <2>1. /\ UNCHANGED <<Rules, sw, fresh, cur>> /\ job[w] # Idle /\ job[w].todo = {}
        /\ job' = [job EXCEPT ![w] = Idle]
    BY <1>c, <1>4, Zenon DEF EndPass
  <2>2. job'[w] = Idle /\ \A x \in Workers \ {w} : job'[x] = job[x]
    BY <2>1, Zenon DEF TypeOK
  <2>3. ASSUME NEW q \in Policies
        PROVE  Holds(q)' = Holds(q)
    <3>1. CASE Worker(q) # w
      <4>1. job'[Worker(q)] = job[Worker(q)]
        BY <2>2, <3>1, WorkerType, Zenon
      <4> QED
        BY <2>1, <4>1, Zenon DEF Holds, Busy
    <3>2. CASE Worker(q) = w
      <4>1. Holds(q)' = cur[q]
        BY <2>1, <2>2, <3>2, Zenon DEF Holds, Busy
      <4>2. job[w].pol = q => job[w].new = cur[q]
        BY <2>1, JobFacts, Zenon
      <4> QED
        BY <2>1, <3>2, <4>1, <4>2, Zenon DEF Holds, Busy
    <3> QED
      BY <3>1, <3>2, Zenon
  <2>4. Held' = Held
    BY <2>3, Zenon DEF Held
  <2> QED
    BY <1>c, <2>1, <2>2, <2>4, Zenon DEF Counted
<1>5. ASSUME NEW w \in Workers, GiveUp(w)
      PROVE  FALSE
  BY <1>c, <1>5, Zenon DEF GiveUp
<1>6. ASSUME NEW v \in VDS, SwitchRestart(v) \/ ReplayRules(v)
      PROVE  /\ \A x \in Workers : job'[x] # Idle => ~job'[x].failed
             /\ \A k \in Keys : Counted(k)'
  <2>1. UNCHANGED <<Rules, cur, job>>
    BY <1>6, Zenon DEF SwitchRestart, ReplayRules
  <2>2. Held' = Held
    BY <2>1, SMTT(30) DEF Held, Holds, Busy
  <2>3. ASSUME NEW k \in Keys, NEW u \in VDS
        PROVE  sw'[u][k] = Rules[k].action \/ (u \notin fresh' /\ sw'[u][k] = NoAction)
    <3>0. sw[u][k] = Rules[k].action \/ (u \notin fresh /\ sw[u][k] = NoAction)
      BY <1>c, Zenon DEF Counted
    <3>1. CASE SwitchRestart(v)
      BY <3>0, <3>1, Zenon DEF SwitchRestart, TypeOK
    <3>2. CASE ReplayRules(v)
      <4> DEFINE g == [x \in Keys |-> IF Rules[x] = NoRule THEN sw[v][x] ELSE Rules[x].action]
      <4>1. sw' = [sw EXCEPT ![v] = g] /\ fresh' = fresh \cup {v}
        BY <3>2, Zenon DEF ReplayRules, TypeOK
      <4>2. u = v => g[k] = Rules[k].action
        BY <3>0 DEF NoRule
      <4> HIDE DEF g
      <4> QED
        BY <3>0, <4>1, <4>2, Zenon DEF TypeOK
    <3> QED
      BY <1>6, <3>1, <3>2, Zenon
  <2> QED
    BY <1>c, <2>1, <2>2, <2>3, Zenon DEF Counted
<1> QED
  BY <1>2, <1>3, <1>4, <1>5, <1>6, Zenon DEF TableNext

------------------------------------------------------------------------------
(* While no two rules share a flow.                                           *)

\* Then a rule's key tells its policy and its name too.
LEMMA KeyFacts ==
    ASSUME TypeOK, Unshared(load), NEW p \in Policies, NEW q \in Policies,
           NEW r \in RulesOf(load, p), NEW s \in RulesOf(load, q), r.key = s.key
    PROVE  p = q /\ r.name = s.name
BY NameFacts DEF Unshared

LEMMA WantIs ==
    ASSUME TypeOK, Unshared(load), NEW p \in Policies, NEW r \in RulesOf(load, p)
    PROVE  Want(r.key) = {s \in cur[p] : s.name = r.name}
<1>1. ASSUME NEW s \in Want(r.key)
      PROVE  s \in cur[p] /\ s.name = r.name
  <2>1. PICK q \in Policies : s \in cur[q] /\ s.key = r.key
    BY Zenon DEF Want
  <2> QED
    BY <2>1, CurFacts, KeyFacts
<1>2. ASSUME NEW s \in cur[p], s.name = r.name
      PROVE  s \in Want(r.key)
  BY <1>2, CurFacts, NameFacts, ZenonT(60) DEF Want
<1> QED
  BY <1>1, <1>2, Zenon

LEMMA GoodKept ==
    ASSUME NEW k, Good(k), Rules'[k] = Rules[k], \A v \in VDS : sw'[v][k] = sw[v][k],
           fresh' = fresh, fresh \subseteq VDS, Want(k)' = Want(k)
    PROVE  Good(k)'
BY Zenon DEF Good

LEMMA PendingKept ==
    ASSUME NEW w, job'[w].new = job[w].new, job'[w].old = job[w].old, NEW r,
           Rules'[r.key] = Rules[r.key], Good(r.key) => Good(r.key)', Pending(job[w], r)
    PROVE  Pending(job[w], r)'
BY Zenon DEF Pending

\* The key of a rule is up to the job of its policy alone.
LEMMA UntouchedBy ==
    ASSUME TypeOK, Unshared(load), NEW p \in Policies, NEW r \in RulesOf(load, p),
           \/ job[Worker(p)] = Idle
           \/ job[Worker(p)].pol # p
           \/ ~job[Worker(p)].failed /\ r.name \notin job[Worker(p)].todo
    PROVE  Untouched(r.key)
<1> SUFFICES ASSUME NEW w \in Workers, job[w] # Idle,
                    NEW s \in job[w].old \cup job[w].new, s.key = r.key
             PROVE  ~job[w].failed /\ s.name \notin job[w].todo
  BY Zenon DEF Untouched
<1>1. job[w].pol \in Policies /\ Worker(job[w].pol) = w /\ s \in RulesOf(load, job[w].pol)
  BY JobFacts, Zenon
<1>2. job[w].pol = p /\ s.name = r.name
  BY <1>1, KeyFacts
<1> QED
  BY <1>1, <1>2, Zenon

LEMMA FaultyStart ==
    ASSUME TypeOK, TypeOK', FaultyInv, Unshared(load), ~gaveUp, load' = load,
           NEW p \in Policies, NEW new \in load.rules[p], StartSync(p, new)
    PROVE  /\ \A k \in Keys : Untouched(k)' => Good(k)'
           /\ \A w \in Workers : job'[w] # Idle =>
                \A r \in job'[w].old \cup job'[w].new : Pending(job[w], r)'
<1> DEFINE j == Job(p, cur[p], new, Names(cur[p] \cup new), FALSE)
           W == Worker(p)
<1>1. /\ UNCHANGED <<Rules, sw, fresh>>
      /\ cur' = [cur EXCEPT ![p] = new] /\ job[W] = Idle
      /\ job' = [job EXCEPT ![W] = j]
  BY Zenon DEF StartSync
<1>2. /\ j # Idle /\ j.pol = p /\ j.old = cur[p] /\ j.new = new
      /\ j.todo = Names(cur[p] \cup new)
  BY NotIdle, Zenon DEF Job
<1> HIDE DEF j
<1>3. /\ W \in Workers /\ job'[W] = j /\ \A x \in Workers \ {W} : job'[x] = job[x]
      /\ cur'[p] = new /\ \A q \in Policies \ {p} : cur'[q] = cur[q]
  BY <1>1, WorkerType, Zenon DEF TypeOK
<1>4. /\ cur[p] \in Versions(load, p) /\ new \in Versions(load, p) /\ WellNamed(load)
      /\ fresh \subseteq VDS
  BY Zenon DEF TypeOK, Versions, Tolerable
<1>5. \A r \in cur[p] \cup new : r \in RulesOf(load, p) /\ r.key \in Keys
  BY <1>4, VersionRules, RuleFacts, Zenon
<1>6. /\ \A r, s \in cur[p] : r.name = s.name => r = s
      /\ \A r, s \in new : r.name = s.name => r = s
  <2>1. ASSUME NEW rs \in Versions(load, p), NEW r \in rs, NEW s \in rs, r.name = s.name
        PROVE  r = s
    <3>1. rs \in load.rules[p]
      BY <2>1, VersionRules, Zenon
    <3> QED
      BY <1>4, <2>1, <3>1, Zenon DEF WellNamed
  <2> QED
    BY <1>4, <2>1, Zenon
<1>7. \A k \in Keys : Untouched(k) => Good(k)
  BY Zenon DEF FaultyInv
<1>8. \A r \in cur[p] \cup new : Good(r.key)
  BY <1>1, <1>5, <1>7, UntouchedBy, Zenon
<1>9. ASSUME NEW r \in RulesOf(load, p)
      PROVE  /\ Want(r.key) = {s \in cur[p] : s.name = r.name}
             /\ Want(r.key)' = {s \in new : s.name = r.name}
  <2>1. Want(r.key) = {s \in cur[p] : s.name = r.name}
    BY WantIs, Zenon
  <2>2. \A q \in Policies : \A s \in cur'[q] : s \in RulesOf(load, q)
    BY VersionRules, Zenon DEF TypeOK
  <2>3. ASSUME NEW s
        PROVE  s \in Want(r.key)' <=> s \in new /\ s.name = r.name
    <3>1. s \in Want(r.key)' <=> s.key = r.key /\ \E q \in Policies : s \in cur'[q]
      BY Zenon DEF Want
    <3>2. ASSUME NEW q \in Policies, s \in cur'[q], s.key = r.key
          PROVE  s \in new /\ s.name = r.name
      BY <1>3, <2>2, <3>2, KeyFacts
    <3>3. ASSUME s \in new, s.name = r.name
          PROVE  s.key = r.key /\ s \in cur'[p]
      BY <1>3, <1>5, <3>3, NameFacts
    <3> QED
      BY <3>1, <3>2, <3>3, Zenon
  <2> QED
    BY <2>1, <2>3, Zenon
\* The keys of other policies' rules.
<1>10. ASSUME NEW k, \A r \in cur[p] \cup new : r.key # k
       PROVE  Want(k)' = Want(k)
  <2>1. ASSUME NEW s
        PROVE  s \in Want(k)' <=> s \in Want(k)
    <3>1. s \in Want(k)' <=> s.key = k /\ \E q \in Policies : s \in cur'[q]
      BY Zenon DEF Want
    <3>2. s \in Want(k) <=> s.key = k /\ \E q \in Policies : s \in cur[q]
      BY Zenon DEF Want
    <3> QED
      BY <1>3, <1>10, <3>1, <3>2, Zenon
  <2> QED
    BY <2>1, Zenon
<1>11. ASSUME NEW k \in Keys, Untouched(k)'
       PROVE  Good(k)'
  <2>1. ASSUME NEW r \in cur[p] \cup new, r.key = k PROVE FALSE
    <3>1. r \in job'[W].old \cup job'[W].new /\ r.name \in job'[W].todo /\ job'[W] # Idle
      BY <1>2, <1>3, Zenon DEF Names
    <3> QED
      BY <1>3, <1>11, <2>1, <3>1, Zenon DEF Untouched
  <2>2. Untouched(k)
    BY <1>1, <1>3, <1>11, Zenon DEF Untouched
  <2>3. Want(k)' = Want(k)
    BY <1>10, <2>1, Zenon
  <2> QED
    BY <1>1, <1>4, <1>7, <2>2, <2>3, GoodKept, Zenon
<1>12. ASSUME NEW w \in Workers, w # W, job'[w] # Idle, NEW r \in job'[w].old \cup job'[w].new
       PROVE  Pending(job[w], r)'
  <2>1. job'[w] = job[w]
    BY <1>3, <1>12, Zenon
  <2>2. Pending(job[w], r)
    BY <1>12, <2>1, Zenon DEF FaultyInv
  <2>3. job[w].pol \in Policies /\ job[w].pol # p /\ r \in RulesOf(load, job[w].pol)
    BY <1>12, <2>1, JobFacts, Zenon
  <2>4. \A s \in cur[p] \cup new : s.key # r.key
    BY <1>5, <2>3, KeyFacts, Zenon
  <2>5. Good(r.key) => Good(r.key)'
    BY <1>1, <1>4, <1>10, <2>4, GoodKept, Zenon
  <2> QED
    BY <1>1, <2>1, <2>2, <2>5, PendingKept, Zenon
<1>13. ASSUME NEW r \in cur[p] \cup new
       PROVE  Pending(job[W], r)'
  <2> DEFINE k == r.key
  <2>1. /\ Want(k) = {s \in cur[p] : s.name = r.name}
        /\ Want(k)' = {s \in new : s.name = r.name}
        /\ Good(k)
    BY <1>5, <1>8, <1>9, Zenon
  <2>r. r.action # NoAction /\ r = [name |-> r.name, key |-> k, action |-> r.action]
    BY <1>4, <1>5, RuleFacts, Zenon
  <2>2. ASSUME r \in new, r \in cur[p]
        PROVE  Good(k)'
    <3>1. Want(k)' = Want(k)
      BY <1>6, <2>1, <2>2
    <3> QED
      BY <1>1, <1>4, <2>1, <3>1, GoodKept, Zenon
  <2>3. ASSUME r \in new, r \notin cur[p]
        PROVE  /\ Rules[k] = NoRule \/ Rules[k].refs = {r.name}
               /\ Rules[k].action # r.action
    <3>1. CASE \E s \in cur[p] : s.name = r.name
      <4>1. PICK s \in cur[p] : s.name = r.name
        BY <3>1, Zenon
      <4>2. Rules[k] = [refs |-> {s.name}, action |-> s.action]
        BY <2>1, <4>1, Zenon DEF Good
      <4>3. s.key = k /\ s = [name |-> s.name, key |-> s.key, action |-> s.action]
        BY <1>4, <1>5, <4>1, NameFacts, RuleFacts
      <4>4. s.action # r.action
        BY <2>3, <2>r, <4>1, <4>3, Zenon
      <4> QED
        BY <4>1, <4>2, <4>4
    <3>2. CASE ~\E s \in cur[p] : s.name = r.name
      <4>1. Rules[k] = NoRule
        BY <2>1, <3>2, Zenon DEF Good
      <4> QED
        BY <2>r, <4>1 DEF NoRule
    <3> QED
      BY <3>1, <3>2, Zenon
  <2>4. ASSUME r \in cur[p]
        PROVE  Rules[k].refs = {r.name} /\ Rules[k] # NoRule
    <3>1. Rules[k] = [refs |-> {r.name}, action |-> r.action]
      BY <2>1, <2>4, Zenon DEF Good
    <3> QED
      BY <3>1 DEF NoRule
  <2>5. job'[W].old = cur[p] /\ job'[W].new = new /\ Rules' = Rules
    BY <1>1, <1>2, <1>3, Zenon
  <2> QED
    BY <2>2, <2>3, <2>4, <2>5, Zenon DEF Pending
<1> QED
  BY <1>2, <1>3, <1>11, <1>12, <1>13, Zenon

\* What dealing with a name leaves of its key.
LEMMA FaultyKey ==
    ASSUME TypeOK, FaultyInv, Unshared(load), ~gaveUp, load' = load,
           NEW w \in Workers, NEW n, NEW done \in SUBSET VDS, Process(w, n, done),
           NEW c \in job[w].old \cup job[w].new, c.name = n,
           job'[w].old = job[w].old, job'[w].new = job[w].new
    PROVE  /\ done = VDS => Good(c.key)'
           /\ \A r \in job[w].old \cup job[w].new : r.name = n => Pending(job[w], r)'
<1> DEFINE k == c.key
           new == {r \in job[w].new : r.name = n}
           old == {r \in job[w].old : r.name = n}
<1>1. fresh' = fresh /\ cur' = cur /\ job[w] # Idle
  BY ProcessIs, Zenon
<1>2. /\ job[w].pol \in Policies /\ job[w].new = cur[job[w].pol]
      /\ \A r \in job[w].old \cup job[w].new : r \in RulesOf(load, job[w].pol)
      /\ \A r, s \in job[w].old : r.name = s.name => r = s
      /\ \A r, s \in job[w].new : r.name = s.name => r = s
  BY <1>1, JobFacts, Zenon
<1>3. Want(k) = new /\ Want(k)' = Want(k)
  BY <1>1, <1>2, WantIs DEF Want
<1>4. \A r \in old \cup new : r.key = k /\ r.action # NoAction /\ Pending(job[w], r)
  BY <1>1, <1>2, NameFacts, RuleFacts DEF FaultyInv, TypeOK, Tolerable
<1>5. /\ k \in Keys /\ fresh \subseteq VDS
      /\ Rules[k] = NoRule \/ Rules[k].action # NoAction
  BY <1>2, RuleFacts, Zenon DEF TypeOK, Tolerable
<1>6. CASE new # {} /\ new = old /\ done = VDS /\ UNCHANGED <<Rules, sw, faults>>
  <2>1. Good(k)
    BY <1>4, <1>6, Zenon DEF Pending
  <2>2. Good(k)'
    BY <1>1, <1>3, <1>5, <1>6, <2>1, GoodKept, Zenon
  <2>3. ASSUME NEW r \in job[w].old \cup job[w].new, r.name = n
        PROVE  Pending(job[w], r)'
    <3>1. r.key = k /\ Pending(job[w], r)
      BY <1>4, <2>3, Zenon
    <3> QED
      BY <1>6, <2>2, <3>1, PendingKept, Zenon
  <2> QED
    BY <2>2, <2>3, Zenon
<1>7. ASSUME NEW r \in new, r \notin old, AddEveroutePolicyRule(r, done)
      PROVE  /\ done = VDS => Good(k)'
             /\ \A s \in job[w].old \cup job[w].new : s.name = n => Pending(job[w], s)'
  <2>1. /\ r \in job[w].new /\ r \notin job[w].old /\ r.name = n /\ r.key = k /\ new = {r}
        /\ r.action # NoAction
    BY <1>2, <1>4, <1>7
  <2>2. /\ Rules[k] = NoRule \/ Rules[k].refs = {n}
        /\ Rules[k].action = r.action => Good(k)
    BY <1>4, <1>7, <2>1, SMTT(30) DEF Pending
  <2>3. \/ /\ Rules[k].action = r.action /\ done = VDS /\ sw' = sw
           /\ Rules'[k] = [refs |-> Rules[k].refs \cup {n}, action |-> r.action]
        \/ /\ Rules[k].action # r.action /\ done # VDS /\ Rules' = Rules
        \/ /\ Rules[k].action # r.action /\ done = VDS
           /\ Rules'[k] = [refs |-> IF Rules[k] = NoRule THEN {n} ELSE Rules[k].refs,
                           action |-> r.action]
           /\ \A v \in VDS : sw'[v][k] = r.action
    BY <1>2, <1>7, <2>1, AddIs, SMTT(120)
  <2>4. CASE /\ Rules[k].action # r.action /\ done # VDS /\ Rules' = Rules
    BY <1>2, <2>1, <2>2, <2>4 DEF Pending, Names
  <2>5. CASE done = VDS
    <3>1. /\ Rules'[k] = [refs |-> {n}, action |-> r.action]
          /\ \A v \in fresh : sw'[v][k] = r.action
      <4>1. CASE /\ Rules[k].action = r.action /\ sw' = sw
                 /\ Rules'[k] = [refs |-> Rules[k].refs \cup {n}, action |-> r.action]
        <5>1. Rules[k] = [refs |-> {n}, action |-> r.action] /\ \A v \in fresh : sw[v][k] = r.action
          BY <1>3, <2>1, <2>2, <4>1, Zenon DEF Good
        <5>2. Rules[k].refs \cup {n} = {n}
          BY <5>1, SMTT(30)
        <5> QED
          BY <4>1, <5>1, <5>2, Zenon
      <4>2. CASE /\ Rules'[k] = [refs |-> IF Rules[k] = NoRule THEN {n} ELSE Rules[k].refs,
                                 action |-> r.action]
                 /\ \A v \in VDS : sw'[v][k] = r.action
        BY <1>5, <2>2, <4>2, Zenon
      <4> QED
        BY <2>3, <2>5, <4>1, <4>2, Zenon
    <3>2. Good(k)'
      BY <1>1, <1>3, <2>1, <3>1, ZenonT(60) DEF Good
    <3>3. ASSUME NEW s \in job[w].old \cup job[w].new, s.name = n
          PROVE  Pending(job[w], s)'
      <4>1. s.key = k /\ (s \in job[w].new => s = r) /\ n \in Names(job[w].new)
        BY <1>2, <1>4, <2>1, <3>3, Zenon DEF Names
      <4>2. Rules'[k].refs = {n}
        BY <3>1
      <4> QED
        BY <2>1, <3>2, <3>3, <4>1, <4>2, Zenon DEF Pending
    <3> QED
      BY <3>2, <3>3, Zenon
  <2> QED
    BY <2>3, <2>4, <2>5, Zenon
<1>8. ASSUME NEW r \in old, new = {}, RemoveEveroutePolicyRule(r, done)
      PROVE  /\ done = VDS => Good(k)'
             /\ \A s \in job[w].old \cup job[w].new : s.name = n => Pending(job[w], s)'
  <2>1. r \in job[w].old /\ r.name = n /\ r.key = k /\ n \notin Names(job[w].new)
    BY <1>4, <1>8, Zenon DEF Names
  <2>2. Rules[k].refs \subseteq {n} /\ (Rules[k] = NoRule => Good(k))
    BY <1>4, <1>8, <2>1, Zenon DEF Pending
  <2>3. \/ Rules[k] = NoRule /\ done = VDS /\ UNCHANGED <<Rules, sw>>
        \/ /\ Rules[k] # NoRule
           /\ \A v \in VDS : v \in done => sw'[v][k] = NoAction
           /\ Rules'[k] = IF done = VDS THEN NoRule
                          ELSE [refs |-> {}, action |-> Rules[k].action]
    <3>1. Rules[k].refs \ {n} = {}
      BY <2>2, Zenon
    <3>2. \/ Rules[r.key] = NoRule /\ done = VDS /\ UNCHANGED <<Rules, sw>>
          \/ Rules[r.key].refs \ {r.name} # {}
          \/ /\ Rules[r.key] # NoRule
             /\ \A v \in VDS : v \in done => sw'[v][r.key] = NoAction
             /\ Rules'[r.key] = IF done = VDS /\ Rules[r.key].refs \ {r.name} = {}
                                THEN NoRule
                                ELSE [refs |-> Rules[r.key].refs \ {r.name},
                                      action |-> Rules[r.key].action]
      BY <1>2, <1>8, RemoveIs, ZenonT(60)
    <3> QED
      BY <2>1, <3>1, <3>2, Zenon
  <2>4. done = VDS => Good(k)'
    <3>1. CASE Rules[k] = NoRule /\ UNCHANGED <<Rules, sw>>
      BY <1>1, <1>3, <1>5, <2>2, <3>1, GoodKept, Zenon
    <3>2. CASE /\ done = VDS => Rules'[k] = NoRule
               /\ \A v \in VDS : v \in done => sw'[v][k] = NoAction
      BY <1>3, <1>8, <3>2, Zenon DEF Good
    <3> QED
      BY <2>3, <3>1, <3>2, Zenon
  <2>5. Rules'[k].refs \subseteq {n} /\ (Rules'[k] = NoRule => done = VDS)
    BY <1>5, <2>2, <2>3 DEF NoRule
  <2>6. ASSUME NEW s \in job[w].old \cup job[w].new, s.name = n
        PROVE  Pending(job[w], s)'
    <3>1. s.key = k /\ s \notin job[w].new
      BY <1>4, <1>8, <2>6, Zenon
    <3> QED
      BY <2>4, <2>5, <2>6, <3>1, Zenon DEF Pending
  <2> QED
    BY <2>4, <2>6, Zenon
<1>9. \/ new # {} /\ new = old /\ done = VDS /\ UNCHANGED <<Rules, sw, faults>>
      \/ \E r \in new : r \notin old /\ AddEveroutePolicyRule(r, done)
      \/ \E r \in old : new = {} /\ RemoveEveroutePolicyRule(r, done)
  BY Zenon DEF Process
<1> QED
  BY <1>6, <1>7, <1>8, <1>9, Zenon

LEMMA FaultyProcess ==
    ASSUME TypeOK, FaultyInv, Unshared(load), ~gaveUp, load' = load,
           NEW w \in Workers, NEW n, NEW done \in SUBSET VDS, Process(w, n, done)
    PROVE  /\ \A k \in Keys : Untouched(k)' => Good(k)'
           /\ \A x \in Workers : job'[x] # Idle =>
                \A r \in job'[x].old \cup job'[x].new : Pending(job[x], r)'
<1>1. /\ fresh' = fresh /\ cur' = cur
      /\ job[w] # Idle /\ n \in job[w].todo
      /\ job' = [job EXCEPT ![w] =
                   Job(job[w].pol, job[w].old, job[w].new, job[w].todo \ {n},
                       job[w].failed \/ done # VDS)]
  BY ProcessIs, ZenonT(60)
<1>2. PICK c \in job[w].old \cup job[w].new : c.name = n /\ Elsewhere(c.key)
  BY ProcessIs, ZenonT(60)
<1>3. /\ job'[w] # Idle /\ job'[w].old = job[w].old /\ job'[w].new = job[w].new
      /\ job'[w].todo = job[w].todo \ {n} /\ job'[w].failed = (job[w].failed \/ done # VDS)
      /\ \A x \in Workers \ {w} : job'[x] = job[x]
  <2> DEFINE f == job[w].failed \/ done # VDS
             d == Job(job[w].pol, job[w].old, job[w].new, job[w].todo \ {n}, f)
  <2> HIDE DEF f
  <2>1. /\ d # Idle /\ d.old = job[w].old /\ d.new = job[w].new
        /\ d.todo = job[w].todo \ {n} /\ d.failed = f
    BY JobFields, SMTT(30)
  <2>2. job' = [job EXCEPT ![w] = d] /\ DOMAIN job = Workers
    BY <1>1, Zenon DEF TypeOK, f
  <2> HIDE DEF d
  <2> QED
    BY <2>1, <2>2, Zenon DEF f
<1>4. /\ job[w].pol \in Policies
      /\ \A r \in job[w].old \cup job[w].new : r \in RulesOf(load, job[w].pol)
  BY <1>1, JobFacts, Zenon
<1>5. /\ done = VDS => Good(c.key)'
      /\ \A r \in job[w].old \cup job[w].new : r.name = n => Pending(job[w], r)'
  BY <1>2, <1>3, FaultyKey, Zenon
<1>6. ASSUME NEW k \in Keys, k # c.key, Good(k)
      PROVE  Good(k)'
  <2>1. Want(k)' = Want(k) /\ fresh \subseteq VDS
    BY <1>1 DEF Want, TypeOK
  <2>2. Rules'[k] = Rules[k] /\ \A v \in VDS : sw'[v][k] = sw[v][k]
    BY <1>2, <1>6, Zenon DEF Elsewhere
  <2> QED
    BY <1>1, <1>6, <2>1, <2>2, GoodKept, Zenon
<1>7. ASSUME NEW k \in Keys, Untouched(k)'
      PROVE  Good(k)'
  <2>1. CASE k = c.key
    <3>1. ~job'[w].failed
      BY <1>2, <1>3, <1>7, <2>1, Zenon DEF Untouched
    <3> QED
      BY <1>3, <1>5, <2>1, <3>1, Zenon
  <2>2. CASE k # c.key
    <3>1. \A r \in job[w].old \cup job[w].new : r.key = k => r.name # n
      BY <1>2, <1>4, <2>2, NameFacts
    <3>2. ASSUME NEW x \in Workers, job[x] # Idle, NEW r \in job[x].old \cup job[x].new, r.key = k
          PROVE  ~job[x].failed /\ r.name \notin job[x].todo
      <4>1. CASE x = w
        BY <1>3, <1>7, <3>1, <3>2, <4>1, Zenon DEF Untouched
      <4>2. CASE x # w
        BY <1>3, <1>7, <3>2, <4>2, Zenon DEF Untouched
      <4> QED
        BY <4>1, <4>2, Zenon
    <3>3. Good(k)
      BY <3>2, Zenon DEF FaultyInv, Untouched
    <3> QED
      BY <1>6, <2>2, <3>3, Zenon
  <2> QED
    BY <2>1, <2>2, Zenon
<1>8. ASSUME NEW x \in Workers, job'[x] # Idle, NEW r \in job'[x].old \cup job'[x].new,
             ~(x = w /\ r.name = n)
      PROVE  Pending(job[x], r)'
  <2>1. job[x] # Idle /\ job'[x].old = job[x].old /\ job'[x].new = job[x].new
    BY <1>1, <1>3, <1>8, Zenon
  <2>2. Pending(job[x], r)
    BY <1>8, <2>1, Zenon DEF FaultyInv
  <2>3. job[x].pol \in Policies /\ Worker(job[x].pol) = x /\ r \in RulesOf(load, job[x].pol)
    BY <1>8, <2>1, JobFacts, Zenon
  <2>4. r.key # c.key /\ r.key \in Keys
    <3>1. r.key \in Keys
      BY <2>3, RuleFacts, Zenon DEF TypeOK, Tolerable
    <3>2. Worker(job[w].pol) = w
      BY <1>1, JobFacts, Zenon
    <3>3. r.key = c.key => job[x].pol = job[w].pol /\ r.name = c.name
      BY <1>4, <2>3, KeyFacts
    <3> QED
      BY <1>2, <1>8, <2>3, <3>1, <3>2, <3>3, Zenon
  <2>5. Rules'[r.key] = Rules[r.key]
    BY <1>2, <2>4, Zenon DEF Elsewhere
  <2> QED
    BY <1>6, <2>1, <2>2, <2>4, <2>5, PendingKept, Zenon
<1> QED
  BY <1>3, <1>5, <1>7, <1>8, Zenon

LEMMA FaultySwitch ==
    ASSUME TypeOK, NEW v \in VDS, SwitchRestart(v) \/ ReplayRules(v), NEW k \in Keys, Good(k)
    PROVE  Good(k)'
<1>1. Rules' = Rules /\ Want(k)' = Want(k)
  BY SMTT(30) DEF SwitchRestart, ReplayRules, Want
<1>2. CASE SwitchRestart(v)
  <2>1. /\ sw'[v][k] = NoAction /\ \A u \in VDS \ {v} : sw'[u] = sw[u]
        /\ fresh' = fresh \ {v} /\ fresh \subseteq VDS
    BY <1>2, Zenon DEF SwitchRestart, TypeOK
  <2> QED
    BY <1>1, <2>1 DEF Good
<1>3. CASE ReplayRules(v)
  <2> DEFINE g == [x \in Keys |-> IF Rules[x] = NoRule THEN sw[v][x] ELSE Rules[x].action]
  <2>1. sw' = [sw EXCEPT ![v] = g] /\ fresh' = fresh \cup {v} /\ fresh \subseteq VDS
    BY <1>3, Zenon DEF ReplayRules, TypeOK
  <2>2. g[k] = IF Rules[k] = NoRule THEN sw[v][k] ELSE Rules[k].action
    BY Zenon
  <2> HIDE DEF g
  <2>3. sw'[v] = g /\ \A u \in VDS \ {v} : sw'[u] = sw[u]
    BY <2>1, Zenon DEF TypeOK
  <2>4. ASSUME NEW r \in Want(k)
        PROVE  /\ Rules[k] = [refs |-> {r.name}, action |-> r.action]
               /\ \A u \in fresh' : sw'[u][k] = r.action
    <3>1. Rules[k] = [refs |-> {r.name}, action |-> r.action] /\ \A u \in fresh : sw[u][k] = r.action
      BY Zenon DEF Good
    <3>2. Rules[k] # NoRule /\ Rules[k].action = r.action
      BY <3>1, SMTT(30) DEF NoRule
    <3> QED
      BY <2>1, <2>2, <2>3, <3>1, <3>2, Zenon
  <2>5. ASSUME Want(k) = {}
        PROVE  Rules[k] = NoRule /\ \A u \in VDS : sw'[u][k] = NoAction
    BY <2>2, <2>3, <2>5, Zenon DEF Good
  <2> QED
    BY <1>1, <2>4, <2>5, Zenon DEF Good
<1> QED
  BY <1>2, <1>3, Zenon

LEMMA FaultyStep ==
    ASSUME TypeOK, TypeOK', FaultyInv, [TableNext]_tableVars
    PROVE  FaultyInv'
<1>1. CASE UNCHANGED tableVars
  <2>1. UNCHANGED <<load, Rules, sw, fresh, cur, job, gaveUp>>
    BY <1>1, Zenon DEF tableVars
  <2>2. \A k : (Good(k)' <=> Good(k)) /\ (Untouched(k)' <=> Untouched(k))
    BY <2>1, SMTT(30) DEF Good, Want, Untouched
  <2>3. \A j, r : Pending(j, r)' <=> Pending(j, r)
    BY <2>1, <2>2 DEF Pending
  <2> QED
    BY <2>1, <2>2, <2>3 DEF FaultyInv, Unshared, RulesOf
<1> SUFFICES ASSUME TableNext, Unshared(load), ~gaveUp'
             PROVE  /\ \A k \in Keys : Untouched(k)' => Good(k)'
                    /\ \A w \in Workers : job'[w] # Idle =>
                         \A r \in job'[w].old \cup job'[w].new : Pending(job[w], r)'
  <2>1. ASSUME TableNext PROVE load' = load
    BY <2>1, Zenon DEF TableNext
  <2>2. ASSUME TableNext, Unshared(load)' PROVE Unshared(load)
    BY <2>1, <2>2, SMTT(30) DEF Unshared, RulesOf
  <2> QED
    BY <1>1, <2>1, <2>2, Zenon DEF FaultyInv
<1>l. load' = load
  BY Zenon DEF TableNext
<1>2. ASSUME NEW w \in Workers, GiveUp(w)
      PROVE  FALSE
  BY <1>2, Zenon DEF GiveUp
<1>g. ~gaveUp
  BY <1>2, ZenonT(60) DEF TableNext, StartSync, Process, EndPass, SwitchRestart, ReplayRules
<1>c. /\ \A k \in Keys : Untouched(k) => Good(k)
      /\ \A w \in Workers : job[w] # Idle =>
           \A r \in job[w].old \cup job[w].new : Pending(job[w], r)
  BY <1>g, Zenon DEF FaultyInv
<1>3. ASSUME NEW p \in Policies, NEW new \in load.rules[p], StartSync(p, new)
      PROVE  /\ \A k \in Keys : Untouched(k)' => Good(k)'
             /\ \A w \in Workers : job'[w] # Idle =>
                  \A r \in job'[w].old \cup job'[w].new : Pending(job[w], r)'
  BY <1>l, <1>g, <1>3, FaultyStart, Zenon
<1>4. ASSUME NEW w \in Workers, NEW n \in job[w].todo, NEW done \in SUBSET VDS,
             Process(w, n, done)
      PROVE  /\ \A k \in Keys : Untouched(k)' => Good(k)'
             /\ \A x \in Workers : job'[x] # Idle =>
                  \A r \in job'[x].old \cup job'[x].new : Pending(job[x], r)'
  BY <1>l, <1>g, <1>4, FaultyProcess, Zenon
<1>5. ASSUME NEW w \in Workers, EndPass(w)
      PROVE  /\ \A k \in Keys : Untouched(k)' => Good(k)'
             /\ \A x \in Workers : job'[x] # Idle =>
                  \A r \in job'[x].old \cup job'[x].new : Pending(job[x], r)'
  <2> DEFINE d == Job(job[w].pol, job[w].old, job[w].new,
                      Names(job[w].old \cup job[w].new), FALSE)
  <2>1. /\ Rules' = Rules /\ sw' = sw /\ fresh' = fresh /\ cur' = cur
        /\ job[w] # Idle /\ job[w].todo = {} /\ job[w].failed \in BOOLEAN
        /\ job' = [job EXCEPT ![w] = IF job[w].failed THEN d ELSE Idle]
    BY <1>5, JobFacts, Zenon DEF EndPass
  <2>2. /\ d # Idle /\ d.old = job[w].old /\ d.new = job[w].new
        /\ d.todo = Names(job[w].old \cup job[w].new)
    BY NotIdle, Zenon DEF Job
  <2> HIDE DEF d
  <2>3. /\ \A x \in Workers \ {w} : job'[x] = job[x]
        /\ job[w].failed => job'[w] = d
        /\ ~job[w].failed => job'[w] = Idle
    BY <2>1, Zenon DEF TypeOK
  <2>4. \A k : Good(k) => Good(k)'
    BY <2>1 DEF Good, Want
  <2>5. ASSUME NEW k \in Keys, Untouched(k)'
        PROVE  Untouched(k)
    <3> SUFFICES ASSUME NEW r \in job[w].old \cup job[w].new, r.key = k
                 PROVE  ~job[w].failed
      BY <2>1, <2>3, <2>5, Zenon DEF Untouched
    <3>1. CASE job[w].failed
      <4>1. job'[w] # Idle /\ r \in job'[w].old \cup job'[w].new /\ r.name \in job'[w].todo
        BY <2>2, <2>3, <3>1, Zenon DEF Names
      <4> QED
        BY <2>5, <4>1, Zenon DEF Untouched
    <3> QED
      BY <3>1, Zenon
  <2>6. ASSUME NEW x \in Workers, job'[x] # Idle, NEW r \in job'[x].old \cup job'[x].new
        PROVE  Pending(job[x], r)'
    <3>1. job[x] # Idle /\ job'[x].old = job[x].old /\ job'[x].new = job[x].new
      BY <2>1, <2>2, <2>3, <2>6, Zenon
    <3> QED
      BY <1>c, <2>1, <2>4, <2>6, <3>1, PendingKept, Zenon
  <2> QED
    BY <1>c, <2>4, <2>5, <2>6, Zenon
<1>6. ASSUME NEW v \in VDS, SwitchRestart(v) \/ ReplayRules(v)
      PROVE  /\ \A k \in Keys : Untouched(k)' => Good(k)'
             /\ \A w \in Workers : job'[w] # Idle =>
                  \A r \in job'[w].old \cup job'[w].new : Pending(job[w], r)'
  <2>1. Rules' = Rules /\ job' = job
    BY <1>6, Zenon DEF SwitchRestart, ReplayRules
  <2>2. \A k \in Keys : Good(k) => Good(k)'
    BY <1>6, FaultySwitch, Zenon
  <2>3. \A k \in Keys : Untouched(k)' => Untouched(k)
    BY <2>1, Zenon DEF Untouched
  <2>4. ASSUME NEW w \in Workers, job'[w] # Idle, NEW r \in job'[w].old \cup job'[w].new
        PROVE  Pending(job[w], r)'
    <3>1. r.key \in Keys
      BY <2>1, <2>4, JobFacts, RuleFacts, Zenon DEF TypeOK, Tolerable
    <3> QED
      BY <1>c, <2>1, <2>2, <2>4, <3>1, PendingKept, Zenon
  <2> QED
    BY <1>c, <2>2, <2>3, <2>4, Zenon
<1> QED
  BY <1>2, <1>3, <1>4, <1>5, <1>6, Zenon DEF TableNext

------------------------------------------------------------------------------
(* The theorem.                                                               *)

LEMMA InitInv == TableInit /\ Tolerable(load) => Inv
<1> SUFFICES ASSUME TableInit, Tolerable(load) PROVE Inv
  BY Zenon
<1>1. TypeOK
  BY InitType, Zenon
<1>2. /\ Rules = [k \in Keys |-> NoRule] /\ sw = [v \in VDS |-> [k \in Keys |-> NoAction]]
      /\ fresh = VDS /\ cur = [p \in Policies |-> {}] /\ job = [w \in Workers |-> Idle]
  BY Zenon DEF TableInit
<1>3. \A p \in Policies : Holds(p) = {}
  BY <1>2, WorkerType, Zenon DEF Holds, Busy
<1>4. Held = {}
  BY <1>3, Zenon DEF Held
<1>5. CalmInv
  BY <1>2, <1>4, Zenon DEF CalmInv, Counted, NoRule
<1>6. \A k \in Keys : Good(k)
  BY <1>2, Zenon DEF Good, Want
<1>7. FaultyInv
  BY <1>2, <1>6, Zenon DEF FaultyInv
<1> QED
  BY <1>1, <1>5, <1>7, Zenon DEF Inv

LEMMA InvFollows == Inv => FlowsFollowRules
<1> SUFFICES ASSUME Inv, ~gaveUp
             PROVE  /\ \A p \in Policies, v \in fresh :
                         Settled(p) => \A r \in cur[p] : sw[v][r.key] = r.action
                    /\ (\A p \in Policies : Settled(p)) =>
                         \A v \in fresh, k \in Keys :
                           sw[v][k] # NoAction => \E p \in Policies : \E r \in cur[p] : r.key = k
  BY Zenon DEF FlowsFollowRules, FlowsInstalled, NoStrayFlows
<1>1. /\ TypeOK /\ CalmInv /\ FaultyInv /\ fresh \subseteq VDS
      /\ Unshared(load) \/ (ActionsAgree(load) /\ load.faults = 0)
  BY Zenon DEF Inv, TypeOK, Tolerable
<1>2. \A p \in Policies : Settled(p) => Holds(p) = cur[p]
  BY Zenon DEF Settled, Holds, Busy
<1>3. ASSUME NEW p \in Policies, NEW v \in fresh, Settled(p), NEW r \in cur[p]
      PROVE  sw[v][r.key] = r.action
  <2>1. r \in RulesOf(load, p) /\ r.key \in Keys
    BY <1>1, CurFacts, RuleFacts, Zenon DEF TypeOK, Tolerable
  <2>2. CASE ActionsAgree(load) /\ load.faults = 0
    <3>1. r \in Held
      BY <1>2, <1>3, Zenon DEF Held
    <3>2. Counted(r.key)
      BY <1>1, <2>1, <2>2, Zenon DEF CalmInv
    <3> QED
      BY <1>1, <3>1, <3>2, Zenon DEF Counted
  <2>3. CASE Unshared(load)
    <3>1. Untouched(r.key)
      BY <1>1, <1>3, <2>1, <2>3, UntouchedBy, Zenon DEF Settled
    <3>2. Good(r.key)
      BY <1>1, <2>1, <2>3, <3>1, Zenon DEF FaultyInv
    <3>3. r \in Want(r.key)
      BY Zenon DEF Want
    <3> QED
      BY <3>2, <3>3, Zenon DEF Good
  <2> QED
    BY <1>1, <2>2, <2>3, Zenon
<1>4. ASSUME \A p \in Policies : Settled(p), NEW v \in fresh, NEW k \in Keys, sw[v][k] # NoAction
      PROVE  \E p \in Policies : \E r \in cur[p] : r.key = k
  <2>2. CASE ActionsAgree(load) /\ load.faults = 0
    <3>1. Counted(k)
      BY <1>1, <2>2, Zenon DEF CalmInv
    <3>2. Rules[k] # NoRule
      BY <1>1, <1>4, <3>1 DEF Counted, NoRule
    <3>3. PICK r \in Held : r.key = k
      BY <3>1, <3>2, Zenon DEF Counted
    <3> QED
      BY <1>2, <1>4, <3>3, Zenon DEF Held
  <2>3. CASE Unshared(load)
    <3>1. \A w \in Workers : job[w] = Idle
      BY <1>1, <1>4, JobFacts, Zenon DEF Settled
    <3>2. Good(k)
      BY <1>1, <2>3, <3>1, Zenon DEF FaultyInv, Untouched
    <3>3. Want(k) # {}
      BY <1>1, <1>4, <3>2, Zenon DEF Good
    <3> QED
      BY <3>3, Zenon DEF Want
  <2> QED
    BY <1>1, <2>2, <2>3, Zenon
<1> QED
  BY <1>3, <1>4, Zenon

\* The flows of the VDSs are those of the policies' rules: when rules share
\* flows and every call gets through, and when calls fail and flows are not
\* shared, for any policies, rules and VDSs, and any order of syncs, passes and
\* restarts of vswitchd (AddEveroutePolicyRule, RemoveEveroutePolicyRule, the
\* reference counts of Rules, the passes of syncPolicyRulesUntilSuccess and the
\* replay).
THEOREM FlowsFollow == TolerableSpec => []FlowsFollowRules
<1>1. TableInit /\ Tolerable(load) => Inv
  BY InitInv, Zenon
<1>2. Inv /\ [TableNext]_tableVars => Inv'
  BY StepType, CalmStep, FaultyStep, Zenon DEF Inv
<1> QED
  BY <1>1, <1>2, InvFollows, PTL DEF TolerableSpec
===============================================================================
