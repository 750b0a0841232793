---------------------------- MODULE GovernanceProofs ----------------------------
(***************************************************************************)
(* Proofs about the federated policies, the boards over them and the graph *)
(* that is drawn of both, for any files, policies, templates and numbers.  *)
(* Files and templates are walked element by element; what holds of such a *)
(* walk is shown with the principle of induction that Counting states.     *)
(***************************************************************************)
EXTENDS SemanticGraph, TLAPS, FiniteSetTheorems, WellFoundedInduction

-----------------------------------------------------------------------------
(* Counting *)

\* A set of numbers that holds 0 and, with each, the next one holds them all: of the
\* initial intervals that end at a missing number, inclusion would have a least one.
LEMMA Counting ==
  ASSUME NEW T, 0 \in T, \A n \in Nat : n \in T => n + 1 \in T
  PROVE  Nat \subseteq T
<1> SUFFICES ASSUME NEW k \in Nat, k \notin T PROVE FALSE
  OBVIOUS
<1> DEFINE missing == Nat \ T
           upTo(n) == 1..n
           intervals == {upTo(n) : n \in missing}
<1>1. intervals # {} /\ intervals \subseteq FiniteSubsetsOf(Nat)
  <2>1. \A n \in missing : IsFiniteSet(upTo(n)) /\ upTo(n) \subseteq Nat
    BY FS_Interval
  <2> QED
    BY <2>1, Zenon DEF FiniteSubsetsOf
<1>2. PICK I \in intervals : \A J \in intervals : <<J, I>> \notin StrictSubsetOrdering(Nat)
  BY <1>1, FS_StrictSubsetOrderingWellFounded, WFMin, Zenon
<1>3. PICK n \in missing : I = upTo(n)
  OBVIOUS
<1>4. n \in Nat /\ n - 1 \in Nat /\ n - 1 + 1 = n
  OBVIOUS
<1>5. n - 1 \in missing
  BY <1>4
<1>6. upTo(n - 1) \in intervals /\ upTo(n - 1) \subseteq upTo(n) /\ n \in upTo(n) \ upTo(n - 1)
  BY <1>4, <1>5
<1>7. <<upTo(n - 1), I>> \in StrictSubsetOrdering(Nat)
  BY <1>3, <1>6 DEF StrictSubsetOrdering
<1> QED
  BY <1>2, <1>6, <1>7

-----------------------------------------------------------------------------
(* The registry and what is on record *)

\* A registry files each policy under its namespace, and no two under one identifier.
IsPolicy(p, ns, next) ==
  /\ p = [id |-> p.id, api |-> p.api, ns |-> p.ns, domain |-> p.domain, rules |-> p.rules,
          active |-> p.active]
  /\ p.ns = ns /\ p.id \in Nat /\ p.id < next
  /\ IsWritten(p)
WellKept(reg) ==
  /\ reg = [domains |-> reg.domains, policies |-> reg.policies, next |-> reg.next]
  /\ reg.next \in Nat
  /\ \A n \in DOMAIN reg.policies : IsPolicy(reg.policies[n], n, reg.next)
  /\ \A n, m \in DOMAIN reg.policies : reg.policies[n].id = reg.policies[m].id => n = m

\* A clash on record is between identifiers that were given, and says truly whose
\* they are, as long as they are somebody's.
TrueTo(c, reg) ==
  /\ c = [a |-> c.a, b |-> c.b, rules |-> c.rules, names |-> c.names, domains |-> c.domains,
          type |-> c.type, resolved |-> c.resolved]
  /\ c.a \in Nat /\ c.a < reg.next /\ c.b \in Nat /\ c.b < reg.next
  /\ c.names = <<c.names[1], c.names[2]>> /\ c.domains = <<c.domains[1], c.domains[2]>>
  /\ \A n \in DOMAIN reg.policies :
       /\ reg.policies[n].id = c.a => c.names[1] = n /\ c.domains[1] = reg.policies[n].domain
       /\ reg.policies[n].id = c.b => c.names[2] = n /\ c.domains[2] = reg.policies[n].domain

\* The clashes of p with q are among them.
AreAmong(p, q, clashes) ==
  \A r \in p.rules, s \in q.rules :
    Clash(r, s) => \E c \in clashes : c.a = p.id /\ c.b = q.id /\ c.rules = <<r, s>>
OnRecord(reg, clashes) ==
  \A n, m \in DOMAIN reg.policies :
    /\ reg.policies[n].domain # reg.policies[m].domain
    /\ reg.policies[n].id > reg.policies[m].id
    /\ reg.policies[n].api
    => AreAmong(reg.policies[n], reg.policies[m], clashes)

Kept(reg, clashes) ==
  /\ WellKept(reg) /\ OnRecord(reg, clashes)
  /\ \A c \in clashes : TrueTo(c, reg)

\* What a registration detects are the clashes of the new policy.
LEMMA DetectedClashes ==
  ASSUME NEW new, NEW policies, NEW c
  PROVE  c \in Detected(new, policies) <=>
           \E n \in DOMAIN policies : \E r \in new.rules : \E s \in policies[n].rules :
             /\ policies[n].ns # new.ns /\ policies[n].domain # new.domain /\ Clash(r, s)
             /\ c = Conflict(new, policies[n], r, s)
BY DEF Detected, Range

\* A registration keeps the record if its clashes are added to it, or if it does not
\* come through the API.
LEMMA RegistrationKeeps ==
  ASSUME NEW reg, NEW clashes, Kept(reg, clashes), NEW p, IsWritten(p), NEW api \in BOOLEAN,
         NEW more, clashes \subseteq more,
         more \subseteq clashes \cup Detected(Registered(reg, p, api).policies[p.ns], Registered(reg, p, api).policies),
         api => Detected(Registered(reg, p, api).policies[p.ns], Registered(reg, p, api).policies) \subseteq more
  PROVE  Kept(Registered(reg, p, api), more)
<1> DEFINE new == [id |-> reg.next, api |-> api, ns |-> p.ns, domain |-> p.domain,
                   rules |-> p.rules, active |-> p.active]
           old == reg.policies
           pols == [ns \in DOMAIN old \cup {p.ns} |-> IF ns = p.ns THEN new ELSE old[ns]]
           reg2 == [domains |-> reg.domains, policies |-> pols, next |-> reg.next + 1]
<1>1. Registered(reg, p, api) = reg2 /\ Registered(reg, p, api).policies = pols /\ pols[p.ns] = new
  BY DEF Registered
<1>2. /\ reg2 = [domains |-> reg2.domains, policies |-> reg2.policies, next |-> reg2.next]
      /\ reg2.policies = pols /\ reg2.next = reg.next + 1
  OBVIOUS
<1>3. /\ new = [id |-> new.id, api |-> new.api, ns |-> new.ns, domain |-> new.domain,
                rules |-> new.rules, active |-> new.active]
      /\ IsWritten(new)
      /\ new.id = reg.next /\ new.ns = p.ns /\ new.api = api
  BY DEF IsWritten
<1>4. /\ DOMAIN pols = DOMAIN old \cup {p.ns} /\ pols[p.ns] = new
      /\ \A n \in DOMAIN pols : n # p.ns => n \in DOMAIN old /\ pols[n] = old[n]
  OBVIOUS
<1> HIDE DEF new, pols, reg2
<1>5. reg.next \in Nat /\ \A n \in DOMAIN old : IsPolicy(old[n], n, reg.next)
  BY DEF Kept, WellKept
<1>a. \A n \in DOMAIN old : old[n].id \in Nat /\ old[n].id < reg.next /\ old[n].ns = n
  BY <1>5 DEF IsPolicy
<1> HIDE DEF old
<1>b. \A n \in DOMAIN old : ~(old[n].id > reg.next) /\ old[n].id # reg.next
  BY <1>5, <1>a
<1>6. WellKept(reg2)
  <2>1. \A n \in DOMAIN pols : IsPolicy(pols[n], n, reg.next + 1)
    <3> SUFFICES ASSUME NEW n \in DOMAIN pols PROVE IsPolicy(pols[n], n, reg.next + 1)
      OBVIOUS
    <3>1. CASE n = p.ns
      BY <1>3, <1>4, <1>5, <3>1 DEF IsPolicy
    <3>2. CASE n # p.ns
      BY <1>4, <1>5, <3>2 DEF IsPolicy
    <3> QED
      BY <3>1, <3>2
  <2>2. \A n, m \in DOMAIN pols : pols[n].id = pols[m].id => n = m
    <3>1. \A n, m \in DOMAIN old : old[n].id = old[m].id => n = m
      BY DEF Kept, WellKept, old
    <3> QED
      BY <1>3, <1>4, <1>b, <3>1
  <2> QED
    BY <1>2, <1>5, <2>1, <2>2 DEF WellKept
<1>7. OnRecord(reg2, more)
  <2> SUFFICES ASSUME NEW n \in DOMAIN pols, NEW m \in DOMAIN pols,
                      pols[n].domain # pols[m].domain, pols[n].id > pols[m].id, pols[n].api
               PROVE  AreAmong(pols[n], pols[m], more)
    BY <1>2 DEF OnRecord
  <2>1. CASE n = p.ns
    <3>1. api /\ m # p.ns /\ pols[m].ns = m
      BY <1>3, <1>4, <1>a, <2>1
    <3>2. ASSUME NEW r \in new.rules, NEW s \in pols[m].rules, Clash(r, s)
          PROVE  Conflict(new, pols[m], r, s) \in more
      <4>1. Conflict(new, pols[m], r, s) \in Detected(new, pols)
        BY <1>3, <1>4, <2>1, <3>1, <3>2, DetectedClashes
      <4> QED
        BY <1>1, <3>1, <4>1
    <3>3. \A r, s : /\ Conflict(new, pols[m], r, s).a = new.id
                    /\ Conflict(new, pols[m], r, s).b = pols[m].id
                    /\ Conflict(new, pols[m], r, s).rules = <<r, s>>
      BY DEF Conflict
    <3> QED
      BY <1>4, <2>1, <3>2, <3>3 DEF AreAmong
  <2>2. CASE n # p.ns
    <3>1. m # p.ns
      BY <1>3, <1>4, <1>b, <2>2
    <3>2. AreAmong(old[n], old[m], clashes)
      BY <1>4, <2>2, <3>1 DEF Kept, OnRecord, old
    <3> QED
      BY <1>4, <2>2, <3>1, <3>2 DEF AreAmong
  <2> QED
    BY <2>1, <2>2
<1>8. ASSUME NEW c \in more PROVE TrueTo(c, reg2)
  <2>1. CASE c \in clashes
    <3>1. TrueTo(c, reg)
      BY <2>1 DEF Kept
    <3>2. /\ c.a < reg.next + 1 /\ c.b < reg.next + 1 /\ c.a # new.id /\ c.b # new.id
      BY <1>3, <1>5, <3>1 DEF TrueTo
    <3> QED
      BY <1>2, <1>4, <3>1, <3>2 DEF TrueTo, old
  <2>2. CASE c \notin clashes
    <3>1. c \in Detected(new, pols)
      BY <1>1, <2>2
    <3>2. PICK m \in DOMAIN pols, r \in new.rules, s \in UNION {pols[n].rules : n \in DOMAIN pols} :
            pols[m].ns # new.ns /\ c = Conflict(new, pols[m], r, s)
      BY <3>1, DetectedClashes
    <3>3. m # p.ns /\ m \in DOMAIN old /\ pols[m] = old[m]
      BY <1>3, <1>4, <3>2
    <3>4. /\ c = [a |-> c.a, b |-> c.b, rules |-> c.rules, names |-> c.names, domains |-> c.domains,
                  type |-> c.type, resolved |-> c.resolved]
          /\ c.a = new.id /\ c.b = pols[m].id
          /\ c.names = <<new.ns, pols[m].ns>> /\ c.domains = <<new.domain, pols[m].domain>>
      BY <3>2 DEF Conflict
    <3>5. /\ c.a \in Nat /\ c.a < reg.next + 1 /\ c.b \in Nat /\ c.b < reg.next + 1
          /\ pols[m].ns = m /\ c.b # c.a
      BY <1>3, <1>5, <1>a, <1>b, <3>3, <3>4
    <3>6. \A n \in DOMAIN pols : /\ pols[n].id = c.a => n = p.ns
                                 /\ pols[n].id = c.b => n = m
      <4>1. \A n, l \in DOMAIN pols : pols[n].id = pols[l].id => n = l
        BY <1>2, <1>6 DEF WellKept
      <4>2. p.ns \in DOMAIN pols /\ pols[p.ns].id = c.a
        BY <1>4, <3>4
      <4> QED
        BY <3>4, <4>1, <4>2
    <3> QED
      BY <1>2, <1>3, <1>4, <3>4, <3>5, <3>6 DEF TrueTo
  <2> QED
    BY <2>1, <2>2
<1> QED
  BY <1>1, <1>6, <1>7, <1>8 DEF Kept

\* A file keeps the record, however far it is read.
LEMMA FileKeeps ==
  ASSUME NEW reg, NEW clashes, Kept(reg, clashes), NEW file, Len(Taken(file)) \in Nat,
         \A i \in 1..Len(Taken(file)) : IsWritten(Taken(file)[i])
  PROVE  Kept(LoadFile(reg, file), clashes)
<1> DEFINE list == Taken(file)
           first == [domains |-> reg.domains \cup {file.domain}, policies |-> reg.policies, next |-> reg.next]
           Filed(r, p) == Registered(r, p, FALSE)
           Walk(w, n) == w = [i \in 0..n |-> IF i = 0 THEN first ELSE Filed(w[i - 1], list[i])]
           after == CHOOSE w : Walk(w, Len(list))
<1>1. \A n \in Nat : \E w : Walk(w, n)
  <2> DEFINE T == {n \in Nat : \E w : Walk(w, n)}
  <2>1. 0 \in T
    <3>1. Walk([i \in {0} |-> first], 0)
      OBVIOUS
    <3> QED
      BY <3>1
  <2>2. ASSUME NEW n \in Nat, n \in T PROVE n + 1 \in T
    <3>1. PICK g : Walk(g, n)
      BY <2>2
    <3> DEFINE h == [i \in 0..n + 1 |-> IF i <= n THEN g[i] ELSE Filed(g[n], list[n + 1])]
    <3>2. \A i \in 0..n + 1 : h[i] = IF i = 0 THEN first ELSE Filed(h[i - 1], list[i])
      <4> SUFFICES ASSUME NEW i \in 0..n + 1
                   PROVE  h[i] = IF i = 0 THEN first ELSE Filed(h[i - 1], list[i])
        OBVIOUS
      <4>1. CASE i = 0
        BY <3>1, <4>1
      <4>2. CASE i # 0 /\ i <= n
        <5>1. h[i] = g[i] /\ h[i - 1] = g[i - 1] /\ i \in 0..n
          BY <4>2
        <5> QED
          BY <3>1, <4>2, <5>1
      <4>3. CASE i = n + 1
        <5>1. i # 0 /\ ~(i <= n) /\ i - 1 = n /\ n <= n /\ n \in 0..n + 1
          BY <4>3
        <5>2. h[i - 1] = g[n]
          BY <5>1
        <5> QED
          BY <4>3, <5>1, <5>2
      <4>4. i = 0 \/ (i # 0 /\ i <= n) \/ i = n + 1
        OBVIOUS
      <4> HIDE DEF h
      <4> QED
        BY <4>1, <4>2, <4>3, <4>4
    <3>3. Walk(h, n + 1)
      BY <3>2
    <3>4. PICK w : w = h
      OBVIOUS
    <3> HIDE DEF h, Walk
    <3> QED
      BY <3>3, <3>4
  <2>3. \A n \in Nat : n \in T => n + 1 \in T
    BY <2>2
  <2> HIDE DEF T
  <2>4. Nat \subseteq T
    BY <2>1, <2>3, Counting
  <2> QED
    BY <2>4 DEF T
<1>2. Walk(after, Len(list)) /\ LoadFile(reg, file) = after[Len(list)]
  <2>1. \E w : Walk(w, Len(list))
    BY <1>1
  <2>2. Walk(after, Len(list))
    BY <2>1, Zenon
  <2>3. LoadFile(reg, file) = after[Len(list)]
    BY DEF LoadFile
  <2> QED
    BY <2>2, <2>3
<1>3. after[0] = first /\ \A n \in 1..Len(list) : after[n] = Filed(after[n - 1], list[n])
  <2> HIDE DEF after
  <2> QED
    BY <1>2
<1>4. Kept(first, clashes)
  BY DEF Kept, WellKept, OnRecord, TrueTo
<1>a. Len(list) \in Nat
  OBVIOUS
<1>b. \A r, p : Kept(r, clashes) /\ IsWritten(p) => Kept(Filed(r, p), clashes)
  BY RegistrationKeeps
<1>c. \A i \in 1..Len(list) : IsWritten(list[i])
  OBVIOUS
<1> HIDE DEF after, first, list, Filed
<1>5. \A n \in Nat : n <= Len(list) => Kept(after[n], clashes)
  <2> DEFINE T == {n \in Nat : n <= Len(list) => Kept(after[n], clashes)}
  <2>1. 0 \in T
    BY <1>3, <1>4
  <2>2. ASSUME NEW n \in Nat, n \in T PROVE n + 1 \in T
    <3> SUFFICES ASSUME n + 1 <= Len(list) PROVE Kept(after[n + 1], clashes)
      OBVIOUS
    <3>1. n <= Len(list) /\ n + 1 \in 1..Len(list) /\ n + 1 - 1 = n
      BY <1>a
    <3>2. Kept(after[n], clashes) /\ after[n + 1] = Filed(after[n], list[n + 1])
      BY <1>3, <2>2, <3>1
    <3>3. Kept(Filed(after[n], list[n + 1]), clashes)
      BY <1>b, <1>c, <3>1, <3>2
    <3> QED
      BY <3>2, <3>3
  <2>3. \A n \in Nat : n \in T => n + 1 \in T
    BY <2>2
  <2> HIDE DEF T
  <2>4. Nat \subseteq T
    BY <2>1, <2>3, Counting
  <2> QED
    BY <2>4 DEF T
<1> QED
  BY <1>2, <1>5 DEF list

\* So do all the files.
LEMMA LoadKeeps ==
  ASSUME NEW reg, NEW clashes, Kept(reg, clashes), NEW list, Len(list) \in Nat,
         \A i \in 1..Len(list) : /\ Len(Taken(list[i])) \in Nat
                                  /\ \A k \in 1..Len(Taken(list[i])) : IsWritten(Taken(list[i])[k])
  PROVE  Kept(Loaded(reg, list), clashes)
<1> DEFINE first == reg
           Walk(w, n) == w = [i \in 0..n |-> IF i = 0 THEN first ELSE LoadFile(w[i - 1], list[i])]
           after == CHOOSE w : Walk(w, Len(list))
<1>1. \A n \in Nat : \E w : Walk(w, n)
  <2> DEFINE T == {n \in Nat : \E w : Walk(w, n)}
  <2>1. 0 \in T
    <3>1. Walk([i \in {0} |-> first], 0)
      OBVIOUS
    <3> QED
      BY <3>1
  <2>2. ASSUME NEW n \in Nat, n \in T PROVE n + 1 \in T
    <3>1. PICK g : Walk(g, n)
      BY <2>2
    <3> DEFINE h == [i \in 0..n + 1 |-> IF i <= n THEN g[i] ELSE LoadFile(g[n], list[n + 1])]
    <3>2. \A i \in 0..n + 1 : h[i] = IF i = 0 THEN first ELSE LoadFile(h[i - 1], list[i])
      <4> SUFFICES ASSUME NEW i \in 0..n + 1
                   PROVE  h[i] = IF i = 0 THEN first ELSE LoadFile(h[i - 1], list[i])
        OBVIOUS
      <4>1. CASE i = 0
        BY <3>1, <4>1
      <4>2. CASE i # 0 /\ i <= n
        <5>1. h[i] = g[i] /\ h[i - 1] = g[i - 1] /\ i \in 0..n
          BY <4>2
        <5> QED
          BY <3>1, <4>2, <5>1
      <4>3. CASE i = n + 1
        <5>1. i # 0 /\ ~(i <= n) /\ i - 1 = n /\ n <= n /\ n \in 0..n + 1
          BY <4>3
        <5>2. h[i - 1] = g[n]
          BY <5>1
        <5> QED
          BY <4>3, <5>1, <5>2
      <4>4. i = 0 \/ (i # 0 /\ i <= n) \/ i = n + 1
        OBVIOUS
      <4> HIDE DEF h
      <4> QED
        BY <4>1, <4>2, <4>3, <4>4
    <3>3. Walk(h, n + 1)
      BY <3>2
    <3>4. PICK w : w = h
      OBVIOUS
    <3> HIDE DEF h, Walk
    <3> QED
      BY <3>3, <3>4
  <2>3. \A n \in Nat : n \in T => n + 1 \in T
    BY <2>2
  <2> HIDE DEF T
  <2>4. Nat \subseteq T
    BY <2>1, <2>3, Counting
  <2> QED
    BY <2>4 DEF T
<1>2. Walk(after, Len(list)) /\ Loaded(reg, list) = after[Len(list)]
  <2>1. \E w : Walk(w, Len(list))
    BY <1>1
  <2>2. Walk(after, Len(list))
    BY <2>1, Zenon
  <2>3. Loaded(reg, list) = after[Len(list)]
    BY DEF Loaded
  <2> QED
    BY <2>2, <2>3
<1>3. after[0] = reg /\ \A n \in 1..Len(list) : after[n] = LoadFile(after[n - 1], list[n])
  <2> HIDE DEF after
  <2> QED
    BY <1>2
<1> HIDE DEF after
<1>5. \A n \in Nat : n <= Len(list) => Kept(after[n], clashes)
  <2> DEFINE T == {n \in Nat : n <= Len(list) => Kept(after[n], clashes)}
  <2>1. 0 \in T
    BY <1>3
  <2>2. ASSUME NEW n \in Nat, n \in T PROVE n + 1 \in T
    <3> SUFFICES ASSUME n + 1 <= Len(list) PROVE Kept(after[n + 1], clashes)
      OBVIOUS
    <3>1. /\ Kept(after[n], clashes) /\ after[n + 1] = LoadFile(after[n], list[n + 1])
          /\ Len(Taken(list[n + 1])) \in Nat
          /\ \A k \in 1..Len(Taken(list[n + 1])) : IsWritten(Taken(list[n + 1])[k])
      BY <1>3, <2>2
    <3> QED
      BY <3>1, FileKeeps
  <2>3. \A n \in Nat : n \in T => n + 1 \in T
    BY <2>2
  <2> HIDE DEF T
  <2>4. Nat \subseteq T
    BY <2>1, <2>3, Counting
  <2> QED
    BY <2>4 DEF T
<1> QED
  BY <1>2, <1>5

\* What add_policy of p adds to the record is what it detects.
LEMMA AdditionKeeps ==
  ASSUME NEW reg, NEW clashes, Kept(reg, clashes), NEW p, IsWritten(p)
  PROVE  Kept(Added(reg, p), clashes \cup NewConflicts(reg, p))
<1> DEFINE found == Detected(Registered(reg, p, TRUE).policies[p.ns], Registered(reg, p, TRUE).policies)
<1>1. clashes \subseteq clashes \cup found /\ TRUE \in BOOLEAN
  OBVIOUS
<1>2. Kept(Registered(reg, p, TRUE), clashes \cup found)
  BY <1>1, RegistrationKeeps, Zenon
<1> QED
  BY <1>2 DEF Added, NewConflicts

\* So do the policies of a template, those that are registered already being skipped.
LEMMA TemplateKeeps ==
  ASSUME NEW start, NEW clashes, Kept(start.reg, clashes \cup start.new), NEW list, Len(list) \in Nat,
         \A i \in 1..Len(list) : IsWritten(list[i])
  PROVE  Kept(AddAllMissing(start, list).reg, clashes \cup AddAllMissing(start, list).new)
<1> DEFINE first == start
           Walk(w, n) == w = [i \in 0..n |-> IF i = 0 THEN first ELSE AddMissing(w[i - 1], list[i])]
           after == CHOOSE w : Walk(w, Len(list))
           Holds(acc) == Kept(acc.reg, clashes \cup acc.new)
<1>1. \A n \in Nat : \E w : Walk(w, n)
  <2> DEFINE T == {n \in Nat : \E w : Walk(w, n)}
  <2>1. 0 \in T
    <3>1. Walk([i \in {0} |-> first], 0)
      OBVIOUS
    <3> QED
      BY <3>1
  <2>2. ASSUME NEW n \in Nat, n \in T PROVE n + 1 \in T
    <3>1. PICK g : Walk(g, n)
      BY <2>2
    <3> DEFINE h == [i \in 0..n + 1 |-> IF i <= n THEN g[i] ELSE AddMissing(g[n], list[n + 1])]
    <3>2. \A i \in 0..n + 1 : h[i] = IF i = 0 THEN first ELSE AddMissing(h[i - 1], list[i])
      <4> SUFFICES ASSUME NEW i \in 0..n + 1
                   PROVE  h[i] = IF i = 0 THEN first ELSE AddMissing(h[i - 1], list[i])
        OBVIOUS
      <4>1. CASE i = 0
        BY <3>1, <4>1
      <4>2. CASE i # 0 /\ i <= n
        <5>1. h[i] = g[i] /\ h[i - 1] = g[i - 1] /\ i \in 0..n
          BY <4>2
        <5> QED
          BY <3>1, <4>2, <5>1
      <4>3. CASE i = n + 1
        <5>1. i # 0 /\ ~(i <= n) /\ i - 1 = n /\ n <= n /\ n \in 0..n + 1
          BY <4>3
        <5>2. h[i - 1] = g[n]
          BY <5>1
        <5> QED
          BY <4>3, <5>1, <5>2
      <4>4. i = 0 \/ (i # 0 /\ i <= n) \/ i = n + 1
        OBVIOUS
      <4> HIDE DEF h
      <4> QED
        BY <4>1, <4>2, <4>3, <4>4
    <3>3. Walk(h, n + 1)
      BY <3>2
    <3>4. PICK w : w = h
      OBVIOUS
    <3> HIDE DEF h, Walk
    <3> QED
      BY <3>3, <3>4
  <2>3. \A n \in Nat : n \in T => n + 1 \in T
    BY <2>2
  <2> HIDE DEF T
  <2>4. Nat \subseteq T
    BY <2>1, <2>3, Counting
  <2> QED
    BY <2>4 DEF T
<1>2. Walk(after, Len(list)) /\ AddAllMissing(start, list) = after[Len(list)]
  <2>1. \E w : Walk(w, Len(list))
    BY <1>1
  <2>2. Walk(after, Len(list))
    BY <2>1, Zenon
  <2>3. AddAllMissing(start, list) = after[Len(list)]
    BY DEF AddAllMissing
  <2> QED
    BY <2>2, <2>3
<1>3. after[0] = start /\ \A n \in 1..Len(list) : after[n] = AddMissing(after[n - 1], list[n])
  <2> HIDE DEF after
  <2> QED
    BY <1>2
<1> HIDE DEF after
<1>4. ASSUME NEW acc, NEW p, IsWritten(p), Holds(acc) PROVE Holds(AddMissing(acc, p))
  <2>1. CASE p.ns \in DOMAIN acc.reg.policies
    BY <1>4, <2>1 DEF AddMissing
  <2>2. CASE p.ns \notin DOMAIN acc.reg.policies
    <3>1. /\ AddMissing(acc, p).reg = Added(acc.reg, p)
          /\ AddMissing(acc, p).new = acc.new \cup NewConflicts(acc.reg, p)
      BY <2>2 DEF AddMissing
    <3>2. Kept(Added(acc.reg, p), (clashes \cup acc.new) \cup NewConflicts(acc.reg, p))
      BY <1>4, AdditionKeeps
    <3>3. clashes \cup AddMissing(acc, p).new = (clashes \cup acc.new) \cup NewConflicts(acc.reg, p)
      BY <3>1
    <3> QED
      BY <3>1, <3>2, <3>3
  <2> QED
    BY <2>1, <2>2
<1>a. Holds(start)
  OBVIOUS
<1> HIDE DEF Holds
<1>5. \A n \in Nat : n <= Len(list) => Holds(after[n])
  <2> DEFINE T == {n \in Nat : n <= Len(list) => Holds(after[n])}
  <2>1. 0 \in T
    BY <1>3, <1>a
  <2>2. ASSUME NEW n \in Nat, n \in T PROVE n + 1 \in T
    <3> SUFFICES ASSUME n + 1 <= Len(list) PROVE Holds(after[n + 1])
      OBVIOUS
    <3>1. Holds(after[n]) /\ after[n + 1] = AddMissing(after[n], list[n + 1]) /\ IsWritten(list[n + 1])
      BY <1>3, <2>2
    <3> QED
      BY <1>4, <3>1
  <2>3. \A n \in Nat : n \in T => n + 1 \in T
    BY <2>2
  <2> HIDE DEF T
  <2>4. Nat \subseteq T
    BY <2>1, <2>3, Counting
  <2> QED
    BY <2>4 DEF T
<1>6. Holds(AddAllMissing(start, list))
  BY <1>2, <1>5
<1> QED
  BY <1>6 DEF Holds

-----------------------------------------------------------------------------
(* Every step keeps the record. *)

\* What is edited in place keeps its identifier, its rules and its owner.
LEMMA EditKeeps ==
  ASSUME NEW reg, NEW clashes, Kept(reg, clashes), NEW ns \in DOMAIN reg.policies, NEW active
  PROVE  Kept([reg EXCEPT !.policies[ns].active = active], clashes)
<1> DEFINE old == reg.policies
           new == [old EXCEPT ![ns].active = active]
           reg2 == [reg EXCEPT !.policies[ns].active = active]
<1>1. reg = [domains |-> reg.domains, policies |-> reg.policies, next |-> reg.next]
  BY DEF Kept, WellKept
<1>2. /\ reg2 = [domains |-> reg.domains, policies |-> new, next |-> reg.next]
      /\ reg2.policies = new /\ reg2.next = reg.next /\ reg2.domains = reg.domains
  BY <1>1
<1>3. ASSUME NEW n \in DOMAIN old
      PROVE  /\ IsPolicy(new[n], n, reg.next)
             /\ new[n].id = old[n].id /\ new[n].rules = old[n].rules
             /\ new[n].domain = old[n].domain /\ new[n].api = old[n].api
  <2>1. IsPolicy(old[n], n, reg.next)
    BY DEF Kept, WellKept
  <2>2. CASE n = ns
    <3>1. new[n] = [id |-> old[n].id, api |-> old[n].api, ns |-> old[n].ns, domain |-> old[n].domain,
                    rules |-> old[n].rules, active |-> active]
      BY <2>1, <2>2 DEF IsPolicy
    <3> QED
      BY <2>1, <3>1 DEF IsPolicy, IsWritten
  <2>3. CASE n # ns
    BY <2>1, <2>3
  <2> QED
    BY <2>2, <2>3
<1>4. DOMAIN new = DOMAIN old
  OBVIOUS
<1>5. WellKept(reg)
  BY DEF Kept
<1> HIDE DEF new, reg2
<1>6. WellKept(reg2)
  BY <1>2, <1>3, <1>4, <1>5 DEF WellKept
<1>7. OnRecord(reg2, clashes)
  <2> SUFFICES ASSUME NEW n \in DOMAIN new, NEW m \in DOMAIN new,
                      new[n].domain # new[m].domain, new[n].id > new[m].id, new[n].api
               PROVE  AreAmong(new[n], new[m], clashes)
    BY <1>2 DEF OnRecord
  <2>1. AreAmong(old[n], old[m], clashes)
    BY <1>3, <1>4 DEF Kept, OnRecord
  <2> QED
    BY <1>3, <1>4, <2>1 DEF AreAmong
<1>8. ASSUME NEW c \in clashes PROVE TrueTo(c, reg2)
  <2>1. TrueTo(c, reg)
    BY DEF Kept
  <2> QED
    BY <1>2, <1>3, <1>4, <2>1 DEF TrueTo
<1> QED
  BY <1>6, <1>7, <1>8 DEF Kept, reg2

\* Fewer policies leave less to record.
LEMMA RemovalKeeps ==
  ASSUME NEW reg, NEW clashes, Kept(reg, clashes), NEW left \in SUBSET DOMAIN reg.policies
  PROVE  Kept([reg EXCEPT !.policies = Restrict(@, left)], clashes)
<1> DEFINE new == [n \in left |-> reg.policies[n]]
           reg2 == [reg EXCEPT !.policies = Restrict(@, left)]
<1>1. /\ reg2 = [domains |-> reg.domains, policies |-> new, next |-> reg.next]
      /\ reg2.policies = new /\ reg2.next = reg.next /\ reg2.domains = reg.domains
  BY DEF Kept, WellKept, Restrict
<1>2. DOMAIN new = left /\ \A n \in left : n \in DOMAIN reg.policies /\ new[n] = reg.policies[n]
  OBVIOUS
<1> HIDE DEF new, reg2
<1>3. WellKept(reg2)
  BY <1>1, <1>2 DEF Kept, WellKept
<1>4. OnRecord(reg2, clashes)
  BY <1>1, <1>2 DEF Kept, OnRecord
<1>5. \A c \in clashes : TrueTo(c, reg2)
  BY <1>1, <1>2 DEF Kept, TrueTo
<1> QED
  BY <1>3, <1>4, <1>5 DEF Kept, reg2

\* Domains are not part of the record.
LEMMA DomainsKeep ==
  ASSUME NEW reg, NEW clashes, Kept(reg, clashes), NEW more
  PROVE  Kept([reg EXCEPT !.domains = @ \cup more], clashes)
<1> DEFINE reg2 == [reg EXCEPT !.domains = @ \cup more]
<1>1. /\ reg2 = [domains |-> reg.domains \cup more, policies |-> reg.policies, next |-> reg.next]
      /\ reg2.policies = reg.policies /\ reg2.next = reg.next /\ reg2.domains = reg.domains \cup more
  BY DEF Kept, WellKept
<1> HIDE DEF reg2
<1>2. WellKept(reg2) /\ OnRecord(reg2, clashes) /\ \A c \in clashes : TrueTo(c, reg2)
  BY <1>1 DEF Kept, WellKept, OnRecord, TrueTo
<1> QED
  BY <1>2 DEF Kept, reg2

\* A resolved clash stays on record.
LEMMA ResolutionKeeps ==
  ASSUME NEW reg, NEW clashes, Kept(reg, clashes), NEW c \in clashes
  PROVE  Kept(reg, (clashes \ {c}) \cup {[c EXCEPT !.resolved = TRUE]})
<1> DEFINE d == [c EXCEPT !.resolved = TRUE]
           more == (clashes \ {c}) \cup {d}
<1>1. TrueTo(c, reg)
  BY DEF Kept
<1>a. d = [a |-> c.a, b |-> c.b, rules |-> c.rules, names |-> c.names, domains |-> c.domains,
           type |-> c.type, resolved |-> TRUE]
  <2>1. ASSUME NEW v
        PROVE  [c EXCEPT !.resolved = v] =
                 [a |-> c.a, b |-> c.b, rules |-> c.rules, names |-> c.names, domains |-> c.domains,
                  type |-> c.type, resolved |-> v]
    BY <1>1 DEF TrueTo
  <2> QED
    BY <2>1
<1> HIDE DEF d
<1>2. /\ d = [a |-> c.a, b |-> c.b, rules |-> c.rules, names |-> c.names, domains |-> c.domains,
              type |-> c.type, resolved |-> TRUE]
      /\ d.a = c.a /\ d.b = c.b /\ d.rules = c.rules /\ d.names = c.names /\ d.domains = c.domains
      /\ d = [a |-> d.a, b |-> d.b, rules |-> d.rules, names |-> d.names, domains |-> d.domains,
              type |-> d.type, resolved |-> d.resolved]
  BY <1>a
<1>3. more = (clashes \ {c}) \cup {d}
  OBVIOUS
<1> HIDE DEF more
<1>4. TrueTo(d, reg)
  BY <1>1, <1>2 DEF TrueTo
<1>5. OnRecord(reg, more)
  <2> SUFFICES ASSUME NEW n \in DOMAIN reg.policies, NEW m \in DOMAIN reg.policies,
                      AreAmong(reg.policies[n], reg.policies[m], clashes)
               PROVE  AreAmong(reg.policies[n], reg.policies[m], more)
    BY DEF Kept, OnRecord
  <2> QED
    BY <1>2, <1>3 DEF AreAmong
<1> QED
  BY <1>3, <1>4, <1>5 DEF Kept, d, more

\* What is taken of a file are policies as they are written.
LEMMA TakenAreWritten ==
  ASSUME NEW file, AreWritten(file.policies), file.bad \in 0..Len(file.policies)
  PROVE  /\ Len(Taken(file)) \in Nat
         /\ \A i \in 1..Len(Taken(file)) : IsWritten(Taken(file)[i])
<1> DEFINE all == file.policies
           S == {p \in Range(all) : IsWritten(p)}
<1>1. all \in Seq(S)
  BY DEF AreWritten
<1> HIDE DEF S, all
<1>2. Len(all) \in Nat /\ \A i \in 1..Len(all) : all[i] \in S
  BY <1>1
<1>3. \A p \in S : IsWritten(p)
  BY DEF S
<1>4. CASE file.bad = 0
  BY <1>2, <1>3, <1>4 DEF Taken, all
<1>5. CASE file.bad # 0
  <2>1. file.bad - 1 \in Nat /\ file.bad - 1 <= Len(all)
    BY <1>2, <1>5 DEF all
  <2>2. /\ Len(SubSeq(all, 1, file.bad - 1)) = file.bad - 1
        /\ \A i \in 1..file.bad - 1 : SubSeq(all, 1, file.bad - 1)[i] = all[i]
    BY <1>1, <1>2, <2>1
  <2>3. Taken(file) = SubSeq(all, 1, file.bad - 1)
    BY <1>5 DEF Taken, all
  <2>4. \A i \in 1..file.bad - 1 : i \in 1..Len(all) /\ IsWritten(all[i])
    BY <1>2, <1>3, <2>1
  <2>5. /\ Len(Taken(file)) \in Nat /\ Len(Taken(file)) = file.bad - 1
        /\ \A i \in 1..file.bad - 1 : Taken(file)[i] = all[i]
    BY <2>1, <2>2, <2>3
  <2> QED
    BY <2>4, <2>5
<1> QED
  BY <1>4, <1>5

LEMMA WrittenHaveLengths ==
  ASSUME NEW list, AreWritten(list)
  PROVE  Len(list) \in Nat /\ \A i \in 1..Len(list) : IsWritten(list[i])
<1> DEFINE S == {p \in Range(list) : IsWritten(p)}
<1>1. list \in Seq(S) /\ \A p \in S : IsWritten(p)
  BY DEF AreWritten
<1> HIDE DEF S
<1> QED
  BY <1>1

\* The files, loaded into a registry.
LEMMA LoadedFilesKeep ==
  ASSUME NEW reg, NEW clashes, Kept(reg, clashes), NEW list \in FileVersions
  PROVE  Kept(Loaded(reg, list), clashes)
<1>1. Len(list) \in Nat
  BY FederationAssumption
<1>2. \A i \in 1..Len(list) : AreWritten(list[i].policies) /\ list[i].bad \in 0..Len(list[i].policies)
  BY FederationAssumption
<1>3. \A i \in 1..Len(list) : /\ Len(Taken(list[i])) \in Nat
                               /\ \A k \in 1..Len(Taken(list[i])) : IsWritten(Taken(list[i])[k])
  BY <1>2, TakenAreWritten
<1> QED
  BY <1>1, <1>3, LoadKeeps

\* The record is kept, whatever files there are and templates read.
FedInv ==
  /\ files \in FileVersions
  /\ Kept(registry, conflicts)
  /\ \A t \in DOMAIN templates : AreWritten(templates[t].policies)

LEMMA FedInvHolds == BoardSpec => []FedInv
<1>1. BoardInit => FedInv
  <2> SUFFICES ASSUME BoardInit PROVE FedInv
    OBVIOUS
  <2>1. Kept(Empty, {})
    BY DEF Kept, WellKept, OnRecord, Empty
  <2>2. Kept(registry, conflicts)
    BY <2>1, LoadedFilesKeep DEF BoardInit, Init
  <2> QED
    BY <2>2, BoardAssumption DEF BoardInit, Init, FedInv
<1>2. FedInv /\ [BoardNext]_allVars => FedInv'
  <2> SUFFICES ASSUME FedInv, [BoardNext]_allVars PROVE FedInv'
    OBVIOUS
  <2> USE DEF FedInv
  <2>1. ASSUME NEW p \in NewPolicies, AddPolicy(p), UNCHANGED boardVars PROVE FedInv'
    <3>1. IsWritten(p)
      BY FederationAssumption
    <3> QED
      BY <2>1, <3>1, AdditionKeeps DEF AddPolicy, boardVars
  <2>2. ASSUME NEW d, RegisterDomain(d), UNCHANGED boardVars PROVE FedInv'
    BY <2>2, DomainsKeep DEF RegisterDomain, boardVars
  <2>3. ASSUME NEW ns \in DOMAIN registry.policies, RemovePolicy(ns), UNCHANGED boardVars PROVE FedInv'
    <3>1. DOMAIN registry.policies \ {ns} \in SUBSET DOMAIN registry.policies
      OBVIOUS
    <3>2. Kept([registry EXCEPT !.policies = Restrict(@, DOMAIN registry.policies \ {ns})], conflicts)
      BY <3>1, RemovalKeeps
    <3> QED
      BY <2>3, <3>2 DEF RemovePolicy, boardVars
  <2>4. ASSUME NEW ns \in DOMAIN registry.policies, NEW active \in BOOLEAN, UpdatePolicy(ns, active),
               UNCHANGED boardVars
        PROVE  FedInv'
    BY <2>4, EditKeeps DEF UpdatePolicy, boardVars
  <2>5. ASSUME NEW c \in conflicts, ResolveConflict(c), UNCHANGED boardVars PROVE FedInv'
    BY <2>5, ResolutionKeeps DEF ResolveConflict, boardVars
  <2>6. ASSUME CslLoad, UNCHANGED boardVars PROVE FedInv'
    BY <2>6, LoadedFilesKeep DEF CslLoad, boardVars
  <2>7. ASSUME EditFiles, UNCHANGED boardVars PROVE FedInv'
    BY <2>7 DEF EditFiles, boardVars
  <2>8. ASSUME ListTemplates PROVE FedInv'
    BY <2>8, BoardAssumption DEF ListTemplates, vars
  <2>9. ASSUME NEW t \in DOMAIN templates, CreateFromTemplate(t) PROVE FedInv'
    <3> DEFINE start == [reg |-> [registry EXCEPT !.domains = @ \cup templates[t].domains], new |-> {}]
               list == templates[t].policies
    <3>1. Kept(start.reg, conflicts \cup start.new)
      BY DomainsKeep
    <3>2. Len(list) \in Nat /\ \A i \in 1..Len(list) : IsWritten(list[i])
      BY WrittenHaveLengths
    <3>3. registry' = AddAllMissing(start, list).reg /\ conflicts' = conflicts \cup AddAllMissing(start, list).new
      BY <2>9 DEF CreateFromTemplate
    <3> HIDE DEF start, list
    <3>4. Kept(registry', conflicts')
      BY <3>1, <3>2, <3>3, TemplateKeeps
    <3> QED
      BY <2>9, <3>4 DEF CreateFromTemplate
  <2>a. ASSUME UNCHANGED <<vars, templates>> PROVE FedInv'
    BY <2>a DEF vars
  <2>b. ASSUME Boards, ~ListTemplates, \A t \in DOMAIN templates : ~CreateFromTemplate(t)
        PROVE  UNCHANGED <<vars, templates>>
    BY <2>b DEF Boards, CreateBoard, DeleteBoard, UpdateBoard
  <2>c. CASE Boards
    BY <2>8, <2>9, <2>a, <2>b, <2>c
  <2>d. CASE Next /\ UNCHANGED boardVars
    BY <2>1, <2>2, <2>3, <2>4, <2>5, <2>6, <2>7, <2>d DEF Next, Api
  <2>e. CASE UNCHANGED allVars
    BY <2>a, <2>e DEF allVars, boardVars
  <2> QED
    BY <2>c, <2>d, <2>e DEF BoardNext
<1> QED
  BY <1>1, <1>2, PTL DEF BoardSpec

-----------------------------------------------------------------------------
(* What the record promises *)

\* Of any two policies of different domains, if the one registered later came
\* through the API, every clash between their rules is on record.
THEOREM ClashesAreOnRecord == BoardSpec => []ClashesOnRecord
<1>1. FedInv => ClashesOnRecord
  <2> SUFFICES ASSUME FedInv, NEW n \in DOMAIN registry.policies, NEW m \in DOMAIN registry.policies,
                      registry.policies[n].domain # registry.policies[m].domain,
                      registry.policies[n].id > registry.policies[m].id,
                      registry.policies[n].api
               PROVE  Compared(registry.policies[n], registry.policies[m])
    BY DEF ClashesOnRecord, Policies, Range
  <2>1. AreAmong(registry.policies[n], registry.policies[m], conflicts)
    BY DEF FedInv, Kept, OnRecord
  <2> QED
    BY <2>1 DEF AreAmong, Compared
<1> QED
  BY <1>1, FedInvHolds, PTL

\* One order of all the keys meets each of them.
LEMMA OrdersMeetAll ==
  ASSUME NEW keys, IsFiniteSet(keys), NEW order \in SetToSeqs(keys)
  PROVE  Len(order) \in Nat /\ keys = {order[i] : i \in 1..Len(order)}
<1> DEFINE n == Cardinality(keys)
<1>1. n \in Nat
  BY FS_CardinalityType
<1>2. order \in [1..n -> keys] /\ \A i, j \in 1..n : i # j => order[i] # order[j]
  BY DEF SetToSeqs
<1>3. Cardinality(1..n) = n /\ IsFiniteSet(1..n)
  <2>1. Cardinality(1..n) = IF 1 > n THEN 0 ELSE n - 1 + 1
    BY <1>1, FS_Interval
  <2>2. IsFiniteSet(1..n)
    BY <1>1, FS_Interval
  <2> HIDE DEF n
  <2> QED
    BY <1>1, <2>1, <2>2
<1>4. order \in Injection(1..n, keys)
  BY <1>2 DEF Injection, IsInjective
<1>5. order \in Surjection(1..n, keys)
  BY <1>3, <1>4, FS_Injection
<1>6. Len(order) = n
  BY <1>1, <1>2
<1> HIDE DEF n
<1> QED
  BY <1>1, <1>2, <1>5, <1>6 DEF Surjection

\* What a walk of keys has met: a contradiction, else a contention, or neither.
Contra(r, s, k) == Contradictory(r.then[k], s.then[k])
Contend(r, s, k) == IsNumeric(r.then[k]) /\ IsNumeric(s.then[k]) /\ r.then[k].n # s.then[k].n
TypeOf(r, s, keys) ==
  CASE \E k \in keys : Contra(r, s, k) -> "contradictory"
    [] (\A k \in keys : ~Contra(r, s, k)) /\ (\E k \in keys : Contend(r, s, k)) -> "resource_contention"
    [] OTHER -> "overlapping"

LEMMA WalkFindsType ==
  ASSUME NEW r, NEW s, NEW order, Len(order) \in Nat
  PROVE  ConflictType(r, s, order) = TypeOf(r, s, {order[i] : i \in 1..Len(order)})
<1> DEFINE first == "overlapping"
           StepOn(type, k) == TypeAfter(type, r.then[k], s.then[k])
           Walk(w, n) == w = [i \in 0..n |-> IF i = 0 THEN first ELSE StepOn(w[i - 1], order[i])]
           after == CHOOSE w : Walk(w, Len(order))
           Met(n) == {order[i] : i \in 1..n}
<1>1. \A n \in Nat : \E w : Walk(w, n)
  <2> DEFINE T == {n \in Nat : \E w : Walk(w, n)}
  <2>1. 0 \in T
    <3>1. Walk([i \in {0} |-> first], 0)
      OBVIOUS
    <3> QED
      BY <3>1
  <2>2. ASSUME NEW n \in Nat, n \in T PROVE n + 1 \in T
    <3>1. PICK g : Walk(g, n)
      BY <2>2
    <3> DEFINE h == [i \in 0..n + 1 |-> IF i <= n THEN g[i] ELSE StepOn(g[n], order[n + 1])]
    <3>2. \A i \in 0..n + 1 : h[i] = IF i = 0 THEN first ELSE StepOn(h[i - 1], order[i])
      <4> SUFFICES ASSUME NEW i \in 0..n + 1
                   PROVE  h[i] = IF i = 0 THEN first ELSE StepOn(h[i - 1], order[i])
        OBVIOUS
      <4>1. CASE i = 0
        BY <3>1, <4>1
      <4>2. CASE i # 0 /\ i <= n
        <5>1. h[i] = g[i] /\ h[i - 1] = g[i - 1] /\ i \in 0..n
          BY <4>2
        <5> QED
          BY <3>1, <4>2, <5>1
      <4>3. CASE i = n + 1
        <5>1. i # 0 /\ ~(i <= n) /\ i - 1 = n /\ n <= n /\ n \in 0..n + 1
          BY <4>3
        <5>2. h[i - 1] = g[n]
          BY <5>1
        <5> QED
          BY <4>3, <5>1, <5>2
      <4>4. i = 0 \/ (i # 0 /\ i <= n) \/ i = n + 1
        OBVIOUS
      <4> HIDE DEF h
      <4> QED
        BY <4>1, <4>2, <4>3, <4>4
    <3>3. Walk(h, n + 1)
      BY <3>2
    <3>4. PICK w : w = h
      OBVIOUS
    <3> HIDE DEF h, Walk
    <3> QED
      BY <3>3, <3>4
  <2>3. \A n \in Nat : n \in T => n + 1 \in T
    BY <2>2
  <2> HIDE DEF T
  <2>4. Nat \subseteq T
    BY <2>1, <2>3, Counting
  <2> QED
    BY <2>4 DEF T
<1>2. Walk(after, Len(order)) /\ ConflictType(r, s, order) = after[Len(order)]
  <2>1. \E w : Walk(w, Len(order))
    BY <1>1
  <2>2. Walk(after, Len(order))
    BY <2>1, Zenon
  <2>3. ConflictType(r, s, order) = after[Len(order)]
    BY DEF ConflictType
  <2> QED
    BY <2>2, <2>3
<1>3. after[0] = "overlapping" /\ \A n \in 1..Len(order) : after[n] = StepOn(after[n - 1], order[n])
  <2> HIDE DEF after, StepOn
  <2> QED
    BY <1>2
<1>4. ASSUME NEW type, NEW k
      PROVE  StepOn(type, k) = IF type = "contradictory" \/ Contra(r, s, k) THEN "contradictory"
                               ELSE IF Contend(r, s, k) THEN "resource_contention" ELSE type
  BY DEF TypeAfter, Contra, Contend
<1> HIDE DEF after, StepOn
<1>5. \A n \in Nat : n <= Len(order) => after[n] = TypeOf(r, s, Met(n))
  <2> DEFINE T == {n \in Nat : n <= Len(order) => after[n] = TypeOf(r, s, Met(n))}
  <2>1. 0 \in T
    <3>1. Met(0) = {}
      OBVIOUS
    <3>2. TypeOf(r, s, {}) = "overlapping"
      BY DEF TypeOf
    <3> QED
      BY <1>3, <3>1, <3>2
  <2>2. ASSUME NEW n \in Nat, n \in T PROVE n + 1 \in T
    <3> SUFFICES ASSUME n + 1 <= Len(order) PROVE after[n + 1] = TypeOf(r, s, Met(n + 1))
      OBVIOUS
    <3>1. n <= Len(order) /\ n + 1 \in 1..Len(order) /\ n + 1 - 1 = n
      OBVIOUS
    <3>2. after[n] = TypeOf(r, s, Met(n)) /\ after[n + 1] = StepOn(after[n], order[n + 1])
      BY <1>3, <2>2, <3>1
    <3>3. Met(n + 1) = Met(n) \cup {order[n + 1]}
      <4>1. 1..n + 1 = 1..n \cup {n + 1}
        OBVIOUS
      <4> QED
        BY <4>1
    <3> HIDE DEF Met
    <3>4. TypeOf(r, s, Met(n)) = IF \E k \in Met(n) : Contra(r, s, k) THEN "contradictory"
                                 ELSE IF \E k \in Met(n) : Contend(r, s, k) THEN "resource_contention"
                                 ELSE "overlapping"
      BY DEF TypeOf
    <3>5. TypeOf(r, s, Met(n + 1)) =
            IF \E k \in Met(n + 1) : Contra(r, s, k) THEN "contradictory"
            ELSE IF \E k \in Met(n + 1) : Contend(r, s, k) THEN "resource_contention"
            ELSE "overlapping"
      BY DEF TypeOf
    <3> DEFINE last == order[n + 1]
    <3>6. /\ (\E k \in Met(n + 1) : Contra(r, s, k)) <=> (\E k \in Met(n) : Contra(r, s, k)) \/ Contra(r, s, last)
          /\ (\E k \in Met(n + 1) : Contend(r, s, k)) <=> (\E k \in Met(n) : Contend(r, s, k)) \/ Contend(r, s, last)
      BY <3>3
    <3> HIDE DEF last
    <3>7. after[n + 1] = IF after[n] = "contradictory" \/ Contra(r, s, last) THEN "contradictory"
                         ELSE IF Contend(r, s, last) THEN "resource_contention" ELSE after[n]
      BY <1>4, <3>2 DEF last
    <3> QED
      BY <3>2, <3>4, <3>5, <3>6, <3>7
  <2>3. \A n \in Nat : n \in T => n + 1 \in T
    BY <2>2
  <2> HIDE DEF T
  <2>4. Nat \subseteq T
    BY <2>1, <2>3, Counting
  <2> QED
    BY <2>4 DEF T
<1> QED
  BY <1>2, <1>5

\* The type of a conflict between rules in force does not depend on the order in
\* which a process walks the keys they share.
THEOREM TypesAreOrderless == BoardSpec => []OrderIsIrrelevant
<1>1. FedInv => OrderIsIrrelevant
  <2> SUFFICES ASSUME FedInv, NEW r \in UNION {p.rules : p \in Policies},
                      NEW s \in UNION {p.rules : p \in Policies},
                      NEW order \in SetToSeqs(SharedConstraints(r, s))
               PROVE  ConflictType(r, s, order) = TypeOf(r, s, SharedConstraints(r, s))
    BY DEF OrderIsIrrelevant, TypeOf, Contra, Contend
  <2>1. IsFiniteSet(DOMAIN r.then)
    BY DEF FedInv, Kept, WellKept, IsPolicy, IsWritten, Policies, Range
  <2>2. IsFiniteSet(SharedConstraints(r, s))
    BY <2>1, FS_Intersection DEF SharedConstraints
  <2> QED
    BY <2>2, OrdersMeetAll, WalkFindsType
<1> QED
  BY <1>1, FedInvHolds, PTL

-----------------------------------------------------------------------------
(* The graph *)

LEMMA NodesAndEdges ==
  /\ \A kind, key : Node(kind, key).kind = kind /\ Node(kind, key).key = key
  /\ \A from, to, relation : /\ Edge(from, to, relation).from = from
                             /\ Edge(from, to, relation).to = to
                             /\ Edge(from, to, relation).relation = relation
BY DEF Node, Edge

LEMMA EdgesJoinNodes ==
  ASSUME NEW view, NEW unresolved, NEW triples, NEW e \in Edges(view, unresolved, triples)
  PROVE  e.from \in Nodes(view, unresolved, triples) /\ e.to \in Nodes(view, unresolved, triples)
<1>1. CASE e \in Owning(view)
  BY <1>1, NodesAndEdges DEF Owning, Nodes
<1>2. CASE e \in Conflicting(view, unresolved)
  BY <1>2 DEF Nodes
<1>3. CASE e \in Related(view, triples) /\ {n \in {e.from, e.to} : n.kind = "domain"} \subseteq DomainNodes(view)
  <2>1. PICK t \in ShownTriples(view, triples) :
          \/ e = Edge(Node("domain", t.source), Node("concept", t.subject), "domain_mentions")
          \/ e = Edge(Node("concept", t.subject), Node("concept", t.object), "impacts")
          \/ e = Edge(Node("concept", t.object), Node("domain", t.target), "impacts_domain")
    BY <1>3 DEF Related
  <2>2. /\ Node("concept", t.subject) \in Nodes(view, unresolved, triples)
        /\ Node("concept", t.object) \in Nodes(view, unresolved, triples)
        /\ DomainNodes(view) \subseteq Nodes(view, unresolved, triples)
    BY DEF Nodes
  <2>3. e.from.kind = "domain" => e.from \in DomainNodes(view)
    BY <1>3
  <2>4. e.to.kind = "domain" => e.to \in DomainNodes(view)
    BY <1>3
  <2> QED
    BY <2>1, <2>2, <2>3, <2>4, NodesAndEdges
<1> QED
  BY <1>1, <1>2, <1>3 DEF Edges

\* Only domains in scope are shown, and a policy that is not is named by a clash.
LEMMA NodesBelong ==
  ASSUME NEW view, NEW unresolved, NEW triples, NEW n \in Nodes(view, unresolved, triples)
  PROVE  /\ n.kind = "domain" => n \in DomainNodes(view)
         /\ n.kind = "named" => \E e \in Conflicting(view, unresolved) : n \in {e.from, e.to}
<1>1. CASE n \in DomainNodes(view)
  BY <1>1, NodesAndEdges DEF DomainNodes
<1>2. CASE \E p \in ShownPolicies(view) : n = Node("policy", p.ns)
  BY <1>2, NodesAndEdges
<1>3. CASE \E e \in Conflicting(view, unresolved) : n \in {e.from, e.to}
  <2>1. PICK c \in ShownConflicts(view, unresolved), i \in {1, 2} : n = Party(view, c, i)
    BY <1>3, NodesAndEdges DEF Conflicting
  <2>2. n.kind \in {"named", "policy"}
    BY <2>1, NodesAndEdges DEF Party
  <2> QED
    BY <1>3, <2>2
<1>4. CASE \E t \in ShownTriples(view, triples) : n \in {Node("concept", t.subject), Node("concept", t.object)}
  BY <1>4, NodesAndEdges
<1> QED
  BY <1>1, <1>2, <1>3, <1>4 DEF Nodes

\* A clash of a policy that is shown is tied to that policy's node.
LEMMA ClashesAreTied ==
  ASSUME FedInv, NEW view, NEW unresolved, NEW c \in conflicts, NEW p \in ShownPolicies(view),
         p.id \in {c.a, c.b}, p.domain \in Scope(view), ~c.resolved
  PROVE  \E e \in Conflicting(view, unresolved) :
           e.relation = "conflicts_with" /\ Node("policy", p.ns) \in {e.from, e.to}
<1>1. PICK n \in DOMAIN registry.policies : p = registry.policies[n]
  BY DEF ShownPolicies, Range
<1>2. p.ns = n
  BY <1>1 DEF FedInv, Kept, WellKept, IsPolicy
<1>3. TrueTo(c, registry)
  BY DEF FedInv, Kept
<1>4. ToSet(c.domains) = {c.domains[1], c.domains[2]}
  <2>1. c.domains = <<c.domains[1], c.domains[2]>>
    BY <1>3 DEF TrueTo
  <2>2. DOMAIN c.domains = 1..2
    BY <2>1
  <2> QED
    BY <2>2 DEF ToSet
<1>5. /\ p.id = c.a => c.names[1] = n /\ c.domains[1] = p.domain
      /\ p.id = c.b => c.names[2] = n /\ c.domains[2] = p.domain
  BY <1>1, <1>3 DEF TrueTo
<1>6. c \in ShownConflicts(view, unresolved)
  BY <1>4, <1>5 DEF ShownConflicts, Touches
<1> DEFINE e == Edge(Party(view, c, 1), Party(view, c, 2), "conflicts_with")
<1>7. e \in Conflicting(view, unresolved)
  BY <1>6 DEF Conflicting
<1>8. CASE p.id = c.a
  <2>1. Party(view, c, 1) = Node("policy", p.ns)
    BY <1>2, <1>5, <1>8 DEF Party
  <2> QED
    BY <1>7, <2>1, NodesAndEdges
<1>9. CASE p.id = c.b
  <2>1. Party(view, c, 2) = Node("policy", p.ns)
    BY <1>2, <1>5, <1>9 DEF Party
  <2> QED
    BY <1>7, <2>1, NodesAndEdges
<1> QED
  BY <1>8, <1>9

\* Whatever was edited, removed, reloaded or grouped into boards, the graph that is
\* drawn has no loose end and no stranger, and ties each clash of a policy to it.
THEOREM GraphsAreWhole == BoardSpec => []GraphIsWhole
<1>1. FedInv => GraphIsWhole
  <2> SUFFICES ASSUME FedInv, NEW view, NEW unresolved, NEW triples
               PROVE  /\ \A e \in Edges(view, unresolved, triples) :
                           {e.from, e.to} \subseteq Nodes(view, unresolved, triples)
                      /\ \A c \in conflicts, p \in ShownPolicies(view) :
                           p.id \in {c.a, c.b} /\ p.domain \in Scope(view) /\ ~c.resolved =>
                             \E e \in Edges(view, unresolved, triples) :
                               e.relation = "conflicts_with" /\ Node("policy", p.ns) \in {e.from, e.to}
                      /\ \A n \in Nodes(view, unresolved, triples) :
                           /\ n.kind = "domain" /\ view.domains # {} => n.key \in view.domains
                           /\ n.kind = "named" =>
                                \E e \in Edges(view, unresolved, triples) :
                                  e.relation = "conflicts_with" /\ n \in {e.from, e.to}
    BY DEF GraphIsWhole
  <2>1. \A e \in Conflicting(view, unresolved) :
          e \in Edges(view, unresolved, triples) /\ e.relation = "conflicts_with"
    BY NodesAndEdges DEF Edges, Conflicting
  <2>2. ASSUME NEW n \in DomainNodes(view), view.domains # {} PROVE n.key \in view.domains
    BY <2>2, NodesAndEdges DEF DomainNodes, Scope
  <2> QED
    BY <2>1, <2>2, EdgesJoinNodes, NodesBelong, ClashesAreTied
<1> QED
  BY <1>1, FedInvHolds, PTL
===============================================================================
