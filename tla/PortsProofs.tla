----------------------------- MODULE PortsProofs -----------------------------
(***************************************************************************)
(* Exposed ports lead to their container, for any number of Runs, of ports *)
(* of the host and of exposed ports.                                       *)
(***************************************************************************)
EXTENDS Ports, SequenceTheorems, WellFoundedInduction, TLAPS

-----------------------------------------------------------------------------
(* Lists of ports, and who holds one.                                      *)

\* The socket is taken by this Run: by its listener or its container.
Belongs(h, r) == h.kind \in {"listener", "container"} /\ h.of = r

LEMMA PortStringFacts ==
  /\ \A s \in PortStrings : s.num \in Nat /\ s.proto \in {"tcp", "udp"}
  /\ \A l \in Lists : l \in Seq(PortStrings) /\ ToSet(l) \subseteq PortStrings
<1> DEFINE S == [num : Nat, proto : {"tcp", "udp"}, text : STRING]
<1>1. ASSUME NEW l \in Lists
      PROVE  l \in Seq(PortStrings) /\ ToSet(l) \subseteq PortStrings /\ ToSet(l) \subseteq S
  <2>1. l \in Seq(S)
    BY PortsAssumption
  <2>2. ToSet(l) \subseteq PortStrings
    BY DEF PortStrings
  <2>3. DOMAIN l = 1 .. Len(l) /\ Len(l) \in Nat /\ \A i \in 1 .. Len(l) : l[i] \in S
    BY <2>1, LenProperties
  <2>4. l \in Seq(PortStrings)
    BY <2>1, <2>2, <2>3 DEF ToSet
  <2>5. ToSet(l) \subseteq S
    BY <2>3 DEF ToSet
  <2> QED
    BY <2>2, <2>4, <2>5
<1>2. PortStrings \subseteq S
  BY <1>1 DEF PortStrings
<1> QED
  BY <1>1, <1>2

LEMMA HolderFacts ==
  ASSUME NEW r, NEW q, NEW n
  PROVE  /\ ~Belongs(Free, r) /\ ~Belongs(Foreign, r)
         /\ Belongs(Listener(r), q) <=> r = q
         /\ Belongs(Forward(r, n), q) <=> r = q
         /\ Listener(r) = Listener(q) <=> r = q
         /\ Forward(r, n) # Listener(q) /\ Free # Listener(q) /\ Foreign # Listener(q)
         /\ Forward(r, n).kind = "container" /\ Forward(r, n).of = r
         /\ Free.kind = "free" /\ Foreign.kind = "foreign" /\ Listener(q).kind = "listener"
BY DEF Belongs, Free, Foreign, Listener, Forward

\* A socket is free, somebody else's, or belongs to one Run.
LEMMA HolderCases ==
  ASSUME NEW h \in Holders
  PROVE  \/ h = Free \/ h = Foreign
         \/ \E r \in Runs : Belongs(h, r) /\ (h = Listener(r) \/ h.kind = "container")
BY HolderFacts DEF Holders

\* One more port is published: the others stay where they are.
LEMMA AppendFacts ==
  ASSUME NEW S, NEW l \in Seq(S), NEW e \in S
  PROVE  /\ Append(l, e) \in Seq(S)
         /\ DOMAIN Append(l, e) = 1 .. Len(l) + 1 /\ DOMAIN l = 1 .. Len(l) /\ Len(l) \in Nat
         /\ \A i \in 1 .. Len(l) : Append(l, e)[i] = l[i]
         /\ Append(l, e)[Len(l) + 1] = e
         /\ ToSet(Append(l, e)) = ToSet(l) \cup {e}
<1>1. /\ Append(l, e) \in Seq(S) /\ Len(Append(l, e)) = Len(l) + 1
      /\ \A i \in 1 .. Len(l) : Append(l, e)[i] = l[i]
      /\ Append(l, e)[Len(l) + 1] = e
  BY AppendProperties
<1>2. /\ DOMAIN Append(l, e) = 1 .. Len(l) + 1 /\ DOMAIN l = 1 .. Len(l) /\ Len(l) \in Nat
  BY <1>1, LenProperties
<1>3. ToSet(Append(l, e)) = ToSet(l) \cup {e}
  <2>1. 1 .. Len(l) + 1 = (1 .. Len(l)) \cup {Len(l) + 1}
    BY <1>2
  <2> HIDE DEF ToSet
  <2> QED
    BY <1>1, <1>2, <2>1 DEF ToSet
<1> QED
  BY <1>1, <1>2, <1>3

\* The loop visits the list from its front.
LEMMA TailFacts ==
  ASSUME NEW S, NEW l \in Seq(S), l # <<>>
  PROVE  /\ Tail(l) \in Seq(S) /\ Len(Tail(l)) = Len(l) - 1 /\ Len(l) \in Nat \ {0}
         /\ Head(l) = l[1] /\ Head(l) \in S
         /\ DOMAIN l = 1 .. Len(l) /\ DOMAIN Tail(l) = 1 .. Len(l) - 1
         /\ \A i \in 1 .. Len(l) - 1 : Tail(l)[i] = l[i + 1]
<1>1. /\ Tail(l) \in Seq(S) /\ Len(Tail(l)) = Len(l) - 1
      /\ Head(l) = l[1] /\ Head(l) \in S /\ Len(l) \in Nat \ {0}
      /\ \A i \in 1 .. Len(Tail(l)) : Tail(l)[i] = l[i + 1]
  BY HeadTailProperties, EmptySeq, LenProperties
<1> QED
  BY <1>1, LenProperties

\* The first of some positions.
LEMMA FirstOf ==
  ASSUME NEW T \in SUBSET Nat, T # {}
  PROVE  Min(T) \in T
<1>1. PICK x \in T : \A y \in T : ~(<<y, x>> \in OpToRel(<, Nat))
  BY NatLessThanWellFounded, WFMin
<1>2. ASSUME NEW y \in T PROVE x <= y
  <2>1. x \in Nat /\ y \in Nat
    OBVIOUS
  <2>2. ~(y < x)
    BY <1>1, <2>1 DEF OpToRel
  <2> QED
    BY <2>1, <2>2
<1> QED
  BY <1>2 DEF Min

\* What may be published.
Entries == [host : HostPorts, num : Nat, proto : {"tcp", "udp"}]

LEMMA EntryFacts ==
  ASSUME TypeOK, NEW r \in Runs
  PROVE  /\ published[r] \in Seq(Entries)
         /\ \A e \in ToSet(published[r]) : e \in Entries /\ Socket(e) \in Sockets /\ e.host # 0
<1>1. published[r] \in Seq(Entries)
  BY DEF TypeOK, Entries
<1>2. \A e \in Entries : Socket(e) \in Sockets /\ e.host # 0
  BY PortsAssumption DEF Entries, Socket, Sockets
<1>3. ToSet(published[r]) \subseteq Entries
  BY <1>1, LenProperties DEF ToSet
<1> QED
  BY <1>1, <1>2, <1>3

LEMMA TodoFacts ==
  ASSUME TypeOK, NEW r \in Runs
  PROVE  /\ todo[r] \in Seq(PortStrings)
         /\ exposed[r] \in Seq(PortStrings) /\ ToSet(exposed[r]) \subseteq PortStrings
BY PortStringFacts DEF TypeOK

-----------------------------------------------------------------------------
(* A step of one Run, and the others.                                      *)

Own(r) == <<exposed[r], mapping[r], hostPorts[r], todo[r], listener[r], published[r], pc[r]>>

\* What a step that is not its own does to a Run: nothing, and it takes no socket from it.
LeavesAlone(r) ==
  /\ UNCHANGED Own(r)
  /\ \A k \in Sockets : holder'[k] # holder[k] => ~Belongs(holder[k], r) /\ ~Belongs(holder'[k], r)

LEMMA LeftAlone ==
  ASSUME PortsInv, TypeOK', NEW r \in Runs, LeavesAlone(r)
  PROVE  HoldsOnlyItsOwn(r)' /\ PublishesWhatIsAsked(r)'
<1>1. UNCHANGED <<exposed[r], mapping[r], hostPorts[r], todo[r], listener[r], published[r], pc[r]>>
  BY DEF LeavesAlone, Own
<1>2. \A k \in Sockets : Belongs(holder[k], r) \/ Belongs(holder'[k], r) => holder'[k] = holder[k]
  BY DEF LeavesAlone
<1>3. PublishesWhatIsAsked(r)'
  BY <1>1 DEF PortsInv, PublishesWhatIsAsked, Published
<1>4. HoldsOnlyItsOwn(r)'
  <2>1. ASSUME NEW k \in Sockets
        PROVE  /\ holder'[k] = Listener(r) <=> listener[r] # 0 /\ k = <<"tcp", listener[r]>>
               /\ holder'[k].kind = "container" /\ holder'[k].of = r =>
                    mapping[r] /\ pc[r] = "running" /\ \E e \in ToSet(published[r]) : Socket(e) = k
    <3>1. /\ holder[k] = Listener(r) <=> listener[r] # 0 /\ k = <<"tcp", listener[r]>>
          /\ holder[k].kind = "container" /\ holder[k].of = r =>
               mapping[r] /\ pc[r] = "running" /\ \E e \in ToSet(published[r]) : Socket(e) = k
      BY DEF PortsInv, HoldsOnlyItsOwn
    <3>2. CASE holder'[k] = holder[k]
      BY <3>1, <3>2
    <3>3. CASE ~Belongs(holder[k], r) /\ ~Belongs(holder'[k], r)
      <4>1. holder[k] # Listener(r) /\ holder'[k] # Listener(r)
        BY <3>3, HolderFacts
      <4>2. ~(holder'[k].kind = "container" /\ holder'[k].of = r)
        BY <3>3 DEF Belongs
      <4> QED
        BY <3>1, <4>1, <4>2
    <3> QED
      BY <1>2, <3>2, <3>3
  <2>2. listener[r] # 0 => Wanted(r)' /\ hostPorts[r][Head(todo[r])] = 0
    BY <1>1 DEF PortsInv, HoldsOnlyItsOwn, Wanted, Visiting
  <2>3. ASSUME pc[r] = "running", NEW e \in ToSet(published[r])
        PROVE  holder'[Socket(e)] = Forward(r, e.num)
    <3>1. holder[Socket(e)] = Forward(r, e.num) /\ Socket(e) \in Sockets
      BY <2>3, EntryFacts DEF PortsInv, HoldsOnlyItsOwn
    <3> QED
      BY <1>2, <3>1, HolderFacts
  <2> QED
    BY <1>1, <2>1, <2>2, <2>3 DEF HoldsOnlyItsOwn
<1> QED
  BY <1>3, <1>4

LEMMA OneRunSteps ==
  ASSUME PortsInv, TypeOK', NEW r \in Runs,
         HoldsOnlyItsOwn(r)', PublishesWhatIsAsked(r)', \A q \in Runs \ {r} : LeavesAlone(q)
  PROVE  PortsInv'
BY LeftAlone DEF PortsInv

\* One turn of the loop: the first port still to be visited is skipped, or published at
\* host port p, which is then written down in HostPorts.
Turn(r, p) ==
  LET s == Head(todo[r])
  IN  /\ todo[r] # <<>> /\ todo' = [todo EXCEPT ![r] = Tail(@)]
      /\ UNCHANGED <<exposed, mapping>>
      /\ \/ /\ s.num = 0 \/ ~mapping[r]
            /\ UNCHANGED <<hostPorts, published>>
         \/ /\ p \in HostPorts /\ s.num > 0 /\ mapping[r]
            /\ published' = [published EXCEPT ![r] = Append(@, [host |-> p, num |-> s.num, proto |-> s.proto])]
            /\ hostPorts[r][s] \in {0, p} /\ hostPorts' = [hostPorts EXCEPT ![r][s] = p]

LEMMA TurnTypes ==
  ASSUME TypeOK, NEW r \in Runs, NEW p, Turn(r, p)
  PROVE  /\ exposed' \in [Runs -> Lists] /\ mapping' \in [Runs -> BOOLEAN]
         /\ hostPorts' \in [Runs -> [PortStrings -> HostPorts \cup {0}]]
         /\ todo' \in [Runs -> Seq(PortStrings)]
         /\ published' \in [Runs -> Seq([host : HostPorts, num : Nat, proto : {"tcp", "udp"}])]
<1> DEFINE s == Head(todo[r])
           e == [host |-> p, num |-> s.num, proto |-> s.proto]
<1>1. Tail(todo[r]) \in Seq(PortStrings) /\ s \in PortStrings
  BY TodoFacts, TailFacts DEF Turn
<1>2. s.num \in Nat /\ s.proto \in {"tcp", "udp"}
  BY <1>1, PortStringFacts
<1>3. exposed' \in [Runs -> Lists] /\ mapping' \in [Runs -> BOOLEAN]
  BY DEF Turn, TypeOK
<1>4. todo' \in [Runs -> Seq(PortStrings)]
  BY <1>1 DEF Turn, TypeOK
<1>5. CASE UNCHANGED <<hostPorts, published>>
  BY <1>3, <1>4, <1>5 DEF TypeOK
<1>6. CASE /\ p \in HostPorts
           /\ published' = [published EXCEPT ![r] = Append(@, e)]
           /\ hostPorts' = [hostPorts EXCEPT ![r][s] = p]
  <2>1. Append(published[r], e) \in Seq(Entries)
    <3>1. e \in Entries
      BY <1>2, <1>6 DEF Entries
    <3> QED
      BY <3>1, EntryFacts, AppendFacts
  <2>2. published' \in [Runs -> Seq(Entries)]
    BY <1>6, <2>1 DEF TypeOK, Entries
  <2>3. hostPorts' \in [Runs -> [PortStrings -> HostPorts \cup {0}]]
    BY <1>6 DEF TypeOK
  <2> QED
    BY <1>3, <1>4, <2>2, <2>3 DEF Entries
<1> QED
  BY <1>5, <1>6 DEF Turn

\* Nothing that was published is lost, and what was wanted is published now.
LEMMA TurnPublishes ==
  ASSUME TypeOK, NEW r \in Runs, NEW s \in PortStrings, s = Head(todo[r]), NEW p, Turn(r, p)
  PROVE  /\ \A t : Published(r, t) # {} => Published(r, t)' # {}
         /\ mapping[r] /\ s.num > 0 => Published(r, s)' # {}
         /\ \A e \in ToSet(published'[r]) :
              \/ e \in ToSet(published[r])
              \/ mapping[r] /\ s.num = e.num /\ s.proto = e.proto /\ hostPorts'[r][s] = e.host
<1> DEFINE e == [host |-> p, num |-> s.num, proto |-> s.proto]
           old == published[r]
           new == published'[r]
<1>0. s.num \in Nat /\ s.proto \in {"tcp", "udp"}
  BY PortStringFacts
<1>1. CASE UNCHANGED published /\ (s.num = 0 \/ ~mapping[r])
  BY <1>0, <1>1 DEF Published
<1>2. CASE /\ p \in HostPorts /\ s.num > 0 /\ mapping[r]
           /\ published' = [published EXCEPT ![r] = Append(@, e)]
           /\ hostPorts' = [hostPorts EXCEPT ![r][s] = p]
  <2>1. new = Append(old, e) /\ e \in Entries /\ old \in Seq(Entries)
    BY <1>0, <1>2, EntryFacts DEF TypeOK, Entries
  <2>2. e.num = s.num /\ e.proto = s.proto /\ e.host = p
    OBVIOUS
  <2>3. hostPorts'[r][s] = p
    BY <1>2 DEF TypeOK
  <2> HIDE DEF e
  <2>4. /\ DOMAIN new = 1 .. Len(old) + 1 /\ DOMAIN old = 1 .. Len(old) /\ Len(old) \in Nat
        /\ \A i \in 1 .. Len(old) : new[i] = old[i]
        /\ new[Len(old) + 1] = e /\ ToSet(new) = ToSet(old) \cup {e}
    BY <2>1, AppendFacts
  <2>5. ASSUME NEW t, NEW i \in Published(r, t) PROVE i \in Published(r, t)'
    <3>1. i \in 1 .. Len(old) /\ old[i].num = t.num /\ old[i].proto = t.proto
      BY <2>4, <2>5 DEF Published
    <3>2. i \in DOMAIN new /\ new[i] = old[i]
      BY <2>4, <3>1
    <3> QED
      BY <3>1, <3>2 DEF Published
  <2>6. Published(r, s)' # {}
    <3>1. Len(old) + 1 \in DOMAIN new /\ new[Len(old) + 1].num = s.num /\ new[Len(old) + 1].proto = s.proto
      BY <2>2, <2>4
    <3> QED
      BY <3>1 DEF Published
  <2> QED
    BY <1>2, <2>2, <2>3, <2>4, <2>5, <2>6
<1> QED
  BY <1>1, <1>2 DEF Turn

\* Positions before and after a turn.
LEMMA Positions ==
  ASSUME NEW n \in Nat, NEW m \in Nat \ {0}, m <= n
  PROVE  /\ 1 \in 1 .. m /\ n - m + 1 \in 1 .. n /\ m - 1 <= n
         /\ \A i \in 1 .. m - 1 : i + 1 \in 1 .. m /\ n - m + (i + 1) = n - (m - 1) + i
         /\ \A i \in 1 .. n - (m - 1) : i \in 1 .. n - m \/ i = n - m + 1
OBVIOUS

LEMMA TurnKeeps ==
  ASSUME TypeOK, NEW r \in Runs, PublishesWhatIsAsked(r), pc[r] = "args", pc'[r] = "args",
         NEW p, Turn(r, p)
  PROVE  PublishesWhatIsAsked(r)'
<1> DEFINE visited == Len(exposed[r]) - Len(todo[r])
<1>1. /\ todo[r] \in Seq(PortStrings) /\ todo[r] # <<>> /\ todo'[r] = Tail(todo[r])
      /\ exposed[r] \in Seq(PortStrings) /\ exposed'[r] = exposed[r] /\ mapping'[r] = mapping[r]
  BY TodoFacts DEF Turn, TypeOK
<1>2. /\ Len(todo'[r]) = Len(todo[r]) - 1 /\ Len(todo[r]) \in Nat \ {0}
      /\ Head(todo[r]) = todo[r][1] /\ Head(todo[r]) \in PortStrings
      /\ DOMAIN todo[r] = 1 .. Len(todo[r]) /\ DOMAIN todo'[r] = 1 .. Len(todo[r]) - 1
      /\ \A i \in 1 .. Len(todo[r]) - 1 : todo'[r][i] = todo[r][i + 1]
  BY <1>1, TailFacts
<1>3. Len(exposed[r]) \in Nat /\ DOMAIN exposed[r] = 1 .. Len(exposed[r])
  BY <1>1, LenProperties
<1>4. /\ Len(todo[r]) <= Len(exposed[r])
      /\ \A i \in DOMAIN todo[r] : todo[r][i] = exposed[r][visited + i]
  BY DEF PublishesWhatIsAsked
<1>5. PICK s \in PortStrings : s = Head(todo[r])
  BY <1>2
<1>6. s = exposed[r][visited + 1] /\ s \in ToSet(exposed[r])
  <2>1. 1 \in DOMAIN todo[r] /\ visited + 1 \in DOMAIN exposed[r]
    BY <1>2, <1>3, <1>4, Positions
  <2>2. s = exposed[r][visited + 1]
    BY <1>2, <1>4, <1>5, <2>1
  <2> QED
    BY <2>1, <2>2 DEF ToSet
<1>7. /\ Len(todo'[r]) <= Len(exposed[r])
      /\ \A i \in DOMAIN todo'[r] : todo'[r][i] = exposed[r][Len(exposed[r]) - Len(todo'[r]) + i]
  <2>1. ASSUME NEW i \in 1 .. Len(todo[r]) - 1
        PROVE  todo'[r][i] = exposed[r][Len(exposed[r]) - (Len(todo[r]) - 1) + i]
    <3>1. /\ i + 1 \in DOMAIN todo[r]
          /\ visited + (i + 1) = Len(exposed[r]) - (Len(todo[r]) - 1) + i
      BY <1>2, <1>3, <1>4, Positions
    <3>2. todo'[r][i] = todo[r][i + 1]
      BY <1>2
    <3>3. todo[r][i + 1] = exposed[r][visited + (i + 1)]
      BY <1>4, <3>1
    <3> HIDE DEF visited
    <3> QED
      BY <3>1, <3>2, <3>3
  <2>2. Len(todo'[r]) <= Len(exposed[r])
    BY <1>2, <1>3, <1>4, Positions
  <2> QED
    BY <1>2, <2>1, <2>2
<1>8. /\ \A t : Published(r, t) # {} => Published(r, t)' # {}
      /\ mapping[r] /\ s.num > 0 => Published(r, s)' # {}
      /\ \A e \in ToSet(published'[r]) :
           \/ e \in ToSet(published[r])
           \/ mapping[r] /\ s.num = e.num /\ s.proto = e.proto /\ hostPorts'[r][s] = e.host
  BY <1>5, TurnPublishes
<1>9. mapping[r] => \A i \in 1 .. Len(exposed[r]) - Len(todo'[r]) :
         exposed[r][i].num > 0 => Published(r, exposed[r][i])' # {}
  <2> SUFFICES ASSUME mapping[r], NEW i \in 1 .. Len(exposed[r]) - Len(todo'[r]),
                      exposed[r][i].num > 0
               PROVE  Published(r, exposed[r][i])' # {}
    OBVIOUS
  <2>1. i \in 1 .. visited \/ i = visited + 1
    BY <1>2, <1>3, <1>4, Positions
  <2>2. PICK t : t = exposed[r][i]
    OBVIOUS
  <2>3. Published(r, t)' # {}
    <3>1. CASE i \in 1 .. visited
      <4>1. Published(r, t) # {}
        BY <2>2, <3>1 DEF PublishesWhatIsAsked
      <4> QED
        BY <1>8, <4>1
    <3>2. CASE i = visited + 1
      BY <1>6, <1>8, <2>2, <3>2
    <3> QED
      BY <2>1, <3>1, <3>2
  <2>4. Published(r, exposed[r][i])' = Published(r, t)'
    BY <1>1, <2>2 DEF Published
  <2> QED
    BY <2>3, <2>4
<1>10. ASSUME NEW e \in ToSet(published'[r])
       PROVE  /\ mapping[r]
              /\ \E t \in ToSet(exposed[r]) :
                   t.num = e.num /\ t.proto = e.proto /\ hostPorts'[r][t] = e.host
  <2>1. CASE e \in ToSet(published[r])
    <3>1. mapping[r] /\ e.host # 0
      BY <2>1, EntryFacts DEF PublishesWhatIsAsked
    <3>2. PICK t \in ToSet(exposed[r]) : t.num = e.num /\ t.proto = e.proto /\ hostPorts[r][t] = e.host
      BY <2>1 DEF PublishesWhatIsAsked
    <3>3. hostPorts'[r][t] = e.host
      <4>1. t \in PortStrings
        BY TodoFacts
      <4>2. \/ UNCHANGED hostPorts
            \/ hostPorts[r][s] \in {0, p} /\ hostPorts' = [hostPorts EXCEPT ![r][s] = p]
        BY <1>5 DEF Turn
      <4> QED
        BY <1>5, <3>1, <3>2, <4>1, <4>2 DEF TypeOK
    <3> QED
      BY <3>1, <3>2, <3>3
  <2>2. CASE mapping[r] /\ s.num = e.num /\ s.proto = e.proto /\ hostPorts'[r][s] = e.host
    BY <1>6, <2>2
  <2> QED
    BY <1>8, <2>1, <2>2
<1> QED
  <2>1. mapping'[r] => \A i \in 1 .. Len(exposed'[r]) - Len(todo'[r]) :
           exposed'[r][i].num > 0 => Published(r, exposed[r][i])' # {}
    BY <1>1, <1>9
  <2>2. pc'[r] \notin {"created", "refused", "running"}
    OBVIOUS
  <2> QED
    BY <1>1, <1>7, <1>10, <2>1, <2>2 DEF PublishesWhatIsAsked

-----------------------------------------------------------------------------
(* The steps of Run.                                                       *)

\* The types of what the steps of a Run outside its loop change.
LEMMA LabelType ==
  ASSUME TypeOK, NEW r \in Runs, NEW label, Goto(r, label),
         label \in {"validate", "args", "created", "refused", "running", "gone", "failed"}
  PROVE  /\ pc' \in [Runs -> {"validate", "args", "created", "refused", "running", "gone", "failed"}]
         /\ pc'[r] = label /\ \A q \in Runs \ {r} : pc'[q] = pc[q]
BY DEF TypeOK, Goto

\* A step that changes only where a Run is, short of running.
LEMMA GoesOn ==
  ASSUME PortsInv, NEW r \in Runs, NEW label, Goto(r, label),
         label \in {"args", "created", "refused", "failed"},
         UNCHANGED <<exposed, mapping, hostPorts, todo, listener, published, holder>>,
         label \in {"created", "refused"} => todo[r] = <<>>,
         pc[r] # "running" /\ listener[r] = 0
  PROVE  PortsInv'
<1>0. TypeOK
  BY DEF PortsInv
<1>1. /\ pc' \in [Runs -> {"validate", "args", "created", "refused", "running", "gone", "failed"}]
      /\ pc'[r] = label /\ \A q \in Runs \ {r} : pc'[q] = pc[q]
  BY <1>0, LabelType
<1>2. TypeOK'
  BY <1>0, <1>1 DEF TypeOK
<1>3. \A q \in Runs \ {r} : LeavesAlone(q)
  BY <1>1 DEF LeavesAlone, Own
<1>4. PublishesWhatIsAsked(r)'
  <2>1. \A t : Published(r, t)' = Published(r, t)
    BY DEF Published
  <2>2. pc'[r] \in {"created", "refused", "running"} => todo[r] = <<>>
    BY <1>1
  <2>3. PublishesWhatIsAsked(r)
    BY DEF PortsInv
  <2> QED
    BY <2>1, <2>2, <2>3 DEF PublishesWhatIsAsked
<1>5. HoldsOnlyItsOwn(r)'
  BY <1>1 DEF PortsInv, HoldsOnlyItsOwn
<1> QED
  BY <1>2, <1>3, <1>4, <1>5, OneRunSteps

LEMMA ValidateKeeps == ASSUME PortsInv, NEW r \in Runs, Validate(r) PROVE PortsInv'
<1>1. listener[r] = 0
  BY DEF Validate, PortsInv, HoldsOnlyItsOwn, Wanted, Visiting
<1>2. PICK label \in {"args", "failed"} : Goto(r, label)
  BY DEF Validate
<1> QED
  BY <1>1, <1>2, GoesOn DEF Validate

LEMMA CreateKeeps == ASSUME PortsInv, NEW r \in Runs, Create(r) PROVE PortsInv'
<1>1. listener[r] = 0
  BY DEF Create, PortsInv, HoldsOnlyItsOwn, Wanted, Visiting
<1>2. PICK label \in {"created", "failed"} : Goto(r, label)
  BY DEF Create
<1> QED
  BY <1>1, <1>2, GoesOn DEF Create

\* A turn that leaves no listener open.
LEMMA TurnSteps ==
  ASSUME PortsInv, NEW r \in Runs, pc[r] = "args", UNCHANGED pc, NEW p, Turn(r, p),
         listener' \in [Runs -> HostPorts \cup {0}], holder' \in [Sockets -> Holders],
         listener'[r] = 0, \A k \in Sockets : ~Belongs(holder'[k], r),
         \A q \in Runs \ {r} :
           /\ listener'[q] = listener[q]
           /\ \A k \in Sockets :
                holder'[k] # holder[k] => ~Belongs(holder[k], q) /\ ~Belongs(holder'[k], q)
  PROVE  PortsInv'
<1>0. TypeOK /\ PublishesWhatIsAsked(r)
  BY DEF PortsInv
<1>1. TypeOK'
  BY <1>0, TurnTypes DEF TypeOK
<1>2. \A q \in Runs \ {r} : LeavesAlone(q)
  BY <1>0 DEF Turn, TypeOK, LeavesAlone, Own
<1>3. PublishesWhatIsAsked(r)'
  BY <1>0, TurnKeeps
<1>4. HoldsOnlyItsOwn(r)'
  <2>1. ASSUME NEW k \in Sockets
        PROVE  holder'[k] # Listener(r) /\ ~(holder'[k].kind = "container" /\ holder'[k].of = r)
    BY HolderFacts DEF Belongs
  <2>2. pc'[r] # "running"
    OBVIOUS
  <2> QED
    BY <2>1, <2>2 DEF HoldsOnlyItsOwn
<1> QED
  BY <1>1, <1>2, <1>3, <1>4, OneRunSteps

\* What belongs to a Run is its listener or its container's.
LEMMA OnlyListeners ==
  ASSUME TypeOK, NEW r \in Runs, NEW k \in Sockets,
         holder[k] # Listener(r), ~(holder[k].kind = "container" /\ holder[k].of = r)
  PROVE  ~Belongs(holder[k], r)
<1> SUFFICES ASSUME Belongs(holder[k], r) PROVE FALSE
  OBVIOUS
<1>1. holder[k] \in Holders
  BY DEF TypeOK
<1>2. PICK q \in Runs : Belongs(holder[k], q) /\ (holder[k] = Listener(q) \/ holder[k].kind = "container")
  BY <1>1, HolderCases, HolderFacts
<1>3. q = r
  BY <1>2 DEF Belongs
<1> QED
  BY <1>2, <1>3 DEF Belongs

\* In the loop, a Run without a listener has no socket.
LEMMA HasNone ==
  ASSUME PortsInv, NEW r \in Runs, pc[r] # "running", listener[r] = 0
  PROVE  \A k \in Sockets : ~Belongs(holder[k], r)
BY OnlyListeners DEF PortsInv, HoldsOnlyItsOwn

LEMMA SkipKeeps == ASSUME PortsInv, NEW r \in Runs, Skip(r) PROVE PortsInv'
<1>1. listener[r] = 0 /\ pc[r] = "args" /\ TypeOK
  BY DEF Skip, Visiting, PortsInv, HoldsOnlyItsOwn
<1>2. Head(todo[r]).num \in Nat
  BY <1>1, TodoFacts, TailFacts, PortStringFacts DEF Skip, Visiting
<1>3. Turn(r, 0)
  BY <1>2 DEF Skip, Wanted, Visiting, Turn
<1> QED
  BY <1>1, <1>3, HasNone, TurnSteps DEF Skip, TypeOK

LEMMA ReuseKeeps == ASSUME PortsInv, NEW r \in Runs, Reuse(r) PROVE PortsInv'
<1> DEFINE s == Head(todo[r])
<1>1. listener[r] = 0 /\ pc[r] = "args" /\ TypeOK
  <2>1. hostPorts[r][s] # 0
    BY PortsAssumption DEF Reuse
  <2> QED
    BY <2>1 DEF Reuse, Wanted, Visiting, PortsInv, HoldsOnlyItsOwn
<1>2. s \in PortStrings
  BY <1>1, TodoFacts, TailFacts DEF Reuse, Wanted, Visiting
<1>3. hostPorts[r][s] \in HostPorts /\ [hostPorts EXCEPT ![r][s] = hostPorts[r][s]] = hostPorts
  BY <1>1, <1>2 DEF TypeOK, Reuse
<1>4. Turn(r, hostPorts[r][s])
  BY <1>3 DEF Reuse, Wanted, Visiting, Publish, Turn
<1> QED
  BY <1>1, <1>4, HasNone, TurnSteps DEF Reuse, TypeOK

LEMMA ListenKeeps == ASSUME PortsInv, NEW r \in Runs, Listen(r) PROVE PortsInv'
<1>1. TypeOK /\ pc[r] = "args" /\ listener[r] = 0
  BY DEF PortsInv, Listen, Wanted, Visiting
<1>2. CASE Goto(r, "failed") /\ UNCHANGED <<listener, holder>>
  BY <1>1, <1>2, GoesOn DEF Listen
<1>3. CASE /\ \E p \in HostPorts :
                /\ holder[<<"tcp", p>>] = Free
                /\ holder' = [holder EXCEPT ![<<"tcp", p>>] = Listener(r)]
                /\ listener' = [listener EXCEPT ![r] = p]
           /\ UNCHANGED pc
  <2>1. PICK p \in HostPorts :
          /\ holder[<<"tcp", p>>] = Free
          /\ holder' = [holder EXCEPT ![<<"tcp", p>>] = Listener(r)]
          /\ listener' = [listener EXCEPT ![r] = p]
    BY <1>3
  <2> DEFINE socket == <<"tcp", p>>
  <2>2. socket \in Sockets /\ p # 0 /\ UNCHANGED <<exposed, mapping, hostPorts, todo, published, pc>>
    BY <1>3, PortsAssumption DEF Sockets, Listen
  <2>3. /\ holder' \in [Sockets -> Holders]
        /\ holder'[socket] = Listener(r)
        /\ \A k \in Sockets : k # socket => holder'[k] = holder[k]
    <3>1. Listener(r) \in Holders
      BY DEF Holders
    <3> QED
      BY <1>1, <2>1, <2>2, <3>1 DEF TypeOK
  <2>4. listener' \in [Runs -> HostPorts \cup {0}] /\ listener'[r] = p
        /\ \A q \in Runs \ {r} : listener'[q] = listener[q]
    BY <1>1, <2>1 DEF TypeOK
  <2>5. TypeOK'
    BY <1>1, <2>2, <2>3, <2>4 DEF TypeOK
  <2>6. \A q \in Runs \ {r} : LeavesAlone(q)
    BY <2>1, <2>2, <2>3, <2>4, HolderFacts DEF LeavesAlone, Own
  <2>7. PublishesWhatIsAsked(r)'
    <3>1. \A t : Published(r, t)' = Published(r, t)
      BY <2>2 DEF Published
    <3>2. PublishesWhatIsAsked(r)
      BY DEF PortsInv
    <3> QED
      BY <2>2, <3>1, <3>2 DEF PublishesWhatIsAsked
  <2>8. HoldsOnlyItsOwn(r)'
    <3>1. ASSUME NEW k \in Sockets
          PROVE  /\ holder'[k] = Listener(r) <=> k = socket
                 /\ ~(holder'[k].kind = "container" /\ holder'[k].of = r)
      BY <1>1, <2>3, HasNone, HolderFacts DEF Belongs
    <3>2. Wanted(r)' /\ hostPorts'[r][Head(todo'[r])] = 0
      BY <2>2 DEF Listen, Wanted, Visiting
    <3> QED
      BY <1>1, <2>2, <2>4, <3>1, <3>2 DEF HoldsOnlyItsOwn
  <2> QED
    BY <2>5, <2>6, <2>7, <2>8, OneRunSteps
<1> QED
  BY <1>2, <1>3 DEF Listen

LEMMA CloseListenerKeeps == ASSUME PortsInv, NEW r \in Runs, CloseListener(r) PROVE PortsInv'
<1> DEFINE p == listener[r]
           socket == <<"tcp", p>>
           s == Head(todo[r])
<1>1. /\ TypeOK /\ Wanted(r) /\ hostPorts[r][s] = 0 /\ p \in HostPorts
      /\ UNCHANGED <<exposed, mapping, pc>>
  BY DEF PortsInv, HoldsOnlyItsOwn, CloseListener, TypeOK
<1>2. pc[r] = "args" /\ socket \in Sockets /\ holder[socket] = Listener(r)
  BY <1>1 DEF Wanted, Visiting, PortsInv, HoldsOnlyItsOwn, Sockets, CloseListener
<1>3. Turn(r, p)
  BY <1>1 DEF CloseListener, Publish, Wanted, Visiting, Turn
<1>4. /\ holder' \in [Sockets -> Holders] /\ holder'[socket] = Free
      /\ \A k \in Sockets : k # socket => holder'[k] = holder[k]
  <2>1. Free \in Holders
    BY DEF Holders
  <2> QED
    BY <1>1, <1>2, <2>1 DEF CloseListener, TypeOK
<1>5. /\ listener' \in [Runs -> HostPorts \cup {0}] /\ listener'[r] = 0
      /\ \A q \in Runs \ {r} : listener'[q] = listener[q]
  BY <1>1 DEF CloseListener, TypeOK
<1>6. ASSUME NEW k \in Sockets PROVE ~Belongs(holder'[k], r)
  <2>1. CASE k = socket
    BY <1>4, <2>1, HolderFacts
  <2>2. CASE k # socket
    <3>1. holder[k] # Listener(r) /\ ~(holder[k].kind = "container" /\ holder[k].of = r)
      BY <1>2, <2>2 DEF PortsInv, HoldsOnlyItsOwn
    <3>2. ~Belongs(holder[k], r)
      BY <1>1, <3>1, OnlyListeners
    <3> QED
      BY <1>4, <2>2, <3>2
  <2> QED
    BY <2>1, <2>2
<1>7. \A q \in Runs \ {r} : \A k \in Sockets :
        holder'[k] # holder[k] => ~Belongs(holder[k], q) /\ ~Belongs(holder'[k], q)
  BY <1>2, <1>4, HolderFacts
<1> HIDE DEF p, socket, s
<1> QED
  BY <1>1, <1>2, <1>3, <1>4, <1>5, <1>6, <1>7, TurnSteps

\* The daemon takes each published socket for the port it is published for.
LEMMA StartBinds ==
  ASSUME PortsInv, NEW r \in Runs, Start(r), CanBind(r)
  PROVE  /\ \A e \in ToSet(published[r]) :
              holder[Socket(e)] = Free /\ holder'[Socket(e)] = Forward(r, e.num)
         /\ \A k \in Sockets : (\A e \in ToSet(published[r]) : Socket(e) # k) => holder'[k] = holder[k]
         /\ DOMAIN holder' = Sockets
<1> DEFINE ours == ToSet(published[r])
<1>1. holder' = [k \in Sockets |->
        IF \E e \in ours : Socket(e) = k
        THEN Forward(r, (CHOOSE e \in ours : Socket(e) = k).num)
        ELSE holder[k]]
  BY DEF Start
<1>2. \A d, e \in ours : Socket(d) = Socket(e) => d = e
  <2> SUFFICES ASSUME NEW d \in ours, NEW e \in ours, Socket(d) = Socket(e) PROVE d = e
    OBVIOUS
  <2>1. PICK i \in DOMAIN published[r], j \in DOMAIN published[r] : d = published[r][i] /\ e = published[r][j]
    BY DEF ToSet
  <2> QED
    BY <2>1 DEF CanBind, PublishesTwice
<1>3. \A e \in ours : Socket(e) \in Sockets
  BY EntryFacts DEF PortsInv
<1> HIDE DEF ours
<1>4. ASSUME NEW e \in ours PROVE holder'[Socket(e)] = Forward(r, e.num)
  <2>1. (CHOOSE d \in ours : Socket(d) = Socket(e)) = e
    BY <1>2
  <2> QED
    BY <1>1, <1>3, <2>1
<1> QED
  BY <1>1, <1>4 DEF ours, CanBind

LEMMA StartKeeps == ASSUME PortsInv, NEW r \in Runs, Start(r) PROVE PortsInv'
<1> DEFINE ours == ToSet(published[r])
<1>1. /\ TypeOK /\ pc[r] \in {"created", "refused"} /\ listener[r] = 0 /\ todo[r] = <<>>
      /\ UNCHANGED <<exposed, mapping, hostPorts, todo, listener, published>>
  BY DEF PortsInv, Start, HoldsOnlyItsOwn, Wanted, Visiting, PublishesWhatIsAsked
<1>2. CASE Goto(r, "refused") /\ UNCHANGED holder
  BY <1>1, <1>2, GoesOn
<1>3. CASE CanBind(r) /\ Goto(r, "running")
  <2>1. /\ \A e \in ours : holder[Socket(e)] = Free /\ holder'[Socket(e)] = Forward(r, e.num)
        /\ \A k \in Sockets : (\A e \in ours : Socket(e) # k) => holder'[k] = holder[k]
        /\ DOMAIN holder' = Sockets
    BY <1>3, StartBinds
  <2>2. \A e \in ours : mapping[r] /\ Socket(e) \in Sockets /\ Forward(r, e.num) \in Holders
    <3> SUFFICES ASSUME NEW e \in ours
                 PROVE  mapping[r] /\ Socket(e) \in Sockets /\ Forward(r, e.num) \in Holders
      OBVIOUS
    <3>1. PICK t \in ToSet(exposed[r]) : mapping[r] /\ t.num = e.num
      BY DEF PortsInv, PublishesWhatIsAsked
    <3>2. t \in PortStrings
      BY <1>1, TodoFacts
    <3>3. Forward(r, e.num) \in Holders
      BY <3>1, <3>2 DEF Holders
    <3> QED
      BY <1>1, <3>1, <3>3, EntryFacts
  <2>3. /\ pc' \in [Runs -> {"validate", "args", "created", "refused", "running", "gone", "failed"}]
        /\ pc'[r] = "running" /\ \A q \in Runs \ {r} : pc'[q] = pc[q]
    BY <1>1, <1>3, LabelType
  <2> HIDE DEF ours
  <2>4. holder' \in [Sockets -> Holders]
    <3>1. ASSUME NEW k \in Sockets PROVE holder'[k] \in Holders
      <4>1. CASE \E e \in ours : Socket(e) = k
        BY <2>1, <2>2, <4>1
      <4>2. CASE \A e \in ours : Socket(e) # k
        BY <1>1, <2>1, <4>2 DEF TypeOK
      <4> QED
        BY <4>1, <4>2
    <3>2. holder' = [k \in Sockets |-> holder'[k]]
      BY <1>3 DEF Start
    <3> QED
      BY <3>1, <3>2
  <2>5. TypeOK'
    BY <1>1, <2>3, <2>4 DEF TypeOK
  <2>6. ASSUME NEW q \in Runs \ {r} PROVE LeavesAlone(q)
    <3>1. ASSUME NEW k \in Sockets, holder'[k] # holder[k]
          PROVE  ~Belongs(holder[k], q) /\ ~Belongs(holder'[k], q)
      BY <2>1, <3>1, HolderFacts
    <3> QED
      BY <1>1, <2>3, <3>1 DEF LeavesAlone, Own
  <2>7. PublishesWhatIsAsked(r)'
    <3>1. \A t : Published(r, t)' = Published(r, t)
      BY <1>1 DEF Published
    <3>2. PublishesWhatIsAsked(r)
      BY DEF PortsInv
    <3> QED
      BY <1>1, <3>1, <3>2 DEF PublishesWhatIsAsked
  <2>8. HoldsOnlyItsOwn(r)'
    <3>1. ASSUME NEW k \in Sockets
          PROVE  /\ holder'[k] # Listener(r)
                 /\ holder'[k].kind = "container" /\ holder'[k].of = r =>
                      mapping[r] /\ \E e \in ours : Socket(e) = k
      <4>1. CASE \E e \in ours : Socket(e) = k
        BY <2>1, <2>2, <4>1, HolderFacts
      <4>2. CASE \A e \in ours : Socket(e) # k
        <5>1. holder'[k] = holder[k]
          BY <2>1, <4>2
        <5>2. ~Belongs(holder[k], r)
          BY <1>1, HasNone
        <5> QED
          BY <5>1, <5>2, HolderFacts DEF Belongs
      <4> QED
        BY <4>1, <4>2
    <3> QED
      BY <1>1, <2>1, <2>3, <3>1 DEF HoldsOnlyItsOwn, ours
  <2> QED
    BY <2>5, <2>6, <2>7, <2>8, OneRunSteps
<1> QED
  BY <1>2, <1>3 DEF Start

LEMMA EndKeeps == ASSUME PortsInv, NEW r \in Runs, End(r) PROVE PortsInv'
<1>1. /\ TypeOK /\ Goto(r, "gone") /\ listener[r] = 0
      /\ UNCHANGED <<exposed, mapping, hostPorts, todo, listener, published>>
  BY DEF PortsInv, End, HoldsOnlyItsOwn, Wanted, Visiting
<1>2. /\ pc' \in [Runs -> {"validate", "args", "created", "refused", "running", "gone", "failed"}]
      /\ pc'[r] = "gone" /\ \A q \in Runs \ {r} : pc'[q] = pc[q]
  BY <1>1, LabelType
<1>3. \A k \in Sockets : \/ holder'[k] = holder[k] /\ ~(holder[k].kind = "container" /\ holder[k].of = r)
                         \/ holder'[k] = Free /\ holder[k].kind = "container" /\ holder[k].of = r
  BY DEF End
<1>4. TypeOK'
  <2>1. holder' \in [Sockets -> Holders]
    <3>1. Free \in Holders
      BY DEF Holders
    <3> QED
      BY <1>1, <3>1 DEF End, TypeOK
  <2> QED
    BY <1>1, <1>2, <2>1 DEF TypeOK
<1>5. ASSUME NEW q \in Runs \ {r} PROVE LeavesAlone(q)
  <2>1. ASSUME NEW k \in Sockets, holder'[k] # holder[k]
        PROVE  ~Belongs(holder[k], q) /\ ~Belongs(holder'[k], q)
    BY <1>3, <2>1, HolderFacts DEF Belongs
  <2> QED
    BY <1>1, <1>2, <2>1 DEF LeavesAlone, Own
<1>6. PublishesWhatIsAsked(r)'
  <2>1. \A t : Published(r, t)' = Published(r, t)
    BY <1>1 DEF Published
  <2>2. PublishesWhatIsAsked(r)
    BY DEF PortsInv
  <2> QED
    BY <1>1, <1>2, <2>1, <2>2 DEF PublishesWhatIsAsked
<1>7. HoldsOnlyItsOwn(r)'
  <2>1. ASSUME NEW k \in Sockets
        PROVE  holder'[k] # Listener(r) /\ ~(holder'[k].kind = "container" /\ holder'[k].of = r)
    <3>1. holder[k] # Listener(r)
      BY <1>1 DEF PortsInv, HoldsOnlyItsOwn
    <3> QED
      BY <1>3, <3>1, HolderFacts
  <2> QED
    BY <1>1, <1>2, <2>1 DEF HoldsOnlyItsOwn
<1> QED
  BY <1>4, <1>5, <1>6, <1>7, OneRunSteps

LEMMA OthersKeep == ASSUME PortsInv, Others PROVE PortsInv'
<1>1. TypeOK
  BY DEF PortsInv
<1>2. PICK k \in Sockets : \/ holder[k] = Free /\ holder' = [holder EXCEPT ![k] = Foreign]
                           \/ holder[k] = Foreign /\ holder' = [holder EXCEPT ![k] = Free]
  BY DEF Others
<1>3. holder' \in [Sockets -> Holders]
  <2>1. Free \in Holders /\ Foreign \in Holders
    BY DEF Holders
  <2> QED
    BY <1>1, <1>2, <2>1 DEF TypeOK
<1>4. TypeOK'
  BY <1>1, <1>3 DEF Others, TypeOK
<1>5. ASSUME NEW r \in Runs PROVE LeavesAlone(r)
  <2>1. \A j \in Sockets : j # k => holder'[j] = holder[j]
    BY <1>1, <1>2 DEF TypeOK
  <2>2. holder'[k] \in {Free, Foreign} /\ holder[k] \in {Free, Foreign}
    BY <1>1, <1>2 DEF TypeOK
  <2>3. ~Belongs(holder[k], r) /\ ~Belongs(holder'[k], r)
    BY <2>2, HolderFacts
  <2> QED
    BY <2>1, <2>3 DEF Others, LeavesAlone, Own
<1> QED
  BY <1>4, <1>5, LeftAlone DEF PortsInv

-----------------------------------------------------------------------------
(* What follows.                                                           *)

LEMMA InitInv == Init => PortsInv
<1> SUFFICES ASSUME Init PROVE PortsInv
  OBVIOUS
<1>1. \A r \in Runs : exposed[r] \in Seq(PortStrings)
  BY PortStringFacts DEF Init
<1>2. TypeOK
  <2>1. todo \in [Runs -> Seq(PortStrings)]
    BY <1>1 DEF Init
  <2>2. published \in [Runs -> Seq([host : HostPorts, num : Nat, proto : {"tcp", "udp"}])]
    BY DEF Init
  <2>3. holder \in [Sockets -> Holders]
    BY DEF Init, Holders
  <2> QED
    BY <2>1, <2>2, <2>3 DEF Init, TypeOK
<1>3. ASSUME NEW r \in Runs PROVE HoldsOnlyItsOwn(r)
  <2>1. \A k \in Sockets : holder[k] # Listener(r) /\ holder[k].kind # "container"
    BY HolderFacts DEF Init
  <2> QED
    BY <2>1 DEF Init, HoldsOnlyItsOwn
<1>4. ASSUME NEW r \in Runs PROVE PublishesWhatIsAsked(r)
  <2>1. /\ todo[r] = exposed[r] /\ Len(exposed[r]) \in Nat /\ DOMAIN exposed[r] = 1 .. Len(exposed[r])
        /\ ToSet(published[r]) = {} /\ pc[r] = "validate"
    BY <1>1, LenProperties DEF Init, ToSet
  <2>2. \A i \in DOMAIN exposed[r] : Len(exposed[r]) - Len(exposed[r]) + i = i
    BY <2>1
  <2>3. 1 .. Len(exposed[r]) - Len(exposed[r]) = {}
    BY <2>1
  <2> QED
    BY <2>1, <2>2, <2>3 DEF PublishesWhatIsAsked
<1> QED
  BY <1>2, <1>3, <1>4 DEF PortsInv

\* What is published, what is held and what is written down agree: the inductive invariant
\* of Ports.
THEOREM PortsInvariant == Spec => []PortsInv
<1>1. PortsInv /\ [Next]_vars => PortsInv'
  <2> SUFFICES ASSUME PortsInv, [Next]_vars PROVE PortsInv'
    OBVIOUS
  <2>1. CASE UNCHANGED vars
    <3>1. \A r \in Runs : LeavesAlone(r)
      BY <2>1 DEF vars, LeavesAlone, Own
    <3>2. TypeOK'
      BY <2>1 DEF vars, PortsInv, TypeOK
    <3> QED
      BY <3>1, <3>2, LeftAlone DEF PortsInv
  <2> QED
    BY <2>1, ValidateKeeps, SkipKeeps, ReuseKeeps, ListenKeeps, CloseListenerKeeps, CreateKeeps,
       StartKeeps, EndKeeps, OthersKeep DEF Next
<1> QED
  BY <1>1, InitInv, PTL DEF Spec

\* While a container runs, what Endpoint says of a port it exposes leads to that port of
\* that container: MappedPort (container.go) finds the first published entry of its number
\* and protocol, and the daemon bound every entry to this container.
THEOREM EndpointsReachTheirPorts == Spec => []EndpointReachesItsPort
<1>1. PortsInv => EndpointReachesItsPort
  <2> SUFFICES ASSUME PortsInv, NEW r \in Runs, pc[r] = "running", NEW s \in ToSet(exposed[r]), s.num > 0
               PROVE  Answers(r, s) = Forward(r, s.num)
    BY DEF EndpointReachesItsPort
  <2>0. TypeOK /\ HoldsOnlyItsOwn(r) /\ PublishesWhatIsAsked(r)
    BY DEF PortsInv
  <2>1. CASE ~mapping[r]
    BY <2>1 DEF Answers, MappedPort
  <2>2. CASE mapping[r]
    <3> DEFINE found == Published(r, s)
               e == published[r][Min(found)]
    <3>1. found # {}
      <4>1. PICK i \in DOMAIN exposed[r] : s = exposed[r][i]
        BY DEF ToSet
      <4>2. i \in 1 .. Len(exposed[r]) - Len(todo[r])
        <5>1. todo[r] = <<>> /\ Len(exposed[r]) \in Nat /\ DOMAIN exposed[r] = 1 .. Len(exposed[r])
          BY <2>0, TodoFacts, LenProperties DEF PublishesWhatIsAsked
        <5> QED
          BY <4>1, <5>1
      <4> QED
        BY <2>0, <2>2, <4>1, <4>2 DEF PublishesWhatIsAsked
    <3>2. found \in SUBSET Nat
      <4>1. DOMAIN published[r] = 1 .. Len(published[r]) /\ Len(published[r]) \in Nat
        BY <2>0, EntryFacts, LenProperties
      <4> QED
        BY <4>1 DEF Published
    <3>3. Min(found) \in found
      BY <3>1, <3>2, FirstOf
    <3>4. e \in ToSet(published[r]) /\ e.num = s.num /\ e.proto = s.proto
      BY <3>3 DEF Published, ToSet
    <3>5. holder[Socket(e)] = Forward(r, e.num)
      BY <2>0, <3>4 DEF HoldsOnlyItsOwn
    <3>6. MappedPort(r, s) = e.host
      BY <2>2, <3>1 DEF MappedPort
    <3> QED
      BY <2>2, <3>4, <3>5, <3>6 DEF Answers, Socket
  <2> QED
    BY <2>1, <2>2
<1> QED
  BY <1>1, PortsInvariant, PTL

\* A start is refused only over a port that somebody else has taken, or that was published
\* twice; never over what this Run itself still holds.
THEOREM RefusalsAreOthers == Spec => RefusedOnlyIfTaken
<1> DEFINE Taken(r) ==
             \/ PublishesTwice(r)
             \/ \E e \in ToSet(published[r]) :
                  holder[Socket(e)].kind = "foreign" \/ holder[Socket(e)].of \in Runs \ {r}
           OnlyIfTaken == \A r \in Runs : pc[r] # "refused" /\ pc'[r] = "refused" => Taken(r)
<1>1. PortsInv /\ [Next]_vars => [OnlyIfTaken]_vars
  <2> SUFFICES ASSUME PortsInv, Next, NEW r \in Runs, pc[r] # "refused", pc'[r] = "refused"
               PROVE  Taken(r)
    OBVIOUS
  <2>0. TypeOK
    BY DEF PortsInv
  <2>1. Start(r) /\ ~CanBind(r)
    <3>1. ASSUME NEW q \in Runs, NEW label, label # "refused", Goto(q, label) PROVE FALSE
      BY <2>0, <3>1 DEF Goto, TypeOK
    <3>2. pc' # pc
      OBVIOUS
    <3>3. PICK q \in Runs : Start(q)
      <4>1. ~Others /\ \A q \in Runs : ~Skip(q) /\ ~Reuse(q) /\ ~CloseListener(q)
        BY <3>2 DEF Others, Skip, Reuse, CloseListener
      <4>2. \A q \in Runs : ~Validate(q) /\ ~Listen(q) /\ ~Create(q) /\ ~End(q)
        BY <3>1, <3>2 DEF Validate, Listen, Create, End
      <4> QED
        BY <4>1, <4>2 DEF Next
    <3>4. ~CanBind(q) /\ Goto(q, "refused")
      BY <3>1, <3>3 DEF Start
    <3>5. q = r
      BY <2>0, <3>4 DEF Goto, TypeOK
    <3> QED
      BY <3>3, <3>4, <3>5
  <2>2. CASE PublishesTwice(r)
    BY <2>2
  <2>3. CASE ~PublishesTwice(r)
    <3>1. PICK e \in ToSet(published[r]) : holder[Socket(e)] # Free
      BY <2>1, <2>3 DEF CanBind
    <3>2. holder[Socket(e)] \in Holders /\ Socket(e) \in Sockets
      BY <2>0, EntryFacts DEF TypeOK
    <3>3. ~Belongs(holder[Socket(e)], r)
      <4>1. pc[r] # "running" /\ listener[r] = 0
        BY <2>1 DEF Start, PortsInv, HoldsOnlyItsOwn, Wanted, Visiting
      <4> QED
        BY <3>2, <4>1, HasNone
    <3>4. \/ holder[Socket(e)].kind = "foreign"
          \/ \E q \in Runs : Belongs(holder[Socket(e)], q)
      BY <3>1, <3>2, HolderCases, HolderFacts
    <3> QED
      BY <3>3, <3>4 DEF Belongs
  <2> QED
    BY <2>2, <2>3
<1> QED
  BY <1>1, PortsInvariant, PTL DEF Spec, RefusedOnlyIfTaken
=============================================================================
