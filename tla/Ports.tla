-------------------------------- MODULE Ports --------------------------------
(***************************************************************************)
(* How exposed ports become host ports: buildCreateArgs (args.go) lets the *)
(* kernel pick a port by listening on it, closes the listener, and writes  *)
(* the port into the arguments of `container create`; the daemon binds it  *)
(* at the start, and MappedPort (container.go) looks it up.  Other Runs    *)
(* and other processes use ports meanwhile.  The kernel and the daemon are *)
(* external: a port is held by at most one socket per protocol.            *)
(***************************************************************************)
EXTENDS Naturals, Sequences, SequencesExt

CONSTANTS
  Runs,        \* calls of Run, each with one container
  HostPorts,   \* bound: the ports of the host
  Lists        \* what ExposedPorts may hold

\* A port string, as far as ParsePort tells it apart: num is 0 if it is no port number,
\* proto has its default, text tells apart strings that mean the same ("80", "80/tcp").
ASSUME PortsAssumption ==
  /\ HostPorts \subseteq Nat \ {0}
  /\ Lists \subseteq Seq([num : Nat, proto : {"tcp", "udp"}, text : STRING])

PortStrings == UNION {ToSet(l) : l \in Lists}

VARIABLES
  exposed, mapping,   \* the request: ExposedPorts and HostPortMapping
  hostPorts,          \* the request: HostPorts, 0 where there is no entry
  todo,               \* the part of ExposedPorts that buildCreateArgs has still to visit
  listener,           \* the port its listener is on, 0 without one
  published,          \* the --publish arguments, later PublishedPorts of Inspect
  pc,
  holder              \* per protocol and port of the host, who has it

vars == <<exposed, mapping, hostPorts, todo, listener, published, pc, holder>>

Free == [kind |-> "free", of |-> "nobody", to |-> 0]
Foreign == [kind |-> "foreign", of |-> "nobody", to |-> 0]
Listener(r) == [kind |-> "listener", of |-> r, to |-> 0]
Forward(r, n) == [kind |-> "container", of |-> r, to |-> n]

Sockets == {"tcp", "udp"} \X HostPorts

Init ==
  /\ exposed \in [Runs -> Lists]
  /\ mapping \in [Runs -> BOOLEAN]
  /\ hostPorts = [r \in Runs |-> [s \in PortStrings |-> 0]]
  /\ todo = exposed
  /\ listener = [r \in Runs |-> 0]
  /\ published = [r \in Runs |-> <<>>]
  /\ pc = [r \in Runs |-> "validate"]
  /\ holder = [k \in Sockets |-> Free]

Goto(r, label) == pc' = [pc EXCEPT ![r] = label]

\* Mapping asks for ports to map.
Validate(r) ==
  /\ pc[r] = "validate"
  /\ Goto(r, IF mapping[r] /\ exposed[r] = <<>> THEN "failed" ELSE "args")
  /\ UNCHANGED <<exposed, mapping, hostPorts, todo, listener, published, holder>>

-----------------------------------------------------------------------------
(* buildCreateArgs: one turn of its loop per exposed port.                 *)

Visiting(r) == pc[r] = "args" /\ todo[r] # <<>>

\* The port is to be published.
Wanted(r) == Visiting(r) /\ Head(todo[r]).num > 0 /\ mapping[r]

Publish(r, p) ==
  LET s == Head(todo[r])
  IN  /\ published' = [published EXCEPT ![r] = Append(@, [host |-> p, num |-> s.num, proto |-> s.proto])]
      /\ todo' = [todo EXCEPT ![r] = Tail(@)]

Skip(r) ==
  /\ Visiting(r) /\ ~Wanted(r)
  /\ todo' = [todo EXCEPT ![r] = Tail(@)]
  /\ UNCHANGED <<exposed, mapping, hostPorts, listener, published, pc, holder>>

\* The same string again: its host port is known.
Reuse(r) ==
  /\ Wanted(r) /\ hostPorts[r][Head(todo[r])] > 0
  /\ Publish(r, hostPorts[r][Head(todo[r])])
  /\ UNCHANGED <<exposed, mapping, hostPorts, listener, pc, holder>>

\* allocateEphemeralPort listens on TCP, whatever the protocol of the port.
Listen(r) ==
  /\ Wanted(r) /\ hostPorts[r][Head(todo[r])] = 0 /\ listener[r] = 0
  /\ \/ \E p \in HostPorts :
          /\ holder[<<"tcp", p>>] = Free
          /\ holder' = [holder EXCEPT ![<<"tcp", p>>] = Listener(r)]
          /\ listener' = [listener EXCEPT ![r] = p]
          /\ UNCHANGED pc
     \/ Goto(r, "failed") /\ UNCHANGED <<listener, holder>>
  /\ UNCHANGED <<exposed, mapping, hostPorts, todo, published>>

\* Mutants: the listener is not closed; the port is not noted in HostPorts.
KeepListening(r) ==
  /\ listener[r] # 0
  /\ listener' = [listener EXCEPT ![r] = 0]
  /\ hostPorts' = [hostPorts EXCEPT ![r][Head(todo[r])] = listener[r]]
  /\ Publish(r, listener[r])
  /\ UNCHANGED <<exposed, mapping, pc, holder>>

CloseAndForget(r) ==
  /\ listener[r] # 0
  /\ holder' = [holder EXCEPT ![<<"tcp", listener[r]>>] = Free]
  /\ listener' = [listener EXCEPT ![r] = 0]
  /\ Publish(r, listener[r])
  /\ UNCHANGED <<exposed, mapping, hostPorts, pc>>

\* The listener is closed before its port is written down.
CloseListener(r) ==
  /\ listener[r] # 0
  /\ holder' = [holder EXCEPT ![<<"tcp", listener[r]>>] = Free]
  /\ listener' = [listener EXCEPT ![r] = 0]
  /\ hostPorts' = [hostPorts EXCEPT ![r][Head(todo[r])] = listener[r]]
  /\ Publish(r, listener[r])
  /\ UNCHANGED <<exposed, mapping, pc>>

-----------------------------------------------------------------------------
(* The commands.                                                           *)

Create(r) ==
  /\ pc[r] = "args" /\ todo[r] = <<>>
  /\ \E label \in {"created", "failed"} : Goto(r, label)
  /\ UNCHANGED <<exposed, mapping, hostPorts, todo, listener, published, holder>>

Socket(e) == <<e.proto, e.host>>
PublishesTwice(r) ==
  \E i, j \in DOMAIN published[r] : i # j /\ Socket(published[r][i]) = Socket(published[r][j])
CanBind(r) ==
  ~PublishesTwice(r) /\ \A e \in ToSet(published[r]) : holder[Socket(e)] = Free

\* The daemon binds every published port or refuses to start; it may be asked again.
Start(r) ==
  /\ pc[r] \in {"created", "refused"}
  /\ \/ /\ CanBind(r)
        /\ holder' = [k \in Sockets |->
             IF \E e \in ToSet(published[r]) : Socket(e) = k
             THEN Forward(r, (CHOOSE e \in ToSet(published[r]) : Socket(e) = k).num)
             ELSE holder[k]]
        /\ Goto(r, "running")
     \/ ~CanBind(r) /\ Goto(r, "refused") /\ UNCHANGED holder
  /\ UNCHANGED <<exposed, mapping, hostPorts, todo, listener, published>>

\* The container stops or is deleted, and is removed.
End(r) ==
  /\ pc[r] \in {"created", "refused", "running"}
  /\ Goto(r, "gone")
  /\ holder' = [k \in Sockets |-> IF holder[k].kind = "container" /\ holder[k].of = r THEN Free ELSE holder[k]]
  /\ UNCHANGED <<exposed, mapping, hostPorts, todo, listener, published>>

\* Other processes come and go.
Others ==
  /\ \E k \in Sockets : \/ holder[k] = Free /\ holder' = [holder EXCEPT ![k] = Foreign]
                        \/ holder[k] = Foreign /\ holder' = [holder EXCEPT ![k] = Free]
  /\ UNCHANGED <<exposed, mapping, hostPorts, todo, listener, published, pc>>

Next ==
  \/ \E r \in Runs : \/ Validate(r) \/ Skip(r) \/ Reuse(r) \/ Listen(r) \/ CloseListener(r)
                     \/ Create(r) \/ Start(r) \/ End(r)
  \/ Others

Spec == Init /\ [][Next]_vars

-----------------------------------------------------------------------------
(* MappedPort and Endpoint, which change nothing.                          *)

\* Mutant: the protocol is not compared.
AnyProtocol(r, s) == {i \in DOMAIN published[r] : published[r][i].num = s.num}

\* Where a port stands among the published ones.
Published(r, s) ==
  {i \in DOMAIN published[r] : published[r][i].num = s.num /\ published[r][i].proto = s.proto}

\* The first of them; 0 stands for the error.
MappedPort(r, s) ==
  IF ~mapping[r] THEN s.num
  ELSE IF s.num > 0 /\ Published(r, s) # {} THEN published[r][Min(Published(r, s))].host ELSE 0

\* Which port of which container answers at the endpoint: its own address with the port
\* itself, or localhost with the mapped one.
Answers(r, s) ==
  IF mapping[r] THEN holder[<<s.proto, MappedPort(r, s)>>] ELSE Forward(r, MappedPort(r, s))

-----------------------------------------------------------------------------
(* Properties.                                                             *)

Holders ==
  {Free, Foreign} \cup {Listener(r) : r \in Runs}
    \cup {Forward(r, s.num) : r \in Runs, s \in PortStrings}

\* Every variable stays in its type.
TypeOK ==
  /\ exposed \in [Runs -> Lists] /\ mapping \in [Runs -> BOOLEAN]
  /\ hostPorts \in [Runs -> [PortStrings -> HostPorts \cup {0}]]
  /\ todo \in [Runs -> Seq(PortStrings)]
  /\ listener \in [Runs -> HostPorts \cup {0}]
  /\ published \in [Runs -> Seq([host : HostPorts, num : Nat, proto : {"tcp", "udp"}])]
  /\ pc \in [Runs -> {"validate", "args", "created", "refused", "running", "gone", "failed"}]
  /\ holder \in [Sockets -> Holders]

\* A listener is open only while its port is being allocated; a container holds what its
\* Run published, while it runs, and nothing without mapping ("No host ports are consumed",
\* README.md:125).
HoldsOnlyItsOwn(r) ==
  /\ \A k \in Sockets :
       /\ holder[k] = Listener(r) <=> listener[r] # 0 /\ k = <<"tcp", listener[r]>>
       /\ holder[k].kind = "container" /\ holder[k].of = r =>
            mapping[r] /\ pc[r] = "running" /\ \E e \in ToSet(published[r]) : Socket(e) = k
  /\ listener[r] # 0 => Wanted(r) /\ hostPorts[r][Head(todo[r])] = 0
  /\ pc[r] = "running" =>
       \A e \in ToSet(published[r]) : holder[Socket(e)] = Forward(r, e.num)

\* What is still to be visited is the end of the list; what was visited and wanted is
\* published; and what is published was asked for, and written down in HostPorts.
PublishesWhatIsAsked(r) ==
  /\ Len(todo[r]) <= Len(exposed[r])
  /\ \A i \in DOMAIN todo[r] : todo[r][i] = exposed[r][Len(exposed[r]) - Len(todo[r]) + i]
  /\ pc[r] \in {"created", "refused", "running"} => todo[r] = <<>>
  /\ mapping[r] => \A i \in 1 .. Len(exposed[r]) - Len(todo[r]) :
       exposed[r][i].num > 0 => Published(r, exposed[r][i]) # {}
  /\ \A e \in ToSet(published[r]) :
       /\ mapping[r]
       /\ \E s \in ToSet(exposed[r]) : s.num = e.num /\ s.proto = e.proto /\ hostPorts[r][s] = e.host

\* What is published, what is held and what is written down agree.
PortsInv == TypeOK /\ \A r \in Runs : HoldsOnlyItsOwn(r) /\ PublishesWhatIsAsked(r)

\* "c.Endpoint(ctx, port) resolves to localhost:<random_host_port>" (README.md:131): while
\* a container runs, what Endpoint says of a port it exposes leads to that port of that
\* container, whichever protocols share a number and whoever else has taken ports.
EndpointReachesItsPort ==
  \A r \in Runs : pc[r] = "running" =>
    \A s \in ToSet(exposed[r]) : s.num > 0 => Answers(r, s) = Forward(r, s.num)

\* A start is refused only because somebody else has taken a port since, or one port was
\* published twice; never because of what this Run itself still holds.
RefusedOnlyIfTaken ==
  [][\A r \in Runs : pc[r] # "refused" /\ pc'[r] = "refused" =>
       \/ PublishesTwice(r)
       \/ \E e \in ToSet(published[r]) :
            holder[Socket(e)].kind = "foreign" \/ holder[Socket(e)].of \in Runs \ {r}]_vars
=============================================================================
