--------------------------- MODULE PortStackProofs ---------------------------
(* Proofs about PortStack: the tables stay well formed whatever the users do, *)
(* and when all calls come from one goroutine no pending UDP handler that the *)
(* stack has been told of is forgotten, for any number of ports and handlers. *)
EXTENDS PortStack, WellFoundedInduction, TLAPS

\* What the loop over the UDP ports has learned of the ports it has passed.
PassedUDP ==
  loop.at = "udp" =>
    /\ pend["udp"]
    /\ \A i \in Index("udp") : i < loop.i /\ tab["udp"][i].told => loop.pending

IInv == TypeOK /\ RemembersUDP /\ PassedUDP

\* findPort and findAvailPort find a port of the table when there is one.
LEMMA FirstIn ==
  ASSUME NEW S \in SUBSET Nat, S # {}
  PROVE  First(S) \in S
  <1> DEFINE R == {ss \in Nat \X Nat : ss[1] < ss[2]}
  <1>1. IsWellFoundedOn(R, Nat)
    BY NatLessThanWellFounded DEF OpToRel
  <1>2. PICK x \in S : \A y \in S : <<y, x>> \notin R
    <2> HIDE DEF R
    <2> QED BY <1>1, WFMin
  <1>3. ASSUME NEW y \in S PROVE x <= y
    <2>1. x \in Nat /\ y \in Nat
      BY <1>2
    <2>2. ~(y < x)
      BY <1>2, <2>1
    <2> QED BY <2>1, <2>2
  <1> QED BY <1>2, <1>3 DEF First

\* Writing one port of a table that is well formed leaves the others alone.
LEMMA UpdateSlot ==
  ASSUME TabOK, NEW proto \in Protos, NEW i \in Index(proto), NEW s,
         SlotOK(proto, s), tab' = [tab EXCEPT ![proto][i] = s]
  PROVE  /\ TabOK'
         /\ tab'[proto][i] = s
         /\ \A q \in Protos : \A j \in Index(q) :
              q # proto \/ j # i => tab'[q][j] = tab[q][j]
  <1>1. DOMAIN tab = Protos /\ \A q \in Protos : DOMAIN tab[q] = Index(q)
    BY DEF TabOK
  <1>2. tab' = [tab EXCEPT ![proto] = [tab[proto] EXCEPT ![i] = s]]
    OBVIOUS
  <1>3. /\ tab'[proto] = [tab[proto] EXCEPT ![i] = s]
        /\ \A q \in Protos : q # proto => tab'[q] = tab[q]
    BY <1>1, <1>2
  <1>4. /\ tab'[proto][i] = s
        /\ \A j \in Index(proto) : j # i => tab'[proto][j] = tab[proto][j]
    BY <1>1, <1>3
  <1>5. \A q \in Protos : \A j \in Index(q) : SlotOK(q, tab'[q][j])
    BY <1>3, <1>4 DEF TabOK
  <1>6. tab' = [q \in Protos |-> [j \in Index(q) |-> tab'[q][j]]]
    <2>1. DOMAIN tab' = Protos /\ tab' = [q \in Protos |-> tab'[q]]
      BY <1>1, <1>2
    <2>2. \A q \in Protos : tab'[q] = [j \in Index(q) |-> tab'[q][j]]
      <3> SUFFICES ASSUME NEW q \in Protos
                   PROVE  tab'[q] = [j \in Index(q) |-> tab'[q][j]]
        OBVIOUS
      <3>1. CASE q = proto
        BY <1>1, <1>3, <3>1
      <3>2. CASE q # proto
        BY <1>3, <3>2 DEF TabOK
      <3> QED BY <3>1, <3>2
    <2> QED BY <2>1, <2>2
  <1> QED BY <1>3, <1>4, <1>5, <1>6 DEF TabOK

\* The ports that a search finds are ports of the table, and the right ones.
LEMMA FirstHas ==
  ASSUME NEW proto \in Protos, NEW p, HasPort(proto, p) # {}
  PROVE  /\ First(HasPort(proto, p)) \in Index(proto)
         /\ tab[proto][First(HasPort(proto, p))].port = p
  <1>1. HasPort(proto, p) \in SUBSET Nat
    BY PortStackAssumption DEF HasPort, Index
  <1>2. First(HasPort(proto, p)) \in HasPort(proto, p)
    BY <1>1, FirstIn
  <1> QED BY <1>2 DEF HasPort

\* The entry that an open takes is one of the table.
LEMMA FirstCandidate ==
  ASSUME NEW proto \in Protos, NEW p, Candidates(proto, p) # {}
  PROVE  First(Candidates(proto, p)) \in Index(proto)
  <1>1. Candidates(proto, p) \in SUBSET Nat
    BY PortStackAssumption DEF Candidates, HasPort, Index
  <1>2. First(Candidates(proto, p)) \in Candidates(proto, p)
    BY <1>1, FirstIn
  <1> QED BY <1>2 DEF Candidates, HasPort

\* The ports the actions write are well formed.
LEMMA ClosedSlotOK ==
  ASSUME NEW proto \in Protos
  PROVE  SlotOK(proto, ClosedSlot)
  BY DEF SlotOK, Slots, ClosedSlot

\* An entry that was just opened is well formed.
LEMMA OpenSlotOK ==
  ASSUME NEW proto \in Protos, NEW p \in Port, NEW h \in HandlersOf(proto)
  PROVE  SlotOK(proto, [port |-> p, handler |-> h, told |-> FALSE])
  <1>1. p # 0 /\ h # Nil
    BY PortStackAssumption DEF HandlersOf, Handlers
  <1> QED BY <1>1 DEF SlotOK, Slots

\* Flagging an open port, or clearing the flag of any, keeps the entry well formed.
LEMMA ToldSlotOK ==
  ASSUME NEW proto \in Protos, NEW s, SlotOK(proto, s), NEW b \in BOOLEAN, b => s.port # 0
  PROVE  /\ SlotOK(proto, [s EXCEPT !.told = b])
         /\ [s EXCEPT !.told = b].told = b
  BY DEF SlotOK, Slots

\* An open port has one of the handlers of its protocol.
LEMMA OpenHasHandler ==
  ASSUME NEW proto \in Protos, NEW s, SlotOK(proto, s), s.port # 0
  PROVE  s.handler \in Handlers
  BY DEF SlotOK, Slots, HandlersOf, Handlers

-----------------------------------------------------------------------------
(* The type invariant *)

\* Facts about the state that the proofs of the actions share.
LEMMA ModeUpdate ==
  ASSUME TypeOK, NEW h, NEW m \in Modes, mode' = [mode EXCEPT ![h] = m]
  PROVE  mode' \in [Handlers -> Modes]
  BY DEF TypeOK

\* A handler that is told to close is in a mode of its own.
LEMMA ModeAfterCloseType ==
  ASSUME NEW proto \in Protos, NEW m \in Modes
  PROVE  ModeAfterClose(proto, m) \in Modes
  BY DEF ModeAfterClose, Modes

\* A loop that begins is at its first port.
LEMMA AtFirstType ==
  ASSUME NEW at \in Protos \union {"idle"}
  PROVE  AtFirst(at) \in Loops /\ AtFirst(at).at = at /\ AtFirst(at).i = 1
  BY DEF AtFirst, Loops

\* Between two calls of HandleEth no loop is under way.
LEMMA IdleType == Idle \in Loops /\ \A proto \in Protos : Idle.at # proto
  BY AtFirstType DEF Idle, Protos

\* Entering a loop starts at its first port.
LEMMA EnterType ==
  ASSUME NEW proto \in Protos, NEW pending \in [Protos -> BOOLEAN]
  PROVE  /\ Enter(proto, pending) \in Loops
         /\ Enter(proto, pending).i = 1
         /\ Enter(proto, pending).at = "udp" => pending["udp"] /\ proto = "udp"
  <1>1. \/ Enter(proto, pending) = AtFirst("udp") /\ pending["udp"] /\ proto = "udp"
        \/ Enter(proto, pending) = AtFirst("tcp")
        \/ Enter(proto, pending) = AtFirst("idle")
    BY DEF Enter, Idle
  <1> QED BY <1>1, AtFirstType DEF Protos

\* The loop variable stays within reach of the table it runs over.
LoopOK == \A proto \in Protos : loop.at = proto => loop.i - 1 \in Index(proto) \union {0}

\* Every step keeps the types.
LEMMA TypeStep == TypeOK /\ [Next]_vars => TypeOK'
  <1> SUFFICES ASSUME TypeOK, [Next]_vars PROVE TypeOK'
    OBVIOUS
  <1>0. /\ TabOK /\ LoopOK
        /\ pend \in [Protos -> BOOLEAN] /\ mode \in [Handlers -> Modes]
        /\ addr \in BOOLEAN /\ arp \in BOOLEAN
        /\ loop \in Loops /\ work \in 0 .. MaxWork
        /\ MaxWork \in Nat
    BY PortStackAssumption DEF TypeOK, LoopOK
  <1>sk. \A proto \in Protos : \A i \in Index(proto) : SlotOK(proto, tab[proto][i])
    BY <1>0 DEF TabOK
  <1>1. ASSUME NEW proto \in Protos, NEW p \in Port, NEW h \in HandlersOf(proto),
               Open(proto, p, h)
        PROVE  TypeOK'
    <2> DEFINE i == First(Candidates(proto, p))
    <2>1. i \in Index(proto)
      BY <1>1, FirstCandidate DEF Open
    <2>2. tab' = [tab EXCEPT ![proto][i] = [port |-> p, handler |-> h, told |-> FALSE]]
      BY <1>1 DEF Open
    <2>3. TabOK'
      <3> HIDE DEF i
      <3> QED BY <2>1, <2>2, <1>0, OpenSlotOK, UpdateSlot
    <2> QED BY <2>3, <1>1, <1>0 DEF Open, TypeOK, LoopOK
  <1>2. ASSUME NEW proto \in Protos, NEW p \in Port, FlagPending(proto, p)
        PROVE  TypeOK'
    <2> DEFINE i == First(HasPort(proto, p))
               s == [tab[proto][i] EXCEPT !.told = Busy(tab[proto][i].handler)]
    <2>1. i \in Index(proto) /\ tab[proto][i].port # 0
      BY <1>2, FirstHas, PortStackAssumption DEF FlagPending
    <2>2. tab' = [tab EXCEPT ![proto][i] = s]
      BY <1>2 DEF FlagPending
    <2>3. SlotOK(proto, s)
      BY <2>1, <1>sk, ToldSlotOK DEF Busy
    <2>4. TabOK'
      <3> HIDE DEF i, s
      <3> QED BY <2>1, <2>2, <2>3, <1>0, UpdateSlot
    <2> QED BY <2>4, <1>2, <1>0 DEF FlagPending, TypeOK, LoopOK
  <1>3. ASSUME NEW proto \in Protos, NEW p \in Port, Close(proto, p)
        PROVE  TypeOK'
    <2> DEFINE i == First(HasPort(proto, p))
               h == tab[proto][i].handler
    <2>1. i \in Index(proto) /\ tab[proto][i].port # 0
      BY <1>3, FirstHas, PortStackAssumption DEF Close
    <2>2. /\ tab' = [tab EXCEPT ![proto][i] = ClosedSlot]
          /\ mode' = [mode EXCEPT ![h] = ModeAfterClose(proto, mode[h])]
      BY <1>3 DEF Close
    <2>3. mode[h] \in Modes
      BY <2>1, <1>sk, <1>0, OpenHasHandler
    <2>4. mode' \in [Handlers -> Modes]
      <3> HIDE DEF h
      <3> QED BY <2>2, <2>3, ModeAfterCloseType, ModeUpdate
    <2>5. TabOK'
      <3> HIDE DEF i
      <3> QED BY <2>1, <2>2, <1>0, ClosedSlotOK, UpdateSlot
    <2> QED BY <2>4, <2>5, <1>3, <1>0 DEF Close, TypeOK, LoopOK
  <1>4. ASSUME NEW h \in Handlers, Work(h)
        PROVE  TypeOK'
    BY <1>4, <1>0 DEF Work, TypeOK, TabOK, LoopOK
  <1>5. ASSUME NEW h \in Handlers, Wake(h)
        PROVE  TypeOK'
    BY <1>5, <1>0 DEF Wake, TypeOK, TabOK, LoopOK, Modes
  <1>6. CASE SetAddr
    BY <1>6, <1>0 DEF SetAddr, TypeOK, TabOK, LoopOK
  <1>7. CASE ArpWork
    BY <1>7, <1>0 DEF ArpWork, TypeOK, TabOK, LoopOK
  <1>8. ASSUME NEW f \in Frames, RecvEth(f)
        PROVE  TypeOK'
    <2> DEFINE proto == f.proto
               i == First(HasPort(proto, f.port))
               h == tab[proto][i].handler
    <2>1. proto \in Protos /\ f.port \in Port
      BY <1>8 DEF RecvEth, ForUs, Frames
    <2>2. i \in Index(proto) /\ tab[proto][i].port # 0
      BY <1>8, <2>1, FirstHas, PortStackAssumption DEF RecvEth
    <2>3. PICK m \in Modes, err \in Errors :
            \/ /\ err = "EOF"
               /\ mode' = [mode EXCEPT ![h] = ModeAfterClose(proto, m)]
               /\ tab' = [tab EXCEPT ![proto][i] = ClosedSlot]
            \/ /\ err # "EOF"
               /\ mode' = [mode EXCEPT ![h] = m]
               /\ tab' = [tab EXCEPT ![proto][i].told = (m # "quiet")]
      BY <1>8 DEF RecvEth
    <2>4. PICK s : SlotOK(proto, s) /\ tab' = [tab EXCEPT ![proto][i] = s]
      <3>1. CASE err = "EOF"
        BY <2>1, <2>3, <3>1, ClosedSlotOK
      <3>2. CASE err # "EOF"
        <4>1. SlotOK(proto, [tab[proto][i] EXCEPT !.told = (m # "quiet")])
          BY <2>1, <2>2, <1>sk, ToldSlotOK
        <4> QED BY <2>3, <3>2, <4>1
      <3> QED BY <3>1, <3>2
    <2>5. TabOK'
      <3> HIDE DEF i, proto
      <3> QED BY <2>1, <2>2, <2>4, <1>0, UpdateSlot
    <2>6. mode' \in [Handlers -> Modes]
      <3> HIDE DEF h
      <3> QED BY <2>1, <2>3, ModeAfterCloseType, ModeUpdate
    <2>7. pend' \in [Protos -> BOOLEAN] /\ work' \in 0 .. MaxWork
      <3>1. /\ pend' = [pend EXCEPT ![f.proto] = TRUE]
            /\ work < MaxWork /\ work' = work + 1
        BY <1>8 DEF RecvEth
      <3>2. pend' \in [Protos -> BOOLEAN]
        BY <3>1, <2>1, <1>0
      <3> QED BY <3>1, <3>2, <1>0
    <2> QED BY <2>5, <2>6, <2>7, <1>8, <1>0 DEF RecvEth, TypeOK, LoopOK
  <1>9. CASE HandleEth
    <2>1. loop' \in Loops /\ LoopOK'
      BY <1>9, <1>0, IdleType, EnterType DEF HandleEth, LoopOK, Protos
    <2> QED BY <2>1, <1>9, <1>0 DEF HandleEth, TypeOK, TabOK, LoopOK
  <1>10. ASSUME NEW proto \in Protos, Skip(proto)
         PROVE  TypeOK'
    <2> DEFINE i == loop.i
               s == [tab[proto][i] EXCEPT !.told = FALSE]
    <2>1. i \in Index(proto) /\ tab' = [tab EXCEPT ![proto][i] = s]
      BY <1>10 DEF Skip
    <2>2. SlotOK(proto, s)
      BY <2>1, <1>sk, ToldSlotOK
    <2>3. TabOK'
      <3> HIDE DEF i, s
      <3> QED BY <2>1, <2>2, <1>0, UpdateSlot
    <2>4. loop' \in Loops /\ LoopOK'
      BY <2>1, <1>10, <1>0 DEF Skip, Loops, LoopOK
    <2> QED BY <2>3, <2>4, <1>10, <1>0 DEF Skip, TypeOK, LoopOK
  <1>11. ASSUME NEW proto \in Protos, Send(proto)
         PROVE  TypeOK'
    <2> DEFINE i == loop.i
               h == tab[proto][i].handler
               n == mode[h] = "ready"
    <2>1. loop.at = proto /\ i \in Index(proto) /\ tab[proto][i].port # 0
      BY <1>11 DEF Send, IsPending
    <2>2. PICK m \in Modes, err \in Errors :
            /\ IF n /\ m # "quiet" THEN work < MaxWork /\ work' = work + 1 ELSE UNCHANGED work
            /\ \/ /\ err \in {"nil", "ErrFlagPending"}
                  /\ mode' = [mode EXCEPT ![h] = m]
                  /\ tab' = [tab EXCEPT ![proto][i].told = (m # "quiet")]
                  /\ loop' = IF n THEN Idle ELSE Onward(err = "ErrFlagPending" \/ m # "quiet")
               \/ /\ err \in {"EOF", "error"}
                  /\ mode' = [mode EXCEPT ![h] = ModeAfterClose(proto, m)]
                  /\ tab' = [tab EXCEPT ![proto][i] = ClosedSlot]
                  /\ loop' = IF n \/ err = "error" THEN Idle ELSE Onward(FALSE)
      BY <1>11 DEF Send
    <2>3. PICK s : SlotOK(proto, s) /\ tab' = [tab EXCEPT ![proto][i] = s]
      <3>1. SlotOK(proto, [tab[proto][i] EXCEPT !.told = (m # "quiet")])
        BY <2>1, <1>sk, ToldSlotOK
      <3> QED BY <2>2, <3>1, ClosedSlotOK
    <2>4. TabOK'
      <3> HIDE DEF i
      <3> QED BY <2>1, <2>3, <1>0, UpdateSlot
    <2>5. mode' \in [Handlers -> Modes]
      <3> HIDE DEF h, n
      <3> QED BY <2>2, ModeAfterCloseType, ModeUpdate
    <2>6. work' \in 0 .. MaxWork
      BY <2>2, <1>0
    <2>7. PICK b \in BOOLEAN : loop' = Idle \/ loop' = Onward(b)
      BY <2>2
    <2>8. loop' \in Loops /\ LoopOK'
      <3>1. CASE loop' = Idle
        BY <3>1, IdleType DEF LoopOK
      <3>2. CASE loop' = Onward(b)
        <4>1. /\ loop' = [at |-> loop.at, i |-> loop.i + 1, pending |-> loop.pending \/ b]
              /\ loop.at \in Protos /\ loop.i \in Nat \ {0}
          BY <3>2, <1>0, <2>1 DEF Onward, Loops
        <4>2. loop' \in Loops
          BY <4>1 DEF Loops
        <4>3. loop'.at = proto /\ loop'.i - 1 = i
          BY <4>1, <2>1
        <4> QED BY <4>2, <4>3, <2>1 DEF LoopOK
      <3> QED BY <2>7, <3>1, <3>2
    <2> QED BY <2>4, <2>5, <2>6, <2>8, <1>11, <1>0 DEF Send, TypeOK, LoopOK
  <1>12. ASSUME NEW proto \in Protos, EndLoop(proto)
         PROVE  TypeOK'
    <2>1. loop' \in Loops /\ LoopOK'
      BY <1>12, <1>0, IdleType, EnterType DEF EndLoop, LoopOK, Protos
    <2>2. pend' \in [Protos -> BOOLEAN]
      BY <1>12, <1>0 DEF EndLoop, KeepsPending, Loops
    <2> QED BY <2>1, <2>2, <1>12, <1>0 DEF EndLoop, TypeOK, TabOK, LoopOK
  <1>13. CASE UNCHANGED vars
    BY <1>13, <1>0 DEF vars, TypeOK, TabOK, LoopOK
  <1> QED BY <1>1, <1>2, <1>3, <1>4, <1>5, <1>6, <1>7, <1>8, <1>9, <1>10, <1>11, <1>12,
             <1>13 DEF Next, User, HandleStep

\* The initial tables are well formed.
LEMMA TypeInit == Init => TypeOK
  <1> SUFFICES ASSUME Init PROVE TypeOK
    OBVIOUS
  <1>1. TabOK
    BY ClosedSlotOK DEF Init, TabOK
  <1>2. loop \in Loops /\ LoopOK
    BY IdleType DEF Init, LoopOK
  <1>3. pend \in [Protos -> BOOLEAN] /\ mode \in [Handlers -> Modes]
    BY DEF Init, Modes
  <1>4. addr \in BOOLEAN /\ arp \in BOOLEAN
    BY DEF Init
  <1>5. work \in 0 .. MaxWork
    BY PortStackAssumption DEF Init
  <1> QED BY <1>1, <1>2, <1>3, <1>4, <1>5 DEF TypeOK, LoopOK

\* Whatever the users do and however their calls interleave with HandleEth, a
\* port has a handler exactly while it is open and the loop stays in its table.
THEOREM TypeCorrect == Spec => []TypeOK
  BY TypeInit, TypeStep, PTL DEF Spec

-----------------------------------------------------------------------------
(* Pending UDP handlers are remembered *)

\* Writing one port keeps the promise if the flag is up when the port needs it.
LEMMA RemembersWrite ==
  ASSUME TabOK, RemembersUDP, NEW proto \in Protos, NEW i \in Index(proto), NEW s,
         SlotOK(proto, s), tab' = [tab EXCEPT ![proto][i] = s],
         pend["udp"] => pend'["udp"], proto = "udp" /\ s.told => pend'["udp"]
  PROVE  RemembersUDP'
  <1> SUFFICES ASSUME NEW j \in Index("udp"), tab'["udp"][j].told PROVE pend'["udp"]
    BY DEF RemembersUDP, Remembers
  <1>1. "udp" \in Protos
    BY DEF Protos
  <1>2. CASE proto = "udp" /\ j = i
    <2>1. tab'[proto][i] = s
      BY UpdateSlot
    <2>2. s.told
      BY <1>2, <2>1
    <2> QED BY <1>2, <2>2
  <1>3. CASE proto # "udp" \/ j # i
    <2>1. tab'["udp"][j] = tab["udp"][j]
      BY <1>1, <1>3, UpdateSlot
    <2> QED BY <2>1 DEF RemembersUDP, Remembers
  <1> QED BY <1>2, <1>3

\* The calls that run between two calls of HandleEth.
LEMMA UserRemembers ==
  ASSUME ~Concurrent, IInv, User \/ \E f \in Frames : RecvEth(f)
  PROVE  RemembersUDP' /\ loop' = Idle
  <1>0. /\ TabOK /\ pend \in [Protos -> BOOLEAN] /\ RemembersUDP
        /\ \A proto \in Protos : \A i \in Index(proto) : SlotOK(proto, tab[proto][i])
    BY DEF IInv, TypeOK, TabOK
  <1>1. loop' = Idle
    BY DEF User, Open, FlagPending, Close, Work, SetAddr, ArpWork, UserMayRun, RecvEth
  <1>2. ASSUME NEW proto \in Protos, NEW p \in Port, NEW h \in HandlersOf(proto),
               Open(proto, p, h)
        PROVE  RemembersUDP'
    <2> DEFINE i == First(Candidates(proto, p))
               s == [port |-> p, handler |-> h, told |-> FALSE]
    <2>1. i \in Index(proto) /\ tab' = [tab EXCEPT ![proto][i] = s] /\ pend' = pend
      BY <1>2, FirstCandidate DEF Open
    <2>2. SlotOK(proto, s) /\ ~s.told
      BY OpenSlotOK
    <2> HIDE DEF i, s
    <2> QED BY <2>1, <2>2, <1>0, RemembersWrite
  <1>3. ASSUME NEW proto \in Protos, NEW p \in Port, FlagPending(proto, p)
        PROVE  RemembersUDP'
    <2> DEFINE i == First(HasPort(proto, p))
               s == [tab[proto][i] EXCEPT !.told = Busy(tab[proto][i].handler)]
    <2>1. i \in Index(proto) /\ tab[proto][i].port # 0
      BY <1>3, FirstHas, PortStackAssumption DEF FlagPending
    <2>2. /\ tab' = [tab EXCEPT ![proto][i] = s]
          /\ pend' = [pend EXCEPT ![proto] = TRUE]
      BY <1>3 DEF FlagPending
    <2>3. SlotOK(proto, s)
      BY <2>1, <1>0, ToldSlotOK DEF Busy
    <2>4. pend["udp"] => pend'["udp"]
      BY <2>2, <1>0 DEF Protos
    <2>5. proto = "udp" => pend'["udp"]
      BY <2>2, <1>0 DEF Protos
    <2> HIDE DEF i, s
    <2> QED BY <2>1, <2>2, <2>3, <2>4, <2>5, <1>0, RemembersWrite
  <1>4. ASSUME NEW proto \in Protos, NEW p \in Port, Close(proto, p)
        PROVE  RemembersUDP'
    <2> DEFINE i == First(HasPort(proto, p))
    <2>1. /\ i \in Index(proto) /\ pend' = pend
          /\ tab' = [tab EXCEPT ![proto][i] = ClosedSlot]
      BY <1>4, FirstHas DEF Close
    <2>2. SlotOK(proto, ClosedSlot) /\ ~ClosedSlot.told
      BY ClosedSlotOK DEF ClosedSlot
    <2> HIDE DEF i
    <2> QED BY <2>1, <2>2, <1>0, RemembersWrite
  <1>5. ASSUME NEW f \in Frames, RecvEth(f)
        PROVE  RemembersUDP'
    <2> DEFINE proto == f.proto
               i == First(HasPort(proto, f.port))
    <2>1. proto \in Protos /\ f.port \in Port
      BY <1>5 DEF RecvEth, ForUs, Frames
    <2>2. i \in Index(proto) /\ tab[proto][i].port # 0
      BY <1>5, <2>1, FirstHas, PortStackAssumption DEF RecvEth
    <2>3. PICK m \in Modes :
            \/ tab' = [tab EXCEPT ![proto][i] = ClosedSlot]
            \/ tab' = [tab EXCEPT ![proto][i].told = (m # "quiet")]
      BY <1>5 DEF RecvEth
    <2>4. PICK s : SlotOK(proto, s) /\ tab' = [tab EXCEPT ![proto][i] = s]
      <3>1. SlotOK(proto, [tab[proto][i] EXCEPT !.told = (m # "quiet")])
        BY <2>1, <2>2, <1>0, ToldSlotOK
      <3> QED BY <2>1, <2>3, <3>1, ClosedSlotOK
    <2>5. pend' = [pend EXCEPT ![proto] = TRUE]
      BY <1>5 DEF RecvEth
    <2>6. pend["udp"] => pend'["udp"]
      BY <2>1, <2>5, <1>0 DEF Protos
    <2>7. proto = "udp" => pend'["udp"]
      BY <2>5, <1>0 DEF Protos
    <2> HIDE DEF i, proto
    <2> QED BY <2>1, <2>2, <2>4, <2>6, <2>7, <1>0, RemembersWrite
  <1>6. ASSUME UNCHANGED <<tab, pend>> PROVE RemembersUDP'
    BY <1>6, <1>0 DEF RemembersUDP, Remembers
  <1>7. ASSUME (\E h \in Handlers : Work(h)) \/ SetAddr \/ ArpWork
        PROVE  RemembersUDP'
    BY <1>6, <1>7 DEF Work, SetAddr, ArpWork
  <1> QED BY <1>1, <1>2, <1>3, <1>4, <1>5, <1>7 DEF User

\* The loop of HandleEth.
LEMMA LoopRemembers ==
  ASSUME IInv, HandleStep
  PROVE  RemembersUDP' /\ PassedUDP'
  <1>0. /\ TabOK /\ pend \in [Protos -> BOOLEAN] /\ loop \in Loops
        /\ RemembersUDP /\ PassedUDP /\ LoopOK
        /\ "udp" \in Protos
        /\ \A proto \in Protos : \A i \in Index(proto) : SlotOK(proto, tab[proto][i])
    BY DEF IInv, TypeOK, TabOK, LoopOK, Protos
  <1>1. CASE HandleEth
    <2>1. RemembersUDP'
      BY <1>1, <1>0 DEF HandleEth, RemembersUDP, Remembers
    <2>2. loop' = Idle \/ loop' = Enter("udp", pend)
      BY <1>1 DEF HandleEth
    <2>3. loop'.at = "udp" => pend["udp"] /\ loop'.i = 1
      BY <2>2, <1>0, IdleType, EnterType
    <2>4. \A i \in Index("udp") : ~(i < 1)
      BY DEF Index
    <2> QED BY <2>1, <2>3, <2>4, <1>1 DEF HandleEth, PassedUDP
  <1>2. ASSUME NEW proto \in Protos, Skip(proto)
        PROVE  RemembersUDP' /\ PassedUDP'
    <2> DEFINE i == loop.i
               s == [tab[proto][i] EXCEPT !.told = FALSE]
    <2>1. /\ loop.at = proto /\ i \in Index(proto) /\ pend' = pend
          /\ tab' = [tab EXCEPT ![proto][i] = s]
          /\ loop' = [loop EXCEPT !.i = @ + 1]
      BY <1>2 DEF Skip
    <2>2. SlotOK(proto, s) /\ ~s.told
      BY <2>1, <1>0, ToldSlotOK
    <2>3. RemembersUDP'
      <3> HIDE DEF i, s
      <3> QED BY <2>1, <2>2, <1>0, RemembersWrite
    <2>4. /\ tab'[proto][i] = s
          /\ \A j \in Index(proto) : j # i => tab'[proto][j] = tab[proto][j]
      <3> HIDE DEF i, s
      <3>1. /\ tab'[proto][i] = s
            /\ \A q \in Protos : \A j \in Index(q) :
                 q # proto \/ j # i => tab'[q][j] = tab[q][j]
        <4>1. TabOK /\ i \in Index(proto) /\ SlotOK(proto, s)
          BY <2>1, <2>2, <1>0
        <4>2. tab' = [tab EXCEPT ![proto][i] = s]
          BY <2>1
        <4> QED BY <4>1, <4>2, UpdateSlot, Zenon
      <3> QED BY <3>1
    <2>5. loop'.at = loop.at /\ loop'.i = i + 1 /\ loop'.pending = loop.pending /\ i \in Nat
      BY <2>1, <1>0 DEF Loops
    <2>6. ASSUME proto = "udp", NEW j \in Index("udp"), j < i + 1, tab'["udp"][j].told
          PROVE  loop.pending
      <3>1. j # i
        BY <2>2, <2>4, <2>6
      <3>2. j < i
        BY <2>5, <2>6, <3>1 DEF Index
      <3>3. tab["udp"][j].told
        BY <2>4, <2>6, <3>1
      <3> QED BY <2>1, <2>6, <3>2, <3>3, <1>0 DEF PassedUDP
    <2> QED BY <2>1, <2>3, <2>5, <2>6, <1>0 DEF PassedUDP
  <1>3. ASSUME NEW proto \in Protos, Send(proto)
        PROVE  RemembersUDP' /\ PassedUDP'
    <2> DEFINE i == loop.i
    <2>1. /\ loop.at = proto /\ i \in Index(proto) /\ pend' = pend
          /\ tab[proto][i].port # 0 /\ i \in Nat
      BY <1>3, <1>0 DEF Send, IsPending, Loops
    <2>2. PICK m \in Modes, err \in Errors :
            \/ /\ tab' = [tab EXCEPT ![proto][i].told = (m # "quiet")]
               /\ loop' = Idle \/ loop' = Onward(err = "ErrFlagPending" \/ m # "quiet")
            \/ /\ tab' = [tab EXCEPT ![proto][i] = ClosedSlot]
               /\ loop' = Idle \/ loop' = Onward(FALSE)
      BY <1>3 DEF Send
    <2>3. \E s : \E b \in BOOLEAN :
            /\ SlotOK(proto, s) /\ tab' = [tab EXCEPT ![proto][i] = s]
            /\ loop' = Idle \/ loop' = Onward(b)
            /\ s.told => b
      <3>1. CASE /\ tab' = [tab EXCEPT ![proto][i].told = (m # "quiet")]
                 /\ loop' = Idle \/ loop' = Onward(err = "ErrFlagPending" \/ m # "quiet")
        <4> DEFINE s == [tab[proto][i] EXCEPT !.told = (m # "quiet")]
                   b == err = "ErrFlagPending" \/ m # "quiet"
        <4>1. SlotOK(proto, s)
          BY <2>1, <1>0, ToldSlotOK
        <4>2. s.told => b
          BY <2>1, <1>0 DEF SlotOK, Slots
        <4>3. tab' = [tab EXCEPT ![proto][i] = s] /\ (loop' = Idle \/ loop' = Onward(b))
          BY <3>1
        <4>4. b \in BOOLEAN
          OBVIOUS
        <4> HIDE DEF s, b
        <4> QED BY <4>1, <4>2, <4>3, <4>4
      <3>2. CASE /\ tab' = [tab EXCEPT ![proto][i] = ClosedSlot]
                 /\ loop' = Idle \/ loop' = Onward(FALSE)
        <4>1. SlotOK(proto, ClosedSlot) /\ ~ClosedSlot.told
          BY ClosedSlotOK DEF ClosedSlot
        <4> QED BY <3>2, <4>1
      <3> QED BY <2>2, <3>1, <3>2
    <2>s. PICK s : \E b \in BOOLEAN :
            /\ SlotOK(proto, s) /\ tab' = [tab EXCEPT ![proto][i] = s]
            /\ loop' = Idle \/ loop' = Onward(b)
            /\ s.told => b
      BY <2>3
    <2>b. PICK b \in BOOLEAN :
            /\ SlotOK(proto, s) /\ tab' = [tab EXCEPT ![proto][i] = s]
            /\ loop' = Idle \/ loop' = Onward(b)
            /\ s.told => b
      BY <2>s
    <2>4. proto = "udp" => pend["udp"]
      BY <2>1, <1>0 DEF PassedUDP
    <2>5. RemembersUDP'
      <3> HIDE DEF i
      <3> QED BY <2>1, <2>b, <2>4, <1>0, RemembersWrite
    <2>6. /\ tab'[proto][i] = s
          /\ \A j \in Index(proto) : j # i => tab'[proto][j] = tab[proto][j]
      <3> HIDE DEF i
      <3>1. /\ tab'[proto][i] = s
            /\ \A q \in Protos : \A j \in Index(q) :
                 q # proto \/ j # i => tab'[q][j] = tab[q][j]
        <4>1. TabOK /\ i \in Index(proto) /\ SlotOK(proto, s)
          BY <2>1, <2>b, <1>0
        <4>2. tab' = [tab EXCEPT ![proto][i] = s]
          BY <2>b
        <4> QED BY <4>1, <4>2, UpdateSlot, Zenon
      <3> QED BY <3>1
    <2>7. CASE loop' = Idle
      BY <2>5, <2>7, <1>0, IdleType DEF PassedUDP
    <2>8. CASE loop' = Onward(b)
      <3>1. /\ loop'.at = loop.at /\ loop'.i = i + 1
            /\ loop'.pending = (loop.pending \/ b)
        BY <2>8, <1>0 DEF Onward, Loops
      <3>2. ASSUME proto = "udp", NEW j \in Index("udp"), j < i + 1, tab'["udp"][j].told
            PROVE  loop.pending \/ b
        <4>1. CASE j = i
          <5>1. s.told
            BY <2>6, <3>2, <4>1
          <5> QED BY <2>b, <5>1
        <4>2. CASE j # i
          <5>1. j < i
            BY <2>1, <3>2, <4>2 DEF Index
          <5>2. tab["udp"][j].told
            BY <2>6, <3>2, <4>2
          <5> QED BY <2>1, <3>2, <5>1, <5>2, <1>0 DEF PassedUDP
        <4> QED BY <4>1, <4>2
      <3>3. PassedUDP'
        <4> SUFFICES ASSUME loop'.at = "udp"
                     PROVE  /\ pend'["udp"]
                            /\ \A j \in Index("udp") :
                                 j < loop'.i /\ tab'["udp"][j].told => loop'.pending
          BY DEF PassedUDP
        <4>1. proto = "udp"
          BY <2>1, <3>1
        <4>2. pend'["udp"]
          BY <2>1, <2>4, <4>1
        <4> QED BY <3>1, <3>2, <4>1, <4>2
      <3> QED BY <2>5, <3>3
    <2> QED BY <2>b, <2>7, <2>8
  <1>4. ASSUME NEW proto \in Protos, EndLoop(proto)
        PROVE  RemembersUDP' /\ PassedUDP'
    <2>1. loop'.at # "udp"
      BY <1>4, <1>0, IdleType, EnterType DEF EndLoop, Protos
    <2>2. CASE proto = "udp"
      <3>1. /\ loop.at = "udp" /\ loop.i \notin Index("udp") /\ tab' = tab
        BY <1>4, <2>2 DEF EndLoop
      <3>2. pend'["udp"] <=> loop.pending
        <4>1. pend' = [pend EXCEPT !["udp"] = KeepsPending("udp", loop.pending)]
          BY <1>4, <2>2 DEF EndLoop
        <4> QED BY <4>1, <1>0 DEF KeepsPending
      <3>3. \A i \in Index("udp") : i < loop.i
        <4>1. loop.i \in Nat \ {0} /\ loop.i - 1 \in Index("udp") \union {0}
          BY <3>1, <1>0 DEF Loops, LoopOK
        <4> QED BY <4>1, <3>1, PortStackAssumption DEF Index
      <3>4. ASSUME NEW i \in Index("udp"), tab'["udp"][i].told PROVE pend'["udp"]
        <4>1. tab["udp"][i].told
          BY <3>1, <3>4
        <4>2. loop.pending
          BY <3>1, <3>3, <4>1, <1>0 DEF PassedUDP
        <4> QED BY <3>2, <4>2
      <3> QED BY <2>1, <3>4 DEF RemembersUDP, Remembers, PassedUDP
    <2>3. CASE proto # "udp"
      <3>1. pend'["udp"] = pend["udp"] /\ tab' = tab
        BY <1>4, <2>3, <1>0 DEF EndLoop
      <3> QED BY <2>1, <3>1, <1>0 DEF RemembersUDP, Remembers, PassedUDP
    <2> QED BY <2>2, <2>3
  <1> QED BY <1>1, <1>2, <1>3, <1>4 DEF HandleStep

\* When every call comes from the goroutine that calls HandleEth, the flag that
\* makes HandleEth look for pending UDP handlers is never taken down while the
\* handler of an open port, which the stack has been told of, is pending: a
\* handler can wait for its packet without flagging the port again.
THEOREM UDPIsRemembered ==
  ASSUME ~Concurrent
  PROVE  Spec => []RemembersUDP
  <1>1. Init => IInv
    <2> SUFFICES ASSUME Init PROVE IInv
      OBVIOUS
    <2>1. TypeOK
      BY TypeInit
    <2>2. RemembersUDP
      BY DEF Init, RemembersUDP, Remembers, ClosedSlot, Protos
    <2>3. PassedUDP
      BY IdleType DEF Init, PassedUDP, Protos
    <2> QED BY <2>1, <2>2, <2>3 DEF IInv
  <1>2. IInv /\ [Next]_vars => IInv'
    <2> SUFFICES ASSUME IInv, [Next]_vars PROVE IInv'
      OBVIOUS
    <2>1. TypeOK'
      BY TypeStep DEF IInv
    <2>2. CASE User \/ \E f \in Frames : RecvEth(f)
      <3>1. RemembersUDP' /\ loop' = Idle
        BY <2>2, UserRemembers
      <3>2. PassedUDP'
        BY <3>1, IdleType DEF PassedUDP, Protos
      <3> QED BY <2>1, <3>1, <3>2 DEF IInv
    <2>3. CASE HandleStep
      BY <2>1, <2>3, LoopRemembers DEF IInv
    <2>4. CASE (\E h \in Handlers : Wake(h)) \/ UNCHANGED vars
      <3>1. UNCHANGED <<tab, pend, loop>>
        BY <2>4 DEF Wake, vars
      <3> QED BY <2>1, <3>1 DEF IInv, RemembersUDP, Remembers, PassedUDP
    <2> QED BY <2>2, <2>3, <2>4 DEF Next
  <1>3. IInv => RemembersUDP
    BY DEF IInv
  <1> QED BY <1>1, <1>2, <1>3, PTL DEF Spec
=============================================================================
