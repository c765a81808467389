-------------------------------- MODULE Router --------------------------------
(***************************************************************************)
(* The router of networks lab-5, myrouter.py: forwarding, the ARP table,   *)
(* the queue of packets that wait for an ARP reply, and ICMP errors.       *)
(*                                                                         *)
(* One thread alternates between handle_wait_queue and one received        *)
(* packet.  The router's addresses are one, Me, and a hardware address is  *)
(* the host it belongs to.                                                 *)
(***************************************************************************)
EXTENDS Integers, Sequences, FiniteSets, SequencesExt

CONSTANTS
  Host,             \* the addresses other than the router's
  forwarding_table, \* a sequence of [net : SUBSET addresses, len, hop], hop None if direct
  Me, None,
  Requests,         \* the ARP requests sent before a hop is given up, 5 in the code
  Kinds,            \* bound: kinds of received packets, "data", "echo", "reply", "error"
                    \* (ICMP errors) and "other" (other ICMP packets)
  MaxPackets,       \* bound: packets received
  Polite            \* packets come only by hops that have made themselves known by ARP,
                    \* as a host does that asks for the router's hardware address

Addr == Host \cup {Me}
Id   == 1 .. MaxPackets

ASSUME AddressAssumption == Me \notin Host /\ None \notin Host \cup {Me}
ASSUME TableAssumption ==
  forwarding_table \in Seq([net : SUBSET Addr, len : Nat, hop : Host \cup {None}])
ASSUME BoundAssumption == Requests \in Nat /\ MaxPackets \in Nat /\ Polite \in BOOLEAN

VARIABLES
  arpTable,  \* the addresses whose hardware address is known
  queue,     \* waitQueue, from its top, the entry added first, on
  at,        \* "walk" and "failing" in handle_wait_queue, "receive" in recv_packet
  todo,      \* the hops the walk has still to visit
  held,      \* the ICMP error made for a packet of the entry that failed
  fate       \* history: what became of each received packet

vars == <<arpTable, queue, at, todo, held, fate>>

Init ==
  /\ arpTable = {} /\ queue = <<>>
  /\ at = "receive" /\ todo = <<>> /\ held = None
  /\ fate = [i \in Id |-> "unseen"]

-----------------------------------------------------------------------------
(* search_in_fwd_table: of the entries that match, the first with the longest prefix, *)
(* which must be longer than 0.                                                       *)

Matching(dst) ==
  {i \in DOMAIN forwarding_table : dst \in forwarding_table[i].net /\ forwarding_table[i].len > 0}

Longest(dst) ==
  CHOOSE i \in Matching(dst) : \A j \in Matching(dst) :
    \/ forwarding_table[i].len > forwarding_table[j].len
    \/ forwarding_table[i].len = forwarding_table[j].len /\ i <= j

\* None when there is no match.
NextHop(dst) ==
  IF Matching(dst) = {} THEN None
  ELSE LET hop == forwarding_table[Longest(dst)].hop IN IF hop = None THEN dst ELSE hop

-----------------------------------------------------------------------------
(* waitQueue. *)

EntryOf(q, ip) == CHOOSE i \in DOMAIN q : q[i].ip = ip

Waits(q, ip) == \E i \in DOMAIN q : q[i].ip = ip

\* A new entry has never been asked for; its sendTime 0 makes it due at once.
NewEntry(ip, pkt, icmp_error) ==
  [ip |-> ip, due |-> TRUE, cnt |-> 0, pktlist |-> <<pkt>>, icmp_error |-> icmp_error]

Enqueue(q, ip, pkt, icmp_error) ==
  IF Waits(q, ip) THEN [q EXCEPT ![EntryOf(q, ip)].pktlist = Append(@, pkt)]
                  ELSE Append(q, NewEntry(ip, pkt, icmp_error))

Delete(q, ip) == IF Waits(q, ip) THEN RemoveAt(q, EntryOf(q, ip)) ELSE q

Hops(q) == [i \in DOMAIN q |-> q[i].ip]

\* The received packets in an entry.
Ids(entry) == {entry.pktlist[i].id : i \in DOMAIN entry.pktlist} \ {0}

Settled(S, end) == [i \in Id |-> IF i \in S THEN end ELSE fate[i]]

-----------------------------------------------------------------------------
(* packetSending and ipForwarding.  ttl is what is left of the time to live: "last" when   *)
(* it is at most 1.  The packets the router makes have id 0.                              *)

Made(src, dst, kind) == [id |-> 0, src |-> src, dst |-> dst, kind |-> kind, ttl |-> "more"]

\* general_icmp_error, for the sender of a packet; its own source is not set yet.
general_icmp_error(pkt) == Made(None, pkt.src, "error")

WithSource(pkt) == IF pkt.src = None THEN [pkt EXCEPT !.src = Me] ELSE pkt

\* What packetSending makes of the wait queue, and what became of the packet.
PacketSending(pkt, nxt_hop_ip, icmp_error) ==
  IF NextHop(nxt_hop_ip) = None THEN [ret |-> "no match", queue |-> queue]
  ELSE IF pkt.ttl = "last" THEN [ret |-> "expired", queue |-> queue]
  ELSE IF NextHop(nxt_hop_ip) \in arpTable THEN [ret |-> "sent", queue |-> queue]
  ELSE [ret   |-> "waiting",
        queue |-> Enqueue(queue, NextHop(nxt_hop_ip), WithSource(pkt), icmp_error)]

\* A packet the router makes in reply to one it received, sent to that one's source.
Answer(pkt, answer) ==
  /\ queue' = PacketSending(answer, pkt.src, FALSE).queue
  /\ fate' = [fate EXCEPT ![pkt.id] = "answered"]

Drop(pkt) ==
  /\ fate' = [fate EXCEPT ![pkt.id] = "dropped"]
  /\ UNCHANGED queue

ForMe(pkt) ==
  \/ pkt.kind \in {"error", "other"} /\ Drop(pkt)
  \/ pkt.kind = "echo" /\ Answer(pkt, Made(Me, pkt.src, "reply"))
  \/ pkt.kind \in {"data", "reply"} /\ Answer(pkt, general_icmp_error(pkt))

Forward(pkt) ==
  LET s == PacketSending(pkt, pkt.dst, pkt.kind = "error")
  IN \/ /\ s.ret \in {"sent", "waiting"}
        /\ queue' = s.queue
        /\ fate' = [fate EXCEPT ![pkt.id] = s.ret]
     \/ /\ s.ret \in {"no match", "expired"}
        /\ IF pkt.kind = "error" THEN Drop(pkt) ELSE Answer(pkt, general_icmp_error(pkt))

-----------------------------------------------------------------------------
(* One received packet, after which start's loop walks the wait queue. *)

Loop ==
  /\ at = "receive"
  /\ at' = "walk" /\ todo' = Hops(queue')
  /\ UNCHANGED held

\* Who may be the source of a packet.
MaySend(src) == Polite => NextHop(src) \in arpTable \cup {None}

IPv4Packet(i, src, dst, kind, ttl) ==
  /\ fate[i] = "unseen" /\ \A j \in 1 .. i - 1 : fate[j] # "unseen"
  /\ MaySend(src) /\ dst # src
  /\ LET pkt == [id |-> i, src |-> src, dst |-> dst, kind |-> kind, ttl |-> ttl]
     IN IF dst = Me THEN ForMe(pkt) ELSE Forward(pkt)
  /\ Loop
  /\ UNCHANGED arpTable

\* An ARP request for the router's address: its sender is known from now on.
ArpRequest(h) ==
  /\ arpTable' = arpTable \cup {h}
  /\ UNCHANGED <<queue, fate>>
  /\ Loop

\* Mutant of ArpReply: the entry stays in the queue.
ArpReplyKeepsEntry(h) ==
  /\ arpTable' = arpTable \cup {h}
  /\ fate' = IF Waits(queue, h) THEN Settled(Ids(queue[EntryOf(queue, h)]), "sent") ELSE fate
  /\ UNCHANGED queue
  /\ Loop

\* An ARP reply: the packets that waited for it are sent.
ArpReply(h) ==
  /\ arpTable' = arpTable \cup {h}
  /\ fate' = IF Waits(queue, h) THEN Settled(Ids(queue[EntryOf(queue, h)]), "sent") ELSE fate
  /\ queue' = Delete(queue, h)
  /\ Loop

\* Nothing was received for a second: more than one second has passed since the last
\* request of the first n entries, which were asked for longest ago.
NoPackets(n) ==
  /\ n \in 0 .. Len(queue)
  /\ queue' = [i \in DOMAIN queue |-> [queue[i] EXCEPT !.due = @ \/ i <= n]]
  /\ Loop
  /\ UNCHANGED <<arpTable, fate>>

-----------------------------------------------------------------------------
(* handle_wait_queue. *)

Visited == queue[EntryOf(queue, Head(todo))]

NotDue ==
  /\ at = "walk" /\ todo # <<>> /\ ~Visited.due
  /\ todo' = Tail(todo)
  /\ UNCHANGED <<arpTable, queue, at, held, fate>>

\* Mutant of Asked: the requests are not counted.
AskedUncounted(entry) == [entry EXCEPT !.due = FALSE]

Asked(entry) == [entry EXCEPT !.due = FALSE, !.cnt = @ + 1]

\* Mutant of Ask: a hop is asked for once more than is meant.
AskOnceMore ==
  /\ at = "walk" /\ todo # <<>> /\ Visited.due /\ Visited.cnt <= Requests
  /\ queue' = Append(Delete(queue, Head(todo)), Asked(Visited))
  /\ todo' = Tail(todo)
  /\ UNCHANGED <<arpTable, at, held, fate>>

\* An ARP request is sent, and the entry put at the end of the queue.
Ask ==
  /\ at = "walk" /\ todo # <<>> /\ Visited.due /\ Visited.cnt < Requests
  /\ queue' = Append(Delete(queue, Head(todo)), Asked(Visited))
  /\ todo' = Tail(todo)
  /\ UNCHANGED <<arpTable, at, held, fate>>

\* The hop is given up.  The entry goes at once if the packet it was made for was an ICMP
\* error, else after an error for each of its packets.
GiveUp ==
  /\ at = "walk" /\ todo # <<>> /\ Visited.due /\ Visited.cnt >= Requests
  /\ IF Visited.icmp_error
     THEN /\ fate' = Settled(Ids(Visited), "dropped")
          /\ queue' = Delete(queue, Head(todo))
          /\ todo' = Tail(todo)
          /\ UNCHANGED at
     ELSE /\ at' = "failing"
          /\ UNCHANGED <<queue, todo, fate>>
  /\ UNCHANGED <<arpTable, held>>

\* The loop over pktlist, to which packetSending may append meanwhile.
MakeError ==
  /\ at = "failing" /\ held = None /\ Visited.pktlist # <<>>
  /\ LET pkt == Head(Visited.pktlist)
     IN /\ held' = general_icmp_error(pkt)
        /\ fate' = Settled({pkt.id} \ {0}, "answered")
  /\ queue' = [queue EXCEPT ![EntryOf(queue, Head(todo))].pktlist = Tail(@)]
  /\ UNCHANGED <<arpTable, at, todo>>

SendError ==
  /\ at = "failing" /\ held # None
  /\ queue' = PacketSending(held, held.dst, FALSE).queue
  /\ held' = None
  /\ UNCHANGED <<arpTable, at, todo, fate>>

\* Mutant of EndFailing: the entry goes after the first error.
EndFailingForgets ==
  /\ at = "failing" /\ held = None
  /\ queue' = Delete(queue, Head(todo))
  /\ todo' = Tail(todo) /\ at' = "walk"
  /\ UNCHANGED <<arpTable, held, fate>>

EndFailing ==
  /\ at = "failing" /\ held = None /\ Visited.pktlist = <<>>
  /\ queue' = Delete(queue, Head(todo))
  /\ todo' = Tail(todo) /\ at' = "walk"
  /\ UNCHANGED <<arpTable, held, fate>>

EndWalk ==
  /\ at = "walk" /\ todo = <<>>
  /\ at' = "receive"
  /\ UNCHANGED <<arpTable, queue, todo, held, fate>>

-----------------------------------------------------------------------------
Handle_wait_queue == NotDue \/ Ask \/ GiveUp \/ MakeError \/ SendError \/ EndFailing \/ EndWalk

Next ==
  \/ \E i \in Id, src \in Host, dst \in Addr, kind \in Kinds, ttl \in {"last", "more"} :
       IPv4Packet(i, src, dst, kind, ttl)
  \/ \E h \in Host : ArpRequest(h) \/ ArpReply(h)
  \/ \E n \in 0 .. Len(queue) : NoPackets(n)
  \/ Handle_wait_queue

Spec == Init /\ [][Next]_vars

\* The router's loop goes on, and there are seconds in which nothing is received.
FairSpec == Spec /\ WF_vars(Handle_wait_queue) /\ SF_vars(NoPackets(Len(queue)))
-----------------------------------------------------------------------------
(* Properties. *)

Packet == [id : 0 .. MaxPackets, src : Addr \cup {None}, dst : Addr,
           kind : Kinds \cup {"reply", "error"}, ttl : {"last", "more"}]

TypeOK ==
  /\ arpTable \subseteq Host
  /\ \A i \in DOMAIN queue :
       /\ queue[i].ip \in Addr /\ queue[i].cnt \in 0 .. Requests
       /\ queue[i].due \in BOOLEAN /\ queue[i].icmp_error \in BOOLEAN
       /\ \A j \in DOMAIN queue[i].pktlist : queue[i].pktlist[j] \in Packet
  /\ at \in {"walk", "failing", "receive"}
  /\ \A i \in DOMAIN todo : todo[i] \in Addr
  /\ held \in Packet \cup {None}
  /\ fate \in [Id -> {"unseen", "waiting", "sent", "answered", "dropped"}]

\* A packet that waits is in the queue at one place, the entry of its next hop, and a
\* packet already sent, answered or dropped is in none: nothing is lost, and nothing is
\* sent twice or both sent and answered.
Places(i) == UNION {{<<e, n>> : n \in {m \in DOMAIN queue[e].pktlist : queue[e].pktlist[m].id = i}}
                      : e \in DOMAIN queue}
Custody ==
  /\ \A i \in Id : Places(i) # {} <=> fate[i] = "waiting"
  /\ \A i \in Id : \A p, q \in Places(i) : p = q
  /\ \A i \in Id : \A place \in Places(i) :
       NextHop(queue[place[1]].pktlist[place[2]].dst) = queue[place[1]].ip
  /\ \A i, j \in DOMAIN queue : queue[i].ip = queue[j].ip => i = j

\* Each packet is accepted and settled once, those that wait for one answer together.
Packets == INSTANCE Forwarder
PacketsSpec == Packets!Spec

\* No packet waits for ever: its hop answers, or is given up after the last request.
NoEternalWait == \A i \in Id : fate[i] = "waiting" ~> fate[i] # "waiting"

\* start: "Receive packets until the end of time."
KeepsReceiving == []<>(at = "receive")
=============================================================================
