--------------------------- MODULE ReliableTransfer ---------------------------
(***************************************************************************)
(* The reliable transfer of networks lab-6: blaster.py sends the packets   *)
(* 1 .. num to blastee.py through middlebox.py, which drops some of them,  *)
(* and gets each one acknowledged.  A link keeps packets in order; data    *)
(* and acknowledgements are represented by their sequence numbers.         *)
(***************************************************************************)
EXTENDS Integers, Sequences, FiniteSets, FiniteSetsExt

CONSTANTS
  num,           \* the packets to send
  senderWindow,
  MaxResend,     \* bound: inTimeoutResend, the rounds of retransmission owed
  MaxQueue       \* bound: the packets on a link

ASSUME NumAssumption == num \in Nat
ASSUME WindowAssumption == senderWindow \in Nat
ASSUME BoundAssumption == MaxResend \in Nat /\ MaxQueue \in Nat \ {0}

VARIABLES
  snd_num, LHS, RHS, swnd, inTimeoutResend, lastPacketSend, lhs_flag,  \* Blaster
  toMiddlebox, toBlastee, fromBlastee, toBlaster,                      \* the links
  delivered    \* history: the packets Blastee has been handed

blaster == <<snd_num, LHS, RHS, swnd, inTimeoutResend, lastPacketSend, lhs_flag>>
links == <<toMiddlebox, toBlastee, fromBlastee, toBlaster>>
vars == <<blaster, links, delivered>>

Init ==
  /\ snd_num = num /\ LHS = 1 /\ RHS = 1
  /\ swnd = <<>>
  /\ inTimeoutResend = 0 /\ lastPacketSend = 0 /\ lhs_flag = TRUE
  /\ toMiddlebox = <<>> /\ toBlastee = <<>> /\ fromBlastee = <<>> /\ toBlaster = <<>>
  /\ delivered = {}

\* start's loop ends once the last packet is acknowledged.
Running == LHS < num + 1

-----------------------------------------------------------------------------
(* Blaster.handle_no_packet. *)

\* check_send from index last of window w: the window, lastPacketSend and what it sends.
CheckSend(w, last) ==
  LET owed == {i \in DOMAIN w : i > last /\ ~w[i].is_acked /\ ~w[i].is_resend}
  IN IF owed = {} THEN [swnd |-> w, last |-> last, sent |-> <<>>]
     ELSE [swnd |-> [w EXCEPT ![Min(owed)].is_resend = TRUE],
           last |-> Min(owed) - 1, sent |-> <<w[Min(owed)].packet>>]

\* Mutant of NextRound: the next round starts where the last one ended.
RoundFromHere ==
  CheckSend([i \in DOMAIN swnd |-> [swnd[i] EXCEPT !.is_resend = FALSE]], lastPacketSend)

\* A round of retransmission is over: the next one starts at once.
NextRound == CheckSend([i \in DOMAIN swnd |-> [swnd[i] EXCEPT !.is_resend = FALSE]], 0)

\* Mutant of MaySend: the window may be overrun by one and more.
MaySendLate == RHS - LHS < senderWindow + 1 /\ snd_num > 0

\* Mutant of MaySend: the sender does not stop at the last packet.
MaySendForever == RHS - LHS + 1 < senderWindow \/ swnd = <<>>

\* make_packet has counted RHS up already, so the window holds senderWindow - 1 packets.
MaySend == (RHS - LHS + 1 < senderWindow \/ swnd = <<>>) /\ snd_num > 0

\* make_packet, and the timer's restart if the window's first packet is newly sent.
SendNew ==
  /\ MaySend
  /\ swnd' = Append(swnd, [packet |-> RHS, is_acked |-> FALSE, is_resend |-> FALSE])
  /\ RHS' = RHS + 1
  /\ snd_num' = snd_num - 1
  /\ lhs_flag' = FALSE
  /\ toMiddlebox' = Append(toMiddlebox, RHS)
  /\ UNCHANGED <<LHS, lastPacketSend>>

\* resendPkt.
Resend ==
  /\ ~MaySend /\ inTimeoutResend > 0
  /\ LET first == CheckSend(swnd, lastPacketSend)
         sent  == IF first.sent # <<>> THEN first ELSE NextRound
     IN /\ swnd' = sent.swnd
        /\ lastPacketSend' = sent.last
        /\ toMiddlebox' = toMiddlebox \o sent.sent
  /\ UNCHANGED <<snd_num, LHS, RHS, lhs_flag>>

\* The rounds owed once resendPkt has sent.
Remaining ==
  IF CheckSend(swnd, lastPacketSend).sent # <<>> THEN inTimeoutResend ELSE inTimeoutResend - 1

\* Nothing was received for recv_timeout.  The coarse timeout may have elapsed as well,
\* unless its timer was restarted just now.
NoPacket(timeout) ==
  /\ Running /\ toBlaster = <<>>
  /\ Len(toMiddlebox) < MaxQueue
  /\ timeout => inTimeoutResend < MaxResend
  /\ \/ /\ SendNew
        /\ timeout => ~lhs_flag
        /\ inTimeoutResend' = inTimeoutResend + (IF timeout THEN 1 ELSE 0)
     \/ /\ Resend
        /\ inTimeoutResend' = Remaining + (IF timeout THEN 1 ELSE 0)
     \/ /\ ~MaySend /\ inTimeoutResend = 0
        /\ inTimeoutResend' = IF timeout THEN 1 ELSE 0
        /\ UNCHANGED <<snd_num, LHS, RHS, swnd, lastPacketSend, lhs_flag, toMiddlebox>>
  /\ UNCHANGED <<toBlastee, fromBlastee, toBlaster, delivered>>

-----------------------------------------------------------------------------
(* Blaster.handle_packet. *)

\* The acknowledged packets at the front of a window.
Leading(w) == Cardinality({i \in DOMAIN w : \A j \in 1 .. i : w[j].is_acked})

\* Mutant of Old: an acknowledgement is never old, and Python counts a negative index from
\* the end of the list.
NeverOld(seq_num) == FALSE

Old(seq_num) == seq_num < LHS

\* The place of a sequence number in the window.
Index(seq_num) ==
  IF seq_num >= LHS THEN seq_num - LHS + 1 ELSE Len(swnd) + seq_num - LHS + 1

\* A new acknowledgement: the packet is marked, and the window slides over those marked.
Received(seq_num) ==
  LET w == [swnd EXCEPT ![Index(seq_num)].is_acked = TRUE]
      n == Leading(w)
  IN /\ swnd' = SubSeq(w, n + 1, Len(w))
     /\ LHS' = LHS + n
     /\ lhs_flag' = (lhs_flag \/ seq_num = LHS)
     /\ inTimeoutResend' = IF n = Len(w) THEN 0 ELSE inTimeoutResend

Ack ==
  /\ Running /\ toBlaster # <<>>
  /\ toBlaster' = Tail(toBlaster)
  /\ LET seq_num == Head(toBlaster)
     IN IF Old(seq_num) THEN UNCHANGED <<swnd, LHS, lhs_flag, inTimeoutResend>>
                        ELSE Received(seq_num)
  /\ UNCHANGED <<snd_num, RHS, lastPacketSend, toMiddlebox, toBlastee, fromBlastee, delivered>>

-----------------------------------------------------------------------------
(* Middlebox.handle_packet: data may be dropped, acknowledgements are not.  *)

ForwardData ==
  /\ toMiddlebox # <<>> /\ Len(toBlastee) < MaxQueue
  /\ toMiddlebox' = Tail(toMiddlebox)
  /\ toBlastee' = Append(toBlastee, Head(toMiddlebox))
  /\ UNCHANGED <<blaster, fromBlastee, toBlaster, delivered>>

DropData ==
  /\ toMiddlebox # <<>>
  /\ toMiddlebox' = Tail(toMiddlebox)
  /\ UNCHANGED <<blaster, toBlastee, fromBlastee, toBlaster, delivered>>

ForwardAck ==
  /\ fromBlastee # <<>> /\ Len(toBlaster) < MaxQueue
  /\ fromBlastee' = Tail(fromBlastee)
  /\ toBlaster' = Append(toBlaster, Head(fromBlastee))
  /\ UNCHANGED <<blaster, toMiddlebox, toBlastee, delivered>>

\* Blastee.handle_packet: the packet's sequence number goes back.
Blastee ==
  /\ toBlastee # <<>> /\ Len(fromBlastee) < MaxQueue
  /\ toBlastee' = Tail(toBlastee)
  /\ fromBlastee' = Append(fromBlastee, Head(toBlastee))
  /\ delivered' = delivered \cup {Head(toBlastee)}
  /\ UNCHANGED <<blaster, toMiddlebox, toBlaster>>

-----------------------------------------------------------------------------
Next ==
  \/ \E timeout \in BOOLEAN : NoPacket(timeout)
  \/ Ack \/ ForwardData \/ DropData \/ ForwardAck \/ Blastee

Spec == Init /\ [][Next]_vars

\* Each program's loop goes on, time passes, and not every packet is dropped.
Fairness ==
  /\ WF_vars(\E timeout \in BOOLEAN : NoPacket(timeout)) /\ SF_vars(NoPacket(TRUE))
  /\ WF_vars(Ack) /\ WF_vars(ForwardAck) /\ WF_vars(Blastee)
  /\ WF_vars(ForwardData \/ DropData)
  /\ \A n \in 1 .. num : SF_vars(ForwardData /\ Head(toMiddlebox) = n)

FairSpec == Spec /\ Fairness
-----------------------------------------------------------------------------
(* Properties. *)

TypeOK ==
  /\ snd_num \in 0 .. num /\ LHS \in 1 .. num + 1 /\ RHS \in 1 .. num + 1
  /\ swnd \in Seq([packet : 1 .. num, is_acked : BOOLEAN, is_resend : BOOLEAN])
  /\ inTimeoutResend \in 0 .. MaxResend /\ lastPacketSend \in Nat /\ lhs_flag \in BOOLEAN
  /\ \A link \in {toMiddlebox, toBlastee, fromBlastee, toBlaster} : link \in Seq(1 .. num)
  /\ delivered \subseteq 1 .. num

\* The window holds exactly the packets from LHS to RHS, in order, its first one not
\* acknowledged, and never more of them than senderWindow allows; and every packet on a
\* link has been sent, so that swnd[seq_num - LHS] is the entry of the packet acknowledged
\* and is never out of range.
WindowShape ==
  /\ Len(swnd) = RHS - LHS
  /\ \A i \in DOMAIN swnd : swnd[i].packet = LHS + i - 1
  /\ swnd # <<>> => ~Head(swnd).is_acked
  /\ Len(swnd) > 1 => Len(swnd) < senderWindow
  /\ \A link \in {toMiddlebox, toBlastee, fromBlastee, toBlaster} :
       \A i \in DOMAIN link : link[i] < RHS

\* The sender takes a packet as delivered only if the receiver got it, whatever was lost,
\* sent again or acknowledged twice.
Channel == INSTANCE Delivery WITH confirmed <- LHS - 1
ChannelSpec == Channel!Spec

\* Every packet is delivered and acknowledged in the end, although rounds of
\* retransmission go by the index of the last packet sent again while the window slides.
AllDelivered == <>(LHS = num + 1 /\ delivered = 1 .. num)
=============================================================================
