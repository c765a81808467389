---------------------------- MODULE TransferProofs ----------------------------
(***************************************************************************)
(* Proofs about ReliableTransfer, for any number of packets, window and    *)
(* link capacity: type correctness, WindowShape, and that the protocol     *)
(* implements Delivery.                                                    *)
(***************************************************************************)
EXTENDS ReliableTransfer, SharedFacts, FiniteSetTheorems

Entry == [packet : 1 .. num, is_acked : BOOLEAN, is_resend : BOOLEAN]

-----------------------------------------------------------------------------
(* The operators on windows. *)

LEMMA MinIn ==
  ASSUME NEW D \in SUBSET Nat, D # {}
  PROVE  Min(D) \in D
BY LeastNat DEF Min

\* The acknowledged packets at the front of a window are counted up to the first one that is not.
LEMMA LeadingIs ==
  ASSUME NEW w \in Seq(Entry)
  PROVE  /\ Leading(w) \in 0 .. Len(w)
         /\ \A j \in 1 .. Leading(w) : w[j].is_acked
         /\ Leading(w) < Len(w) => ~w[Leading(w) + 1].is_acked
<1> DEFINE waiting == {i \in DOMAIN w : ~w[i].is_acked}
           front   == {i \in DOMAIN w : \A j \in 1 .. i : w[j].is_acked}
<1>1. \E m \in 0 .. Len(w) : /\ \A j \in 1 .. m : w[j].is_acked
                             /\ m < Len(w) => ~w[m + 1].is_acked
  <2>1. CASE waiting = {}
    <3>1. \A j \in 1 .. Len(w) : w[j].is_acked
      BY <2>1
    <3>2. QED
      BY <3>1
  <2>2. CASE waiting # {}
    <3>1. PICK k \in waiting : \A i \in waiting : k <= i
      <4>1. waiting \in SUBSET Nat
        OBVIOUS
      <4> HIDE DEF waiting
      <4>2. QED
        BY <2>2, <4>1, LeastNat
    <3>2. \A j \in 1 .. k - 1 : w[j].is_acked
      BY <3>1
    <3>3. k - 1 \in 0 .. Len(w) /\ ~w[(k - 1) + 1].is_acked
      BY <3>1
    <3>4. QED
      BY <3>2, <3>3
  <2>3. QED
    BY <2>1, <2>2
<1>2. PICK m \in 0 .. Len(w) : /\ \A j \in 1 .. m : w[j].is_acked
                               /\ m < Len(w) => ~w[m + 1].is_acked
  BY <1>1
<1>3. front = 1 .. m
  <2>1. \A i \in 1 .. m : i \in front
    BY <1>2
  <2>2. \A i \in front : i \in 1 .. m
    <3>1. SUFFICES ASSUME NEW i \in front, i > m
                   PROVE  FALSE
      OBVIOUS
    <3>2. m + 1 \in 1 .. i /\ m < Len(w)
      BY <3>1
    <3>3. QED
      BY <1>2, <3>1, <3>2
  <2>3. QED
    BY <2>1, <2>2
<1>4. Cardinality(1 .. m) = m
  BY FS_Interval
<1>5. Leading(w) = m
  BY <1>3, <1>4 DEF Leading
<1>6. QED
  BY <1>2, <1>5

\* Two windows of the same packets, acknowledged alike.
Alike(v, w) ==
  /\ Len(v) = Len(w)
  /\ \A i \in DOMAIN w : v[i].packet = w[i].packet /\ v[i].is_acked = w[i].is_acked

Resent(e, b) == [e EXCEPT !.is_resend = b]

LEMMA ResentIs ==
  ASSUME NEW e \in Entry, NEW b \in BOOLEAN
  PROVE  /\ Resent(e, b) \in Entry
         /\ Resent(e, b).packet = e.packet /\ Resent(e, b).is_acked = e.is_acked
BY DEF Resent, Entry

LEMMA Replaced ==
  ASSUME NEW w \in Seq(Entry), NEW k \in DOMAIN w, NEW e \in Entry
  PROVE  LET v == [w EXCEPT ![k] = e]
         IN /\ v \in Seq(Entry) /\ Len(v) = Len(w)
            /\ \A i \in DOMAIN w : v[i] = IF i = k THEN e ELSE w[i]
OBVIOUS

LEMMA MarkResend ==
  ASSUME NEW w \in Seq(Entry), NEW k \in DOMAIN w
  PROVE  LET v == [w EXCEPT ![k].is_resend = TRUE] IN v \in Seq(Entry) /\ Alike(v, w)
<1> DEFINE v == [w EXCEPT ![k] = Resent(w[k], TRUE)]
<1>1. [w EXCEPT ![k].is_resend = TRUE] = v
  BY DEF Resent
<1>2. w[k] \in Entry
  OBVIOUS
<1>3. Resent(w[k], TRUE) \in Entry
  BY <1>2, ResentIs
<1>4. /\ v \in Seq(Entry) /\ Len(v) = Len(w)
      /\ \A i \in DOMAIN w : v[i] = IF i = k THEN Resent(w[k], TRUE) ELSE w[i]
  BY <1>3, Replaced
<1> HIDE DEF v
<1>5. \A i \in DOMAIN w : v[i].packet = w[i].packet /\ v[i].is_acked = w[i].is_acked
  BY ZenonT(30), <1>2, <1>4, ResentIs
<1>6. QED
  BY <1>1, <1>4, <1>5 DEF Alike

LEMMA ClearResend ==
  ASSUME NEW w \in Seq(Entry)
  PROVE  LET v == [i \in DOMAIN w |-> [w[i] EXCEPT !.is_resend = FALSE]]
         IN v \in Seq(Entry) /\ Alike(v, w)
<1> DEFINE v == [i \in DOMAIN w |-> [w[i] EXCEPT !.is_resend = FALSE]]
<1>1. v = [i \in 1 .. Len(w) |-> Resent(w[i], FALSE)]
  BY DEF Resent
<1>2. \A i \in DOMAIN w : w[i] \in Entry
  OBVIOUS
<1>3. \A i \in DOMAIN w : v[i] = Resent(w[i], FALSE)
  BY <1>1
<1>4. \A i \in DOMAIN w : /\ v[i] \in Entry
                          /\ v[i].packet = w[i].packet /\ v[i].is_acked = w[i].is_acked
  BY <1>2, <1>3, ResentIs
<1>5. v \in Seq(Entry) /\ Len(v) = Len(w)
  <2>1. v \in [1 .. Len(w) -> Entry]
    BY <1>4
  <2>2. QED
    BY <2>1
<1>6. QED
  BY <1>4, <1>5 DEF Alike

\* What check_send may return, of a window like w.
Outcome(w) ==
  {c \in [swnd : Seq(Entry), last : Nat, sent : Seq(1 .. num)] :
     /\ Alike(c.swnd, w)
     /\ \A i \in DOMAIN c.sent : \E k \in DOMAIN w : c.sent[i] = w[k].packet}

LEMMA CheckSendIs ==
  ASSUME NEW w \in Seq(Entry), NEW last \in Nat
  PROVE  CheckSend(w, last) \in Outcome(w)
<1> DEFINE owed == {i \in DOMAIN w : i > last /\ ~w[i].is_acked /\ ~w[i].is_resend}
<1>1. CASE owed = {}
  <2>1. CheckSend(w, last) = [swnd |-> w, last |-> last, sent |-> <<>>]
    BY <1>1 DEF CheckSend
  <2>2. Alike(w, w) /\ <<>> \in Seq(1 .. num)
    BY DEF Alike
  <2>3. QED
    BY <2>1, <2>2 DEF Outcome
<1>2. CASE owed # {}
  <2>1. owed \in SUBSET Nat
    OBVIOUS
  <2>2. PICK k \in owed : k = Min(owed)
    <3> HIDE DEF owed
    <3>1. QED
      BY <1>2, <2>1, MinIn
  <2>3. k \in DOMAIN w /\ k - 1 \in Nat
    OBVIOUS
  <2> DEFINE v == [w EXCEPT ![k].is_resend = TRUE]
  <2>4. CheckSend(w, last) = [swnd |-> v, last |-> k - 1, sent |-> <<w[k].packet>>]
    BY <1>2, <2>2 DEF CheckSend
  <2>5. v \in Seq(Entry) /\ Alike(v, w)
    BY <2>3, MarkResend
  <2>6. w[k].packet \in 1 .. num
    <3>1. w[k] \in Entry
      BY <2>3
    <3>2. QED
      BY <3>1 DEF Entry
  <2> HIDE DEF v
  <2>7. <<w[k].packet>> \in Seq(1 .. num)
    BY <2>6
  <2>8. QED
    BY <2>3, <2>4, <2>5, <2>7 DEF Outcome
<1>3. QED
  BY <1>1, <1>2

-----------------------------------------------------------------------------
(* The window w of the packets from lhs to rhs - 1, those acknowledged being among d. *)

Window(w, lhs, rhs, d) ==
  /\ w \in Seq(Entry)
  /\ Len(w) = rhs - lhs
  /\ \A i \in DOMAIN w : w[i].packet = lhs + i - 1
  /\ w # <<>> => ~w[1].is_acked
  /\ Len(w) > 1 => Len(w) < senderWindow
  /\ \A i \in DOMAIN w : w[i].is_acked => w[i].packet \in d

LEMMA WindowAlike ==
  ASSUME NEW lhs, NEW rhs, NEW d, NEW w, Window(w, lhs, rhs, d),
         NEW v \in Seq(Entry), Alike(v, w)
  PROVE  Window(v, lhs, rhs, d)
<1>1. DOMAIN v = DOMAIN w /\ Len(v) = Len(w)
  BY DEF Alike, Window
<1>2. v # <<>> => w # <<>> /\ 1 \in DOMAIN w
  BY <1>1 DEF Window
<1>3. QED
  BY <1>1, <1>2 DEF Alike, Window

LEMMA WindowGrows ==
  ASSUME NEW lhs, NEW rhs, NEW d, NEW w, Window(w, lhs, rhs, d), NEW e, d \subseteq e
  PROVE  Window(w, lhs, rhs, e)
BY DEF Window

\* A new packet is sent.
LEMMA WindowSend ==
  ASSUME NEW lhs \in Nat, NEW rhs \in 1 .. num, NEW d, NEW w, Window(w, lhs, rhs, d),
         rhs - lhs + 1 < senderWindow \/ w = <<>>
  PROVE  Window(Append(w, [packet |-> rhs, is_acked |-> FALSE, is_resend |-> FALSE]),
                lhs, rhs + 1, d)
<1> DEFINE new == [packet |-> rhs, is_acked |-> FALSE, is_resend |-> FALSE]
           v   == Append(w, new)
<1>1. new \in Entry /\ new.packet = rhs /\ ~new.is_acked
  BY DEF Entry
<1> HIDE DEF new
<1>2. /\ v \in Seq(Entry) /\ Len(v) = Len(w) + 1
      /\ \A i \in DOMAIN w : v[i] = w[i]
      /\ v[Len(w) + 1] = new
  BY <1>1 DEF Window
<1>3. /\ DOMAIN v = 1 .. Len(w) + 1 /\ DOMAIN w = 1 .. Len(w)
      /\ Len(w) \in Nat /\ Len(w) = rhs - lhs
  BY <1>2 DEF Window
<1> HIDE DEF v
<1>4. \A i \in DOMAIN v : /\ v[i].packet = lhs + i - 1
                          /\ v[i].is_acked => v[i].packet \in d
  <2>1. SUFFICES ASSUME NEW i \in DOMAIN v
                 PROVE  v[i].packet = lhs + i - 1 /\ (v[i].is_acked => v[i].packet \in d)
    OBVIOUS
  <2>2. CASE i \in DOMAIN w
    BY <1>2, <2>2 DEF Window
  <2>3. CASE i = Len(w) + 1
    BY <1>1, <1>2, <1>3, <2>3
  <2>4. QED
    BY <1>3, <2>2, <2>3
<1>5. ~v[1].is_acked
  <2>1. CASE w = <<>>
    BY <1>1, <1>2, <2>1
  <2>2. CASE w # <<>>
    <3>1. 1 \in DOMAIN w
      BY <2>2 DEF Window
    <3>2. QED
      BY <1>2, <2>2, <3>1 DEF Window
  <2>3. QED
    BY <2>1, <2>2
<1>6. Len(v) = rhs + 1 - lhs /\ (Len(v) > 1 => Len(v) < senderWindow)
  BY <1>2, <1>3, WindowAssumption
<1>7. QED
  BY <1>2, <1>4, <1>5, <1>6 DEF Window, v, new

Acked(w, k) == [w EXCEPT ![k].is_acked = TRUE]

\* A packet of the window is acknowledged: what is left of the window, and what is confirmed.
LEMMA WindowAck ==
  ASSUME NEW lhs \in Nat, NEW rhs \in Nat, NEW d, NEW w, Window(w, lhs, rhs, d),
         NEW k \in DOMAIN w, w[k].packet \in d
  PROVE  LET v == Acked(w, k)
             n == Leading(v)
         IN /\ n \in 0 .. rhs - lhs /\ Len(v) = rhs - lhs
            /\ Window(SubSeq(v, n + 1, Len(v)), lhs + n, rhs, d)
            /\ lhs .. lhs + n - 1 \subseteq d
<1> DEFINE acked == [w[k] EXCEPT !.is_acked = TRUE]
           v == [w EXCEPT ![k] = acked]
           n == Leading(v)
           rest == SubSeq(v, n + 1, Len(v))
<1>1. w \in Seq(Entry) /\ w[k] \in Entry
  BY DEF Window
<1>2. acked \in Entry /\ acked.packet = w[k].packet /\ acked.is_acked
  BY <1>1 DEF Entry
<1> HIDE DEF acked
<1>3. /\ v \in Seq(Entry) /\ Len(v) = Len(w)
      /\ \A i \in DOMAIN w : v[i] = IF i = k THEN acked ELSE w[i]
  BY <1>1, <1>2, Replaced
<1> HIDE DEF v
<1>4. DOMAIN v = 1 .. Len(v) /\ DOMAIN w = DOMAIN v /\ Len(v) \in Nat /\ Len(v) = rhs - lhs
  BY <1>1, <1>3 DEF Window
<1>5. \A i \in DOMAIN v : /\ v[i].packet = lhs + i - 1
                          /\ v[i].is_acked => v[i].packet \in d
  BY <1>2, <1>3, <1>4 DEF Window
<1>6. /\ n \in 0 .. Len(v)
      /\ \A j \in 1 .. n : v[j].is_acked
      /\ n < Len(v) => ~v[n + 1].is_acked
  BY <1>3, LeadingIs
<1> HIDE DEF n
<1>7. /\ rest \in Seq(Entry) /\ Len(rest) = Len(v) - n
      /\ \A i \in 1 .. Len(v) - n : rest[i] = v[n + i]
  BY <1>3, <1>4, <1>6
<1>8. DOMAIN rest = 1 .. Len(v) - n
  BY <1>7
<1> HIDE DEF rest
<1>9. \A i \in DOMAIN rest : n + i \in DOMAIN v /\ rest[i] = v[n + i]
  BY <1>4, <1>6, <1>7, <1>8
<1>10. \A i \in DOMAIN rest : /\ rest[i].packet = lhs + n + i - 1
                              /\ rest[i].is_acked => rest[i].packet \in d
  BY SMTT(30), <1>4, <1>5, <1>6, <1>8, <1>9
<1>11. rest # <<>> => ~rest[1].is_acked
  <2>1. ASSUME rest # <<>> PROVE 1 \in DOMAIN rest
    BY <1>7, <2>1
  <2>2. QED
    BY <1>4, <1>6, <1>7, <1>8, <2>1
<1>12. /\ Len(rest) = rhs - (lhs + n)
       /\ Len(rest) > 1 => Len(rest) < senderWindow
  BY <1>3, <1>4, <1>6, <1>7, WindowAssumption DEF Window
<1>13. lhs .. lhs + n - 1 \subseteq d
  <2>1. SUFFICES ASSUME NEW p \in lhs .. lhs + n - 1
                 PROVE  p \in d
    OBVIOUS
  <2>2. p - lhs + 1 \in 1 .. n /\ p - lhs + 1 \in DOMAIN v /\ p = lhs + (p - lhs + 1) - 1
    BY <1>4, <1>6
  <2>3. QED
    BY <1>5, <1>6, <2>2
<1>14. Window(rest, lhs + n, rhs, d)
  BY <1>7, <1>10, <1>11, <1>12 DEF Window
<1>15. v = Acked(w, k)
  BY DEF v, acked, Acked
<1>16. QED
  BY <1>4, <1>6, <1>13, <1>14, <1>15 DEF n, rest

-----------------------------------------------------------------------------
(* The inductive invariant. *)

\* A packet is either still to be sent or has a number below RHS.
Sender ==
  /\ snd_num \in 0 .. num /\ LHS \in Nat \ {0} /\ RHS \in Nat /\ snd_num + RHS = num + 1
  /\ inTimeoutResend \in 0 .. MaxResend /\ lastPacketSend \in Nat /\ lhs_flag \in BOOLEAN

Links ==
  /\ toMiddlebox \in Seq(1 .. RHS - 1) /\ toBlastee \in Seq(1 .. RHS - 1)
  /\ fromBlastee \in Seq(delivered) /\ toBlaster \in Seq(delivered)
  /\ delivered \subseteq 1 .. RHS - 1

Inv ==
  /\ Sender /\ Links
  /\ Window(swnd, LHS, RHS, delivered)
  /\ 1 .. LHS - 1 \subseteq delivered

LEMMA SeqMonotone ==
  ASSUME NEW S, NEW T, S \subseteq T, NEW s \in Seq(S)
  PROVE  s \in Seq(T)
OBVIOUS

LEMMA SeqOf ==
  ASSUME NEW S, NEW T, NEW s \in Seq(S), \A i \in DOMAIN s : s[i] \in T
  PROVE  s \in Seq(T)
OBVIOUS

LEMMA Concatenated ==
  ASSUME NEW S, NEW s \in Seq(S), NEW t \in Seq(S)
  PROVE  s \o t \in Seq(S)
OBVIOUS

LEMMA Moved ==
  ASSUME NEW S, NEW s \in Seq(S), s # <<>>
  PROVE  Head(s) \in S /\ Tail(s) \in Seq(S)
OBVIOUS

\* The window holds packets that were sent.
LEMMA InWindow ==
  ASSUME NEW lhs \in Nat, lhs > 0, NEW rhs \in Nat, NEW d, NEW w, Window(w, lhs, rhs, d),
         NEW k \in DOMAIN w
  PROVE  w[k].packet \in 1 .. rhs - 1
<1>1. w[k].packet = lhs + k - 1 /\ k \in 1 .. rhs - lhs
  BY DEF Window
<1>2. QED
  BY <1>1

LEMMA OutcomeAlike ==
  ASSUME NEW w \in Seq(Entry), NEW v \in Seq(Entry), Alike(v, w), NEW c \in Outcome(v)
  PROVE  c \in Outcome(w)
<1>1. DOMAIN v = DOMAIN w /\ Len(v) = Len(w)
  BY DEF Alike
<1>2. \A k \in DOMAIN v : v[k].packet = w[k].packet
  BY <1>1 DEF Alike
<1>3. c \in [swnd : Seq(Entry), last : Nat, sent : Seq(1 .. num)] /\ Alike(c.swnd, v)
  BY DEF Outcome
<1>4. Alike(c.swnd, w)
  BY <1>1, <1>3 DEF Alike
<1>5. \A i \in DOMAIN c.sent : \E k \in DOMAIN w : c.sent[i] = w[k].packet
  BY <1>1, <1>2 DEF Outcome
<1>6. QED
  BY <1>3, <1>4, <1>5 DEF Outcome

LEMMA InitInv == Init => Inv
<1> SUFFICES ASSUME Init
             PROVE  Inv
  OBVIOUS
<1>1. Sender
  BY NumAssumption, BoundAssumption DEF Init, Sender
<1>2. Links
  BY DEF Init, Links
<1>3. Window(swnd, LHS, RHS, delivered) /\ 1 .. LHS - 1 \subseteq delivered
  BY DEF Init, Window
<1>4. QED
  BY <1>1, <1>2, <1>3 DEF Inv

\* What a step that takes nothing away from the window leaves to show.
LEMMA SendNewInv ==
  ASSUME Inv, SendNew, inTimeoutResend' \in 0 .. MaxResend,
         UNCHANGED <<toBlastee, fromBlastee, toBlaster, delivered>>
  PROVE  Inv'
<1>1. snd_num \in 1 .. num /\ RHS \in 1 .. num
  <2>1. snd_num > 0 /\ Sender
    BY DEF Inv, SendNew, MaySend
  <2>2. QED
    BY <2>1, NumAssumption DEF Sender
<1>2. Sender'
  <2>1. RHS' = RHS + 1 /\ snd_num' = snd_num - 1 /\ lhs_flag' = FALSE
        /\ LHS' = LHS /\ lastPacketSend' = lastPacketSend
    BY DEF SendNew
  <2>2. Sender
    BY DEF Inv
  <2>3. snd_num' \in 0 .. num /\ RHS' \in Nat /\ snd_num' + RHS' = num + 1
    BY <1>1, <2>1, <2>2, NumAssumption DEF Sender
  <2>4. QED
    BY <2>1, <2>2, <2>3 DEF Sender
<1>3. 1 .. RHS - 1 \subseteq 1 .. RHS' - 1 /\ RHS \in 1 .. RHS' - 1
  BY <1>1 DEF SendNew
<1>4. Links'
  <2>1. toMiddlebox \in Seq(1 .. RHS' - 1) /\ toBlastee \in Seq(1 .. RHS' - 1)
    BY <1>3, SeqMonotone DEF Inv, Links
  <2>2. toMiddlebox' \in Seq(1 .. RHS' - 1)
    BY <1>3, <2>1 DEF SendNew
  <2>3. QED
    BY <1>3, <2>1, <2>2 DEF Inv, Links
<1>5. Window(swnd', LHS', RHS', delivered')
  <2>1. RHS - LHS + 1 < senderWindow \/ swnd = <<>>
    BY DEF SendNew, MaySend
  <2>2. LHS \in Nat
    BY DEF Inv, Sender
  <2>3. QED
    BY <1>1, <2>1, <2>2, WindowSend DEF Inv, SendNew
<1>6. QED
  BY <1>2, <1>4, <1>5 DEF Inv, SendNew

LEMMA ResendInv ==
  ASSUME Inv, Resend, inTimeoutResend' \in 0 .. MaxResend,
         UNCHANGED <<toBlastee, fromBlastee, toBlaster, delivered>>
  PROVE  Inv'
<1> DEFINE cleared == [i \in DOMAIN swnd |-> [swnd[i] EXCEPT !.is_resend = FALSE]]
           first == CheckSend(swnd, lastPacketSend)
           sent  == IF first.sent # <<>> THEN first ELSE NextRound
<1>1. swnd \in Seq(Entry) /\ lastPacketSend \in Nat /\ Window(swnd, LHS, RHS, delivered)
  BY DEF Inv, Sender, Window
<1>2. sent \in Outcome(swnd)
  <2>1. first \in Outcome(swnd)
    BY <1>1, CheckSendIs
  <2>2. cleared \in Seq(Entry) /\ Alike(cleared, swnd)
    BY <1>1, ClearResend
  <2>3. NextRound = CheckSend(cleared, 0)
    BY DEF NextRound
  <2> HIDE DEF cleared
  <2>4. NextRound \in Outcome(cleared)
    BY <2>2, <2>3, CheckSendIs
  <2>5. NextRound \in Outcome(swnd)
    BY <1>1, <2>2, <2>4, OutcomeAlike
  <2>6. QED
    BY <2>1, <2>5
<1>3. /\ swnd' = sent.swnd /\ lastPacketSend' = sent.last
      /\ toMiddlebox' = toMiddlebox \o sent.sent
  BY DEF Resend
<1> HIDE DEF sent
<1>4. swnd' \in Seq(Entry) /\ Alike(swnd', swnd) /\ lastPacketSend' \in Nat
  BY <1>2, <1>3 DEF Outcome
<1>5. sent.sent \in Seq(1 .. RHS - 1)
  <2>1. PICK s \in Seq(1 .. num) :
          /\ s = sent.sent
          /\ \A i \in DOMAIN s : \E k \in DOMAIN swnd : s[i] = swnd[k].packet
    BY <1>2 DEF Outcome
  <2>2. LHS \in Nat /\ LHS > 0 /\ RHS \in Nat
    BY DEF Inv, Sender
  <2>3. \A k \in DOMAIN swnd : swnd[k].packet \in 1 .. RHS - 1
    BY <1>1, <2>2, InWindow
  <2>4. \A i \in DOMAIN s : s[i] \in 1 .. RHS - 1
    BY <2>1, <2>3
  <2>5. s \in Seq(1 .. RHS - 1)
    BY <2>1, <2>4, SeqOf
  <2>6. QED
    BY <2>1, <2>5
<1>6. toMiddlebox' \in Seq(1 .. RHS - 1)
  BY <1>3, <1>5, Concatenated DEF Inv, Links
<1>7. Window(swnd', LHS, RHS, delivered)
  BY <1>1, <1>4, WindowAlike
<1>8. QED
  BY <1>4, <1>6, <1>7 DEF Inv, Sender, Links, Resend

LEMMA NoPacketInv ==
  ASSUME Inv, NEW timeout \in BOOLEAN, NoPacket(timeout)
  PROVE  Inv'
<1>1. inTimeoutResend \in 0 .. MaxResend /\ (timeout => inTimeoutResend < MaxResend)
  BY DEF Inv, Sender, NoPacket
<1>2. CASE SendNew
  <2>1. inTimeoutResend' \in 0 .. MaxResend
    BY <1>1, <1>2, BoundAssumption DEF NoPacket, SendNew, Resend
  <2>2. QED
    BY <1>2, <2>1, SendNewInv DEF NoPacket
<1>3. CASE Resend /\ ~SendNew
  <2>1. inTimeoutResend > 0 /\ ~MaySend
    BY <1>3 DEF Resend
  <2>2. inTimeoutResend' = Remaining + (IF timeout THEN 1 ELSE 0)
    BY <1>3, <2>1 DEF NoPacket
  <2>3. Remaining \in {inTimeoutResend, inTimeoutResend - 1}
    BY DEF Remaining
  <2>4. inTimeoutResend' \in 0 .. MaxResend
    BY <1>1, <2>1, <2>2, <2>3, BoundAssumption
  <2>5. QED
    BY <1>3, <2>4, ResendInv DEF NoPacket
<1>4. CASE ~SendNew /\ ~Resend
  <2>1. /\ inTimeoutResend' = IF timeout THEN 1 ELSE 0
        /\ UNCHANGED <<snd_num, LHS, RHS, swnd, lastPacketSend, lhs_flag, toMiddlebox>>
        /\ UNCHANGED <<toBlastee, fromBlastee, toBlaster, delivered>>
    BY <1>4 DEF NoPacket
  <2>2. inTimeoutResend' \in 0 .. MaxResend
    BY <1>1, <2>1, BoundAssumption
  <2>3. QED
    BY <2>1, <2>2 DEF Inv, Sender, Links
<1>5. QED
  BY <1>2, <1>3, <1>4

LEMMA AckInv ==
  ASSUME Inv, Ack
  PROVE  /\ Inv'
         /\ LHS' \in LHS .. num + 1 /\ delivered' = delivered
<1> DEFINE seq_num == Head(toBlaster)
<1>1. /\ seq_num \in delivered /\ toBlaster' \in Seq(delivered)
      /\ LHS \in Nat \ {0} /\ RHS \in Nat /\ RHS <= num + 1
      /\ delivered \subseteq 1 .. RHS - 1
  <2>1. toBlaster \in Seq(delivered) /\ toBlaster # <<>> /\ toBlaster' = Tail(toBlaster)
    BY DEF Inv, Links, Ack
  <2>2. seq_num \in delivered /\ toBlaster' \in Seq(delivered)
    BY <2>1, Moved
  <2>3. QED
    BY <2>2, NumAssumption DEF Inv, Sender, Links
<1>2. Window(swnd, LHS, RHS, delivered)
  BY DEF Inv
<1>3. Len(swnd) = RHS - LHS /\ Len(swnd) \in Nat /\ DOMAIN swnd = 1 .. Len(swnd)
  BY <1>2 DEF Window
<1>4. /\ UNCHANGED <<snd_num, RHS, lastPacketSend, toMiddlebox, toBlastee, fromBlastee>>
      /\ delivered' = delivered
  BY DEF Ack
<1> HIDE DEF seq_num
<1>5. CASE Old(seq_num)
  <2>1. UNCHANGED <<swnd, LHS, lhs_flag, inTimeoutResend>>
    BY <1>5 DEF Ack, seq_num
  <2>2. LHS' \in LHS .. num + 1
    BY <1>1, <1>3, <2>1, NumAssumption
  <2>3. QED
    BY <1>1, <1>4, <2>1, <2>2 DEF Inv, Sender, Links
<1>6. CASE ~Old(seq_num)
  <2> DEFINE k == seq_num - LHS + 1
             w == Acked(swnd, k)
             n == Leading(w)
  <2>1. k \in DOMAIN swnd /\ Index(seq_num) = k /\ seq_num = LHS + k - 1
    BY <1>1, <1>3, <1>6 DEF Old, Index
  <2>2. swnd[k].packet \in delivered
    BY <1>1, <1>2, <2>1 DEF Window
  <2>3. /\ swnd' = SubSeq(w, n + 1, Len(w))
        /\ LHS' = LHS + n
        /\ lhs_flag' = (lhs_flag \/ seq_num = LHS)
        /\ inTimeoutResend' = IF n = Len(w) THEN 0 ELSE inTimeoutResend
    BY <1>6, <2>1 DEF Ack, Received, Acked, seq_num
  <2> HIDE DEF k
  <2>4. /\ n \in 0 .. RHS - LHS /\ Len(w) = RHS - LHS
        /\ Window(SubSeq(w, n + 1, Len(w)), LHS + n, RHS, delivered)
        /\ LHS .. LHS + n - 1 \subseteq delivered
    <3>1. LHS \in Nat /\ RHS \in Nat
      BY <1>1
    <3>2. QED
      BY <1>2, <2>1, <2>2, <3>1, WindowAck
  <2> HIDE DEF n, w
  <2>5. LHS' \in LHS .. num + 1 /\ LHS' \in Nat \ {0}
    BY <1>1, <2>3, <2>4, NumAssumption
  <2>6. 1 .. LHS' - 1 \subseteq delivered
    <3>1. 1 .. LHS - 1 \subseteq delivered
      BY DEF Inv
    <3>2. \A p \in 1 .. LHS' - 1 : p \in 1 .. LHS - 1 \/ p \in LHS .. LHS + n - 1
      BY <1>1, <2>3, <2>4
    <3>3. QED
      BY <2>4, <3>1, <3>2
  <2>7. Window(swnd', LHS', RHS', delivered')
    BY <1>4, <2>3, <2>4
  <2>8. Sender'
    <3>1. inTimeoutResend' \in 0 .. MaxResend /\ lhs_flag' \in BOOLEAN
      BY <2>3, BoundAssumption DEF Inv, Sender
    <3>2. QED
      BY <1>4, <2>5, <3>1 DEF Inv, Sender
  <2>9. Links'
    BY <1>1, <1>4 DEF Inv, Links
  <2>10. QED
    BY <1>4, <2>5, <2>6, <2>7, <2>8, <2>9 DEF Inv
<1>7. QED
  BY <1>5, <1>6

LEMMA MiddleboxInv ==
  ASSUME Inv, ForwardData \/ DropData \/ ForwardAck
  PROVE  Inv' /\ UNCHANGED <<LHS, delivered>>
<1>1. CASE ForwardData
  <2>1. Head(toMiddlebox) \in 1 .. RHS - 1 /\ Tail(toMiddlebox) \in Seq(1 .. RHS - 1)
    BY <1>1, Moved DEF Inv, Links, ForwardData
  <2>2. toMiddlebox' \in Seq(1 .. RHS - 1) /\ toBlastee' \in Seq(1 .. RHS - 1)
    BY <1>1, <2>1 DEF Inv, Links, ForwardData
  <2>3. QED
    BY <1>1, <2>2 DEF Inv, Sender, Links, ForwardData, blaster
<1>2. CASE DropData
  <2>1. toMiddlebox' \in Seq(1 .. RHS - 1)
    BY <1>2, Moved DEF Inv, Links, DropData
  <2>2. QED
    BY <1>2, <2>1 DEF Inv, Sender, Links, DropData, blaster
<1>3. CASE ForwardAck
  <2>1. Head(fromBlastee) \in delivered /\ Tail(fromBlastee) \in Seq(delivered)
    BY <1>3, Moved DEF Inv, Links, ForwardAck
  <2>2. fromBlastee' \in Seq(delivered) /\ toBlaster' \in Seq(delivered)
    BY <1>3, <2>1 DEF Inv, Links, ForwardAck
  <2>3. QED
    BY <1>3, <2>2 DEF Inv, Sender, Links, ForwardAck, blaster
<1>4. QED
  BY <1>1, <1>2, <1>3

LEMMA BlasteeInv ==
  ASSUME Inv, Blastee
  PROVE  /\ Inv' /\ LHS' = LHS
         /\ \E n \in 1 .. num : delivered' = delivered \cup {n}
<1> DEFINE n == Head(toBlastee)
<1>1. n \in 1 .. RHS - 1 /\ Tail(toBlastee) \in Seq(1 .. RHS - 1)
  BY Moved DEF Inv, Links, Blastee
<1>2. n \in 1 .. num
  BY <1>1, NumAssumption DEF Inv, Sender
<1>3. /\ toBlastee' = Tail(toBlastee) /\ fromBlastee' = Append(fromBlastee, n)
      /\ delivered' = delivered \cup {n} /\ UNCHANGED <<blaster, toMiddlebox, toBlaster>>
  BY DEF Blastee
<1> HIDE DEF n
<1>4. delivered \subseteq delivered' /\ delivered' \subseteq 1 .. RHS - 1 /\ n \in delivered'
  BY <1>1, <1>3 DEF Inv, Links
<1>5. fromBlastee \in Seq(delivered') /\ toBlaster \in Seq(delivered')
  BY <1>4, SeqMonotone DEF Inv, Links
<1>6. Links'
  BY <1>1, <1>3, <1>4, <1>5 DEF Inv, Links, blaster
<1>7. Window(swnd', LHS', RHS', delivered')
  BY <1>3, <1>4, WindowGrows DEF Inv, blaster
<1>8. QED
  BY <1>2, <1>3, <1>4, <1>6, <1>7 DEF Inv, Sender, blaster

LEMMA StutterInv ==
  ASSUME Inv, UNCHANGED vars
  PROVE  Inv'
BY DEF Inv, Sender, Links, vars, blaster, links

LEMMA NextInv ==
  ASSUME Inv, [Next]_vars
  PROVE  Inv'
<1>1. CASE \E timeout \in BOOLEAN : NoPacket(timeout)
  BY <1>1, NoPacketInv
<1>2. CASE Ack
  BY <1>2, AckInv
<1>3. CASE ForwardData \/ DropData \/ ForwardAck
  BY <1>3, MiddleboxInv
<1>4. CASE Blastee
  BY <1>4, BlasteeInv
<1>5. CASE UNCHANGED vars
  BY <1>5, StutterInv
<1>6. QED
  BY <1>1, <1>2, <1>3, <1>4, <1>5 DEF Next

\* Every reachable state satisfies the inductive invariant.
THEOREM Invariant == Spec => []Inv
<1>1. Inv /\ [Next]_vars => Inv'
  BY NextInv
<1>2. QED
  BY <1>1, InitInv, PTL DEF Spec

-----------------------------------------------------------------------------
(* What follows from it. *)

LEMMA InvTypes ==
  ASSUME Inv
  PROVE  TypeOK
<1>1. Sender /\ Links /\ Window(swnd, LHS, RHS, delivered)
  BY DEF Inv
<1>2. LHS \in 1 .. num + 1 /\ RHS \in 1 .. num + 1 /\ 1 .. RHS - 1 \subseteq 1 .. num
  <2>1. Len(swnd) \in Nat /\ Len(swnd) = RHS - LHS
    BY <1>1 DEF Window
  <2>2. QED
    BY <1>1, <2>1, NumAssumption DEF Sender
<1>3. delivered \subseteq 1 .. num
  BY <1>1, <1>2 DEF Links
<1>4. /\ toMiddlebox \in Seq(1 .. num) /\ toBlastee \in Seq(1 .. num)
      /\ fromBlastee \in Seq(1 .. num) /\ toBlaster \in Seq(1 .. num)
  BY <1>1, <1>2, <1>3, SeqMonotone DEF Links
<1>5. swnd \in Seq([packet : 1 .. num, is_acked : BOOLEAN, is_resend : BOOLEAN])
  BY <1>1 DEF Window, Entry
<1>6. QED
  BY <1>1, <1>2, <1>3, <1>4, <1>5 DEF Sender, TypeOK

\* Every variable has its type: in particular the sender never goes past the last packet and
\* its two counters stay in step (blaster.py, make_packet and handle_packet).
THEOREM TypeCorrect == Spec => []TypeOK
BY Invariant, InvTypes, PTL

LEMMA InvWindow ==
  ASSUME Inv
  PROVE  WindowShape
<1>1. Sender /\ Links /\ Window(swnd, LHS, RHS, delivered)
  BY DEF Inv
<1>2. swnd # <<>> => ~Head(swnd).is_acked
  BY <1>1 DEF Window
<1>3. fromBlastee \in Seq(1 .. RHS - 1) /\ toBlaster \in Seq(1 .. RHS - 1)
  BY <1>1, SeqMonotone DEF Links
<1>4. \A link \in {toMiddlebox, toBlastee, fromBlastee, toBlaster} :
        \A i \in DOMAIN link : link[i] < RHS
  <2>1. ASSUME NEW link \in Seq(1 .. RHS - 1), NEW i \in DOMAIN link
        PROVE  link[i] < RHS
    <3>1. link[i] \in 1 .. RHS - 1 /\ RHS \in Nat
      BY <1>1 DEF Sender
    <3>2. QED
      BY <3>1
  <2>2. QED
    BY <1>1, <1>3, <2>1 DEF Links
<1>5. QED
  BY <1>1, <1>2, <1>4 DEF Window, WindowShape

\* The window of the sender holds the packets from LHS to RHS in order, and an acknowledgement
\* that is not old always names one of them (blaster.py, handle_packet).
THEOREM WindowCorrect == Spec => []WindowShape
BY Invariant, InvWindow, PTL

LEMMA StepDelivers ==
  ASSUME Inv, Inv', [Next]_vars
  PROVE  [Channel!Next]_<<delivered, LHS - 1>>
<1>1. CASE \E timeout \in BOOLEAN : NoPacket(timeout)
  BY <1>1 DEF NoPacket, SendNew, Resend
<1>2. CASE Ack
  <2>1. /\ LHS' \in LHS .. num + 1 /\ delivered' = delivered
        /\ LHS \in Nat \ {0} /\ 1 .. LHS' - 1 \subseteq delivered
    BY <1>2, AckInv DEF Inv, Sender
  <2>2. CASE LHS' = LHS
    BY <2>1, <2>2
  <2>3. CASE LHS' # LHS
    <3>1. LHS' - 1 \in LHS - 1 + 1 .. num
      <4>1. LHS \in Nat /\ LHS' \in Nat /\ LHS <= LHS' /\ LHS' <= num + 1
        BY <2>1, NumAssumption
      <4>2. \A l, m \in Nat : l <= m /\ m <= num + 1 /\ m # l => m - 1 \in l - 1 + 1 .. num
        BY NumAssumption
      <4>3. QED
        BY <2>3, <4>1, <4>2
    <3>2. Channel!Confirm
      BY <2>1, <3>1 DEF Channel!Confirm
    <3>3. QED
      BY <3>2 DEF Channel!Next
  <2>4. QED
    BY <2>2, <2>3
<1>3. CASE ForwardData \/ DropData \/ ForwardAck
  BY <1>3, MiddleboxInv
<1>4. CASE Blastee
  <2>1. Channel!Deliver
    BY <1>4, BlasteeInv DEF Channel!Deliver
  <2>2. QED
    BY <2>1 DEF Channel!Next
<1>5. CASE UNCHANGED vars
  BY <1>5 DEF vars, blaster
<1>6. QED
  BY <1>1, <1>2, <1>3, <1>4, <1>5 DEF Next

\* The protocol implements Delivery: whatever is dropped, sent again or acknowledged twice, the
\* sender takes packets as delivered in order and only those that have reached the receiver.
THEOREM Implements == Spec => ChannelSpec
<1>1. Init => Channel!Init
  BY DEF Init, Channel!Init
<1>2. Inv /\ Inv' /\ [Next]_vars => [Channel!Next]_<<delivered, LHS - 1>>
  BY StepDelivers
<1>3. QED
  BY <1>1, <1>2, Invariant, PTL DEF Spec, ChannelSpec, Channel!Spec
=============================================================================
