-------------------------- MODULE ReferencesProofs --------------------------
(***************************************************************************)
(* Proofs about References for every clock, window and draw: what a        *)
(* reference tells of the call that made it.                               *)
(***************************************************************************)
EXTENDS References, TLAPS

\* What is made is kept; draws are those of the method.
DrawInv == \A c \in Call : IsMade(c) => call[c].draw \in Draw(call[c].method)
InsertedInv == \A d \in inserted : IsMade(d)
PaidInv ==
    \A c, d \in Call : <<c, d>> \in paid =>
        d \in inserted /\ IsMade(c) /\ IsMade(d) /\ Same(c, d)

IInv == TypeOK /\ DrawInv /\ InsertedInv /\ PaidInv

\* Four digits put after a number can be told from it.
LEMMA FourDigitsEnd ==
    ASSUME NEW a \in Int, NEW b \in Int, NEW r \in Int, NEW s \in Int,
           r >= 0, r <= 9999, s >= 0, s <= 9999, a * 10000 + r = b * 10000 + s
    PROVE  a = b /\ r = s
OBVIOUS

\* The last digits of the clock are a number below Window.
LEMMA LastDigitsType ==
    ASSUME NEW t \in Clock
    PROVE  LastDigits(t) \in Int /\ LastDigits(t) < Window
<1>1. t \in Int /\ Window \in Int /\ Window > 0
  BY ReferenceAssumption
<1> QED
  BY <1>1 DEF LastDigits

\* A four-digit draw ends where the digits of the clock begin (vietqr.provider.ts:31).
LEMMA VietqrCodeDetermines ==
    \A t, u \in Clock : \A r, s \in FourDigitDraw :
        VietqrCode(t, r) = VietqrCode(u, s) => r = s /\ LastDigits(t) = LastDigits(u)
<1> SUFFICES ASSUME NEW t \in Clock, NEW u \in Clock, NEW r \in FourDigitDraw, NEW s \in FourDigitDraw,
                    VietqrCode(t, r) = VietqrCode(u, s)
             PROVE  r = s /\ LastDigits(t) = LastDigits(u)
  OBVIOUS
<1>1. LastDigits(t) \in Int /\ LastDigits(u) \in Int
  BY LastDigitsType
<1>2. LastDigits(t) * 10000 + r = LastDigits(u) * 10000 + s
  BY DEF VietqrCode
<1>3. r \in Int /\ s \in Int /\ r >= 0 /\ r <= 9999 /\ s >= 0 /\ s <= 9999
  BY DEF FourDigitDraw
<1> QED
  BY <1>1, <1>2, <1>3, FourDigitsEnd

\* A draw of one digit and one of two make numbers of different lengths (lines
\* 115-118).
LEMMA PayosCodeDetermines ==
    \A t, u \in Clock : \A r, s \in 0..99 :
        PayosCode(t, r) = PayosCode(u, s) => r = s /\ t = u
<1> SUFFICES ASSUME NEW t \in Clock, NEW u \in Clock, NEW r \in 0..99, NEW s \in 0..99,
                    PayosCode(t, r) = PayosCode(u, s)
             PROVE  r = s /\ t = u
  OBVIOUS
<1>1. t \in Int /\ u \in Int /\ ClockLow \in Int
  BY ReferenceAssumption
<1>2. t >= ClockLow /\ t < 10 * ClockLow /\ u >= ClockLow /\ u < 10 * ClockLow
  BY ReferenceAssumption
<1> QED
  BY <1>1, <1>2 DEF PayosCode

\* Four digits do not carry into the number before them.
LEMMA FourDigitsFit ==
    ASSUME NEW a \in Int, NEW w \in Int, NEW r \in Int, a < w, r <= 9999
    PROVE  a * 10000 + r < w * 10000
<1>1. a + 1 <= w
  OBVIOUS
<1>2. (a + 1) * 10000 <= w * 10000
  BY <1>1
<1> QED
  BY <1>2

\* VietQR's codes are shorter than PayOS's.
LEMMA CodesDiffer ==
    \A t, u \in Clock : \A r \in FourDigitDraw, s \in 0..99 : VietqrCode(t, r) # PayosCode(u, s)
<1> SUFFICES ASSUME NEW t \in Clock, NEW u \in Clock, NEW r \in FourDigitDraw, NEW s \in 0..99
             PROVE  VietqrCode(t, r) # PayosCode(u, s)
  OBVIOUS
<1>1. t \in Int /\ u \in Int /\ Window \in Int /\ Window > 0 /\ ClockLow \in Int
  BY ReferenceAssumption
<1>2. u >= ClockLow /\ Window * 1000 <= ClockLow
  BY ReferenceAssumption
<1>3. LastDigits(t) \in Int /\ LastDigits(t) < Window
  BY LastDigitsType
<1>4. VietqrCode(t, r) < Window * 10000
  <2>1. r \in Int /\ r <= 9999
    BY DEF FourDigitDraw
  <2>2. LastDigits(t) * 10000 + r < Window * 10000
    BY <1>1, <1>3, <2>1, FourDigitsFit
  <2> QED
    BY <2>2 DEF VietqrCode
<1>5. PayosCode(u, s) >= 10 * ClockLow
  BY <1>1, <1>2 DEF PayosCode
<1>6. VietqrCode(t, r) \in Int /\ PayosCode(u, s) \in Int
  BY <1>1, <1>3 DEF VietqrCode, PayosCode, FourDigitDraw
<1> QED
  BY <1>1, <1>2, <1>4, <1>5, <1>6

-----------------------------------------------------------------------------
\* The invariant holds before the first call.
LEMMA InitInv == Init => IInv
BY DEF Init, IInv, TypeOK, DrawInv, InsertedInv, PaidInv, IsMade

\* How far a call is says nothing of what its reference is made of.
LEMMA OnlyPcChanges ==
    \A m \in Made, pc \in {"asked", "refused", "inserted", "failed"} :
           /\ [m EXCEPT !.pc = pc] \in Made
           /\ [m EXCEPT !.pc = pc].method = m.method
           /\ [m EXCEPT !.pc = pc].booking = m.booking
           /\ [m EXCEPT !.pc = pc].time = m.time
           /\ [m EXCEPT !.pc = pc].draw = m.draw
BY DEF Made

\* A call that is made keeps its method, booking, time and draw.
LEMMA MadeIsKept ==
    ASSUME IInv, [Next]_vars, NEW c \in Call, IsMade(c)
    PROVE  /\ IsMade(c)'
           /\ call'[c].method = call[c].method
           /\ call'[c].booking = call[c].booking
           /\ call'[c].time = call[c].time
           /\ call'[c].draw = call[c].draw
<1>1. call \in [Call -> {Idle} \cup Made] /\ call[c] \in Made
  BY DEF IInv, TypeOK, IsMade
<1>2. CASE UNCHANGED call
  BY <1>2 DEF IsMade
<1>3. ASSUME NEW b \in Call, Ask(b) PROVE c # b /\ call'[c] = call[c]
  BY <1>1, <1>3 DEF Ask, IsMade
<1>4. ASSUME NEW b \in Call, Refuse(b) \/ Insert(b)
      PROVE  \E pc \in {"refused", "failed", "inserted"} :
                call' = [call EXCEPT ![b].pc = pc]
  BY <1>4 DEF Refuse, Insert
<1>5. ASSUME NEW b \in Call, NEW pc \in {"refused", "failed", "inserted"},
             call' = [call EXCEPT ![b].pc = pc]
      PROVE  /\ call'[c] \in Made
             /\ call'[c].method = call[c].method
             /\ call'[c].booking = call[c].booking
             /\ call'[c].time = call[c].time
             /\ call'[c].draw = call[c].draw
    <2>1. CASE b = c
      <3>1. call'[c] = [call[c] EXCEPT !.pc = pc]
        BY <1>1, <1>5, <2>1
      <3>2. pc \in {"asked", "refused", "inserted", "failed"}
        OBVIOUS
      <3> DEFINE m == call[c]
      <3>3. m \in Made
        BY <1>1
      <3> HIDE DEF m
      <3>4. /\ [m EXCEPT !.pc = pc] \in Made
            /\ [m EXCEPT !.pc = pc].method = m.method
            /\ [m EXCEPT !.pc = pc].booking = m.booking
            /\ [m EXCEPT !.pc = pc].time = m.time
            /\ [m EXCEPT !.pc = pc].draw = m.draw
        BY <3>2, <3>3, OnlyPcChanges
      <3> QED
        BY <3>1, <3>4 DEF m
    <2>2. CASE b # c
      BY <1>1, <1>5, <2>2
    <2> QED
      BY <2>1, <2>2
<1>6. Idle \notin Made
  BY DEF Idle, Made
<1> QED
  BY <1>2, <1>3, <1>4, <1>5, <1>6 DEF Next, vars, Tick, Callback, IsMade

\* So is its reference.
LEMMA ReferenceIsKept ==
    ASSUME IInv, [Next]_vars, NEW c \in Call, IsMade(c)
    PROVE  Reference(c)' = Reference(c) /\ call'[c].method = call[c].method
BY MadeIsKept DEF Reference, ReferenceOf

\* Whether two calls drew alike does not change.
LEMMA SameIsKept ==
    ASSUME IInv, [Next]_vars, NEW c \in Call, NEW d \in Call, IsMade(c), IsMade(d)
    PROVE  /\ Same(c, d)' <=> Same(c, d)
           /\ IsMade(c)' /\ IsMade(d)'
<1>1. Reference(c)' = Reference(c) /\ call'[c].method = call[c].method /\ IsMade(c)'
  BY ReferenceIsKept, MadeIsKept
<1>2. Reference(d)' = Reference(d) /\ call'[d].method = call[d].method /\ IsMade(d)'
  BY ReferenceIsKept, MadeIsKept
<1> QED
  BY <1>1, <1>2 DEF Same

\* Every step keeps the invariant.
LEMMA NextInv == IInv /\ [Next]_vars => IInv'
<1> SUFFICES ASSUME IInv, [Next]_vars PROVE IInv'
  OBVIOUS
<1>0. now \in Clock /\ call \in [Call -> {Idle} \cup Made] /\ inserted \subseteq Call
      /\ paid \subseteq Call \X Call
  BY DEF IInv, TypeOK
<1>1. TypeOK'
  <2>1. ASSUME NEW c \in Call, Ask(c) PROVE TypeOK'
    <3>1. PICK method \in Method, booking \in Booking :
             \E draw \in Draw(method) :
                call' = [call EXCEPT ![c] = [pc |-> "asked", method |-> method,
                                             booking |-> booking, time |-> now, draw |-> draw]]
      BY <2>1 DEF Ask
    <3>2. Draw(method) \subseteq FourDigitDraw
      BY ReferenceAssumption DEF Draw, Method, FourDigitDraw
    <3>3. \A draw \in Draw(method) :
             [pc |-> "asked", method |-> method, booking |-> booking, time |-> now,
              draw |-> draw] \in Made
      BY <1>0, <3>2 DEF Made
    <3> QED
      BY <1>0, <2>1, <3>1, <3>3 DEF Ask, TypeOK
  <2>2. ASSUME NEW c \in Call, Refuse(c) PROVE TypeOK'
    <3>1. call[c] \in Made
      BY <1>0, <2>2 DEF Refuse, Idle
    <3>2. [call[c] EXCEPT !.pc = "refused"] \in Made
      BY <3>1, OnlyPcChanges
    <3>3. call' = [call EXCEPT ![c] = [call[c] EXCEPT !.pc = "refused"]]
      BY <2>2 DEF Refuse
    <3> QED
      BY <1>0, <2>2, <3>2, <3>3 DEF Refuse, TypeOK
  <2>3. ASSUME NEW c \in Call, Insert(c) PROVE TypeOK'
    <3>1. call[c] \in Made
      BY <1>0, <2>3 DEF Insert, Idle
    <3>2. call' \in [Call -> {Idle} \cup Made]
      <4>1. PICK pc \in {"failed", "inserted"} : call' = [call EXCEPT ![c].pc = pc]
        BY <2>3 DEF Insert
      <4>2. [call[c] EXCEPT !.pc = pc] \in Made
        BY <3>1, OnlyPcChanges
      <4>3. call' = [call EXCEPT ![c] = [call[c] EXCEPT !.pc = pc]]
        BY <4>1
      <4> QED
        BY <1>0, <4>2, <4>3
    <3>3. inserted' \subseteq Call
      BY <1>0, <2>3 DEF Insert
    <3> QED
      BY <1>0, <2>3, <3>2, <3>3 DEF Insert, TypeOK
  <2>4. ASSUME NEW c \in Call, Callback(c) PROVE TypeOK'
    BY <1>0, <2>4 DEF Callback, TypeOK
  <2>5. CASE Tick \/ UNCHANGED vars
    BY <1>0, <2>5 DEF Tick, vars, TypeOK
  <2> QED
    BY <2>1, <2>2, <2>3, <2>4, <2>5 DEF Next
<1>2. DrawInv'
  <2> SUFFICES ASSUME NEW c \in Call, IsMade(c)' PROVE (call[c].draw \in Draw(call[c].method))'
    BY DEF DrawInv
  <2>1. CASE IsMade(c)
    BY <2>1, MadeIsKept DEF IInv, DrawInv, Draw
  <2>2. CASE ~IsMade(c)
    <3>1. call[c] = Idle /\ call'[c] # Idle
      BY <2>2 DEF IsMade
    <3>2. Ask(c)
      <4>1. ASSUME NEW b \in Call, Ask(b) PROVE b = c
        BY <1>0, <3>1, <4>1 DEF Ask
      <4>2. ASSUME NEW b \in Call, Refuse(b) \/ Insert(b) PROVE FALSE
        <5>1. b # c
          BY <3>1, <4>2 DEF Refuse, Insert, Idle
        <5> QED
          BY <1>0, <3>1, <4>2, <5>1 DEF Refuse, Insert
      <4> QED
        BY <3>1, <4>1, <4>2 DEF Next, Callback, Tick, vars
    <3>3. PICK method \in Method, booking \in Booking :
             \E draw \in Draw(method) :
                call' = [call EXCEPT ![c] = [pc |-> "asked", method |-> method,
                                             booking |-> booking, time |-> now, draw |-> draw]]
      BY <3>2 DEF Ask
    <3>4. PICK draw \in Draw(method) :
             call' = [call EXCEPT ![c] = [pc |-> "asked", method |-> method,
                                          booking |-> booking, time |-> now, draw |-> draw]]
      BY <3>3
    <3>5. call'[c].method = method /\ call'[c].draw = draw
      BY <1>0, <3>4
    <3> QED
      BY <3>5 DEF Draw
  <2> QED
    BY <2>1, <2>2
<1>3. InsertedInv'
  <2> SUFFICES ASSUME NEW d \in inserted' PROVE IsMade(d)'
    BY DEF InsertedInv
  <2>1. CASE d \in inserted
    BY <1>0, <2>1, MadeIsKept DEF IInv, InsertedInv
  <2>2. CASE d \notin inserted
    <3>1. Insert(d) /\ d \in Call
      BY <2>2 DEF Next, vars, Ask, Refuse, Insert, Callback, Tick
    <3>2. IsMade(d)
      BY <3>1 DEF Insert, IsMade, Idle
    <3> QED
      BY <3>1, <3>2, MadeIsKept
  <2> QED
    BY <2>1, <2>2
<1>4. PaidInv'
  <2> SUFFICES ASSUME NEW c \in Call, NEW d \in Call, <<c, d>> \in paid'
               PROVE  (d \in inserted /\ IsMade(c) /\ IsMade(d) /\ Same(c, d))'
    BY DEF PaidInv
  <2>1. d \in inserted /\ IsMade(c) /\ IsMade(d) /\ Same(c, d)
    <3>1. CASE <<c, d>> \in paid
      BY <3>1 DEF IInv, PaidInv
    <3>2. CASE <<c, d>> \notin paid
      <4>1. PICK b \in Call : Callback(b)
        BY <3>2 DEF Next, vars, Ask, Refuse, Insert, Tick
      <4>2. HasLink(c) /\ d \in inserted /\ Same(c, d)
        BY <3>2, <4>1 DEF Callback
      <4> QED
        BY <4>2 DEF IInv, InsertedInv, HasLink, IsMade, Idle
    <3> QED
      BY <3>1, <3>2
  <2>2. inserted \subseteq inserted'
    BY DEF Next, vars, Ask, Refuse, Insert, Callback, Tick
  <2> QED
    BY <2>1, <2>2, SameIsKept
<1> QED
  BY <1>1, <1>2, <1>3, <1>4 DEF IInv

\* The invariant of the references: rows, links and what callbacks settled agree
\* with how the references were made (createPayment, lines 50-154).
THEOREM ReferenceInvariant == Spec => []IInv
<1>1. Init => IInv
  BY InitInv
<1>2. IInv /\ [Next]_vars => IInv'
  BY NextInv
<1> QED
  BY <1>1, <1>2, PTL DEF Spec

-----------------------------------------------------------------------------
\* What the four kinds of references are.
LEMMA Kinds ==
    ASSUME NEW m \in Made
    PROVE  /\ m.method \in Method
           /\ m.method = "VIETQR" => ReferenceOf(m) = [number |-> VietqrCode(m.time, m.draw)]
           /\ m.method = "PAYOS" => ReferenceOf(m) = [number |-> PayosCode(m.time, m.draw)]
           /\ m.method = "VNPAY" =>
                 ReferenceOf(m) = [booking |-> m.booking, time |-> m.time, draw |-> m.draw]
           /\ m.method = "MOMO" => ReferenceOf(m) = [booking |-> m.booking, time |-> m.time]
<1>1. m.method \in Method
  BY DEF Made
<1> QED
  BY <1>1 DEF ReferenceOf

\* Numbers and texts, and texts of two and of three parts, are never the same.
LEMMA KindsDiffer ==
    ASSUME NEW n, NEW b, NEW t, NEW r, NEW e, NEW u
    PROVE  /\ [number |-> n] # [booking |-> b, time |-> t, draw |-> r]
           /\ [number |-> n] # [booking |-> b, time |-> t]
           /\ [booking |-> b, time |-> t, draw |-> r] # [booking |-> e, time |-> u]
<1>1. /\ DOMAIN [number |-> n] = {"number"}
      /\ DOMAIN [booking |-> b, time |-> t, draw |-> r] = {"booking", "time", "draw"}
      /\ DOMAIN [booking |-> e, time |-> u] = {"booking", "time"}
      /\ DOMAIN [booking |-> b, time |-> t] = {"booking", "time"}
  OBVIOUS
<1>2. {"number"} # {"booking", "time", "draw"} /\ {"number"} # {"booking", "time"}
      /\ {"booking", "time", "draw"} # {"booking", "time"}
  OBVIOUS
<1> QED
  BY <1>1, <1>2

\* What two calls with one reference share (numbers by their length, texts by their
\* parts).
LEMMA OneReference ==
    ASSUME NEW v \in Made, NEW w \in Made, ReferenceOf(v) = ReferenceOf(w),
           v.draw \in Draw(v.method), w.draw \in Draw(w.method)
    PROVE  /\ v.method = w.method
           /\ v.draw = w.draw
           /\ v.method = "VIETQR" => LastDigits(v.time) = LastDigits(w.time)
           /\ v.method # "VIETQR" => v.time = w.time
           /\ v.method \in {"VNPAY", "MOMO"} => v.booking = w.booking
<1>1. v.time \in Clock /\ w.time \in Clock /\ v.draw \in FourDigitDraw /\ w.draw \in FourDigitDraw
  BY DEF Made
<1>2. /\ v.method = "PAYOS" => v.draw \in 0..99
      /\ w.method = "PAYOS" => w.draw \in 0..99
      /\ v.method = "MOMO" => v.draw = 0
      /\ w.method = "MOMO" => w.draw = 0
  BY ReferenceAssumption DEF Draw
<1>3. CASE v.method = "VIETQR" /\ w.method = "VIETQR"
  <2>1. VietqrCode(v.time, v.draw) = VietqrCode(w.time, w.draw)
    <3>1. [number |-> VietqrCode(v.time, v.draw)] = [number |-> VietqrCode(w.time, w.draw)]
      BY <1>3, Kinds
    <3>2. \A m, n : [number |-> m] = [number |-> n] => m = n
      OBVIOUS
    <3> QED
      BY <3>1, <3>2
  <2> QED
    BY <1>1, <1>3, <2>1, VietqrCodeDetermines
<1>4. CASE v.method = "PAYOS" /\ w.method = "PAYOS"
  <2>1. PayosCode(v.time, v.draw) = PayosCode(w.time, w.draw)
    <3>1. [number |-> PayosCode(v.time, v.draw)] = [number |-> PayosCode(w.time, w.draw)]
      BY <1>4, Kinds
    <3>2. \A m, n : [number |-> m] = [number |-> n] => m = n
      OBVIOUS
    <3> QED
      BY <3>1, <3>2
  <2> QED
    BY <1>1, <1>2, <1>4, <2>1, PayosCodeDetermines
<1>5. CASE v.method = "VNPAY" /\ w.method = "VNPAY"
  <2>1. [booking |-> v.booking, time |-> v.time, draw |-> v.draw]
           = [booking |-> w.booking, time |-> w.time, draw |-> w.draw]
    BY <1>5, Kinds
  <2>2. v.booking = w.booking /\ v.time = w.time /\ v.draw = w.draw
    BY <2>1
  <2> QED
    BY <1>5, <2>2
<1>6. CASE v.method = "MOMO" /\ w.method = "MOMO"
  <2>1. [booking |-> v.booking, time |-> v.time] = [booking |-> w.booking, time |-> w.time]
    BY <1>6, Kinds
  <2>2. v.booking = w.booking /\ v.time = w.time
    BY <2>1
  <2> QED
    BY <1>2, <1>6, <2>2
<1>7. CASE v.method # w.method
  <2>1. ASSUME NEW x \in Made, NEW y \in Made, x.method = "VIETQR", y.method = "PAYOS",
               y.draw \in 0..99
        PROVE  ReferenceOf(x) # ReferenceOf(y)
    <3>1. x.time \in Clock /\ y.time \in Clock /\ x.draw \in FourDigitDraw
      BY DEF Made
    <3>2. VietqrCode(x.time, x.draw) # PayosCode(y.time, y.draw)
      BY <2>1, <3>1, CodesDiffer
    <3>3. \A m, n : [number |-> m] = [number |-> n] => m = n
      OBVIOUS
    <3> QED
      BY <2>1, <3>2, <3>3, Kinds
  <2>2. ASSUME NEW x \in Made, NEW y \in Made,
               x.method \in {"VIETQR", "PAYOS"}, y.method \in {"VNPAY", "MOMO"}
        PROVE  ReferenceOf(x) # ReferenceOf(y)
    BY <2>2, Kinds, KindsDiffer
  <2>3. ASSUME NEW x \in Made, NEW y \in Made, x.method = "VNPAY", y.method = "MOMO"
        PROVE  ReferenceOf(x) # ReferenceOf(y)
    BY <2>3, Kinds, KindsDiffer
  <2>4. v.method \in Method /\ w.method \in Method
    BY Kinds
  <2> QED
    BY <1>2, <1>7, <2>1, <2>2, <2>3, <2>4 DEF Method
<1>8. v.method \in Method /\ w.method \in Method
  BY Kinds
<1> QED
  BY <1>3, <1>4, <1>5, <1>6, <1>7, <1>8 DEF Method

\* Two calls with one reference are of one method and drew alike.
LEMMA SharedReference ==
    ASSUME IInv, NEW c \in Call, NEW d \in Call, IsMade(c), IsMade(d),
           Reference(c) = Reference(d)
    PROVE  call[c].method = call[d].method /\ Coincide(c, d)
<1>1. call[c] \in Made /\ call[d] \in Made
  BY DEF IInv, TypeOK, IsMade
<1>2. call[c].draw \in Draw(call[c].method) /\ call[d].draw \in Draw(call[d].method)
  BY DEF IInv, DrawInv
<1>3. ReferenceOf(call[c]) = ReferenceOf(call[d])
  BY DEF Reference
<1> QED
  BY <1>1, <1>2, <1>3, OneReference DEF Coincide

\* findPaymentByReference may do without the method (line 492).
THEOREM ReferencesTellMethods == Spec => []ReferenceTellsMethod
<1>1. IInv => ReferenceTellsMethod
  BY SharedReference DEF ReferenceTellsMethod
<1> QED
  BY <1>1, ReferenceInvariant, PTL

\* A callback settles another payment than its own only after a coincidence of the
\* clock and the draws (lines 67-118, vietqr.provider.ts:31).
THEOREM OnlyCoincidencesMislead == Spec => []SettledForAnotherIsACoincidence
<1>1. IInv => SettledForAnotherIsACoincidence
  BY SharedReference DEF SettledForAnotherIsACoincidence, IInv, PaidInv, Same
<1> QED
  BY <1>1, ReferenceInvariant, PTL
=============================================================================
