----------------------------- MODULE Signatures -----------------------------
(***************************************************************************)
(* How the service and the gateways sign what they send each other: both   *)
(* write the fields of a message as one text and compare its HMAC.  The    *)
(* message is an object whose keys come in some order, on both sides.  The *)
(* code has three ways to write the text: payos-utils.ts for VietQR and    *)
(* PayOS's webhook, vnpay.provider.ts and momo.provider.ts.                *)
(***************************************************************************)
EXTENDS Integers, FiniteSets, SequencesExt

CONSTANTS
    Keys,       \* keys are 1..Keys, in the alphabetical order of their names
    Unsigned,   \* a key VNPay and MoMo do not sign (vnp_SecureHashType, partnerName)
    Text        \* what a field says

Scheme == {"payos", "vnpay", "momo"}
Key == 1..Keys

\* "undefined" and "null" stand for the JavaScript values; where String() makes
\* them texts, they are the texts, as payos-utils.ts:31 has it too.
Value == Text \cup {"", "null", "undefined"}

ASSUME SignatureAssumption ==
    /\ Keys \in Nat /\ Unsigned \in 1..Keys - 1
    /\ Text \cap {"", "null", "undefined"} = {}

VARIABLES
    scheme,
    writer,     \* who signs: the service (a request) or the gateway (a callback)
    phase,
    written,    \* the writer's object: <<key, value>> in the order they were put
    arrived,    \* the object the reader parses
    signature,  \* the text whose HMAC was sent
    verdict     \* does the reader accept it?

vars == <<scheme, writer, phase, written, arrived, signature, verdict>>

Init ==
    /\ scheme \in Scheme
    /\ writer \in {"service", "gateway"}
    /\ phase = "writing"
    /\ written = << >> /\ arrived = << >> /\ signature = << >>
    /\ verdict = FALSE

-----------------------------------------------------------------------------
(* Objects *)

KeysOf(object) == {object[i][1] : i \in DOMAIN object}

\* A key that is not there reads as undefined.
Get(object, key) ==
    LET places == {i \in DOMAIN object : object[i][1] = key}
    IN  IF places = {} THEN "undefined" ELSE object[CHOOSE i \in places : TRUE][2]

SortedInOrderGiven(object, keys) ==
    SelectSeq([i \in DOMAIN object |-> object[i][1]], LAMBDA key : key \in keys)
Sorted(object, keys) ==
    CHOOSE order \in SetToSeqs(keys) : \A i, j \in DOMAIN order : i < j => order[i] < order[j]

\* Parts with an & between them.
And == <<"&">>
Joined(parts) ==
    FlattenSeq([i \in DOMAIN parts |-> IF i = 1 THEN <<parts[i]>> ELSE <<And, parts[i]>>])

-----------------------------------------------------------------------------
(* The texts of the service *)

\* sortObjDataByKey, convertObjToQueryStr: undefined is left out, null is empty.
PayosText(value) == IF value \in {"null", "undefined"} THEN "" ELSE value

GenerateSignature(object) ==
    LET keys == Sorted(object, {key \in KeysOf(object) : Get(object, key) # "undefined"})
    IN  Joined([i \in DOMAIN keys |-> <<keys[i], PayosText(Get(object, keys[i]))>>])

\* The loop of createVNPayPayment and of verifyVNPaySignature: empty values are
\* passed over, and every part but that of the last key has an & behind it.
HashKeysFromOne(object) ==
    {key \in KeysOf(object) \ {Unsigned} : \E other \in KeysOf(object) \ {Unsigned} : other < key}
HashKeys(object) == KeysOf(object) \ {Unsigned}

HashData(object) ==
    LET keys == Sorted(object, HashKeys(object))
        Part(i) == <<keys[i], Get(object, keys[i])>>
    IN  FlattenSeq([i \in DOMAIN keys |->
            IF Get(object, keys[i]) = "" THEN << >>
            ELSE IF i < Len(keys) THEN <<Part(i), And>> ELSE <<Part(i)>>])

\* The template of createMoMoPayment and of verifyMoMoSignature: always the same
\* keys in the same order.
RawSignature(object) ==
    LET keys == Sorted(object, Key \ {Unsigned})
    IN  Joined([i \in DOMAIN keys |-> <<keys[i], Get(object, keys[i])>>])

ServiceText(object) ==
    CASE scheme = "payos" -> GenerateSignature(object)
      [] scheme = "vnpay" -> HashData(object)
      [] scheme = "momo"  -> RawSignature(object)

-----------------------------------------------------------------------------
(* The texts of the gateways *)

\* What a message says: PayOS signs all fields, VNPay those that are not empty,
\* MoMo those of its list.
Content(object) ==
    CASE scheme = "payos" ->
            {<<key, IF Get(object, key) = "null" THEN "" ELSE Get(object, key)>> :
                key \in {k \in KeysOf(object) : Get(object, k) # "undefined"}}
      [] scheme = "vnpay" ->
            {<<key, Get(object, key)>> :
                key \in {k \in KeysOf(object) \ {Unsigned} : Get(object, k) # ""}}
      [] scheme = "momo" -> {<<key, Get(object, key)>> : key \in Key \ {Unsigned}}

InOrder(fields) ==
    CHOOSE order \in SetToSeqs(fields) :
        \A i, j \in DOMAIN order : i < j => order[i][1] < order[j][1]

\* Its fields in the order of their keys, joined by &.
GatewayText(object) ==
    Joined(InOrder(Content(object)))

TextOf(who, object) == IF who = "service" THEN ServiceText(object) ELSE GatewayText(object)

-----------------------------------------------------------------------------
(* A message *)

\* VNPay and MoMo have no undefined or null fields; the last key of VNPay,
\* vnp_Version of a request and vnp_TxnRef of a callback, is never empty.
MayPut(key, value) ==
    /\ scheme # "payos" => value \notin {"undefined", "null"}
    /\ scheme = "vnpay" /\ key = Keys => value # ""

Put(key, value) ==
    /\ phase = "writing"
    /\ key \notin KeysOf(written)
    /\ MayPut(key, value)
    /\ written' = Append(written, <<key, value>>)
    /\ UNCHANGED <<scheme, writer, phase, arrived, signature, verdict>>

\* VNPay's last key and all of MoMo's are always there.
Complete ==
    /\ scheme = "vnpay" => Keys \in KeysOf(written)
    /\ scheme = "momo" => Key \ {Unsigned} \subseteq KeysOf(written)

Sign ==
    /\ phase = "writing"
    /\ Complete
    /\ signature' = TextOf(writer, written)
    /\ phase' = "sent"
    /\ UNCHANGED <<scheme, writer, written, arrived, verdict>>

\* What JSON or a query string keeps: JSON has no undefined, and the query string
\* of createVNPayPayment no empty values.
Carried ==
    {field \in Range(written) :
        /\ field[2] # "undefined"
        /\ ~(scheme = "vnpay" /\ writer = "service" /\ field[2] = "")}

Without(field) == Carried \ {field}
Changed(field) ==
    {Without(field) \cup {<<field[1], value>>} :
        value \in {v \in Value : MayPut(field[1], v) /\ v # "undefined"}}

\* The reader's object has the fields in any order, and one of them may have been
\* changed or lost.
Arrive ==
    /\ phase = "sent"
    /\ \E fields \in {Carried} \cup UNION {{Without(field)} \cup Changed(field) : field \in Carried} :
          arrived' \in SetToSeqs(fields)
    /\ phase' = "arrived"
    /\ UNCHANGED <<scheme, writer, written, signature, verdict>>

\* The reader writes the text of what it parsed, and compares.
Verify ==
    /\ phase = "arrived"
    /\ verdict' = (signature = TextOf(IF writer = "service" THEN "gateway" ELSE "service", arrived))
    /\ phase' = "verified"
    /\ UNCHANGED <<scheme, writer, written, arrived, signature>>

Next ==
    \/ \E key \in Key, value \in Value : Put(key, value)
    \/ Sign
    \/ Arrive
    \/ Verify

Spec == Init /\ [][Next]_vars

-----------------------------------------------------------------------------
(* Properties *)

\* The two sides write one text for one content: a message that says what was
\* written is accepted, whatever the order of its keys, whichever of its fields are
\* empty, null or undefined, and with or without the unsigned one
\* (payos-utils.ts:3-42, vnpay.provider.ts:66-100, 118-158, momo.provider.ts:46-49).
HonestIsAccepted ==
    phase = "verified" /\ Content(arrived) = Content(written) => verdict

\* A message one of whose signed fields was changed or lost is refused, though the
\* text leaves out what is empty.
ChangedIsRefused ==
    phase = "verified" /\ Content(arrived) # Content(written) => ~verdict
=============================================================================
