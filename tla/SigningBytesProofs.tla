------------------------- MODULE SigningBytesProofs -------------------------
(***************************************************************************)
(* Proofs about SigningBytes, for texts and timestamps of any number and   *)
(* length and for any hash that is injective and has a fixed length.       *)
(***************************************************************************)
EXTENDS MCAttestLocal, SequenceTheorems, TLAPS

Symbols == Bytes \cup Literals \cup Nat
Strings == Seq(Symbols)

(* Concatenation under a name of its own: the provers take \o apart.        *)
Cat(a, b) == a \o b
Headed(x, s) == <<x>> \o s

(* Two pairs of parts with the same bytes are the same parts, if the first  *)
(* or the second part has a fixed length.                                   *)
LEMMA FrontFixed ==
  ASSUME NEW a \in Strings, NEW b \in Strings, NEW s \in Strings, NEW t \in Strings,
         Cat(a, s) = Cat(b, t), Len(a) = Len(b)
  PROVE  a = b /\ s = t
  <1>1. /\ Len(a) \in Nat /\ Len(b) \in Nat /\ Len(s) \in Nat /\ Len(t) \in Nat
        /\ Len(Cat(a, s)) = Len(a) + Len(s) /\ Len(Cat(b, t)) = Len(b) + Len(t)
        /\ \A k \in 1..(Len(a) + Len(s)) :
             Cat(a, s)[k] = IF k <= Len(a) THEN a[k] ELSE s[k - Len(a)]
        /\ \A k \in 1..(Len(b) + Len(t)) :
             Cat(b, t)[k] = IF k <= Len(b) THEN b[k] ELSE t[k - Len(b)]
    BY LenProperties, ConcatProperties DEF Strings, Cat
  <1>2. Len(s) = Len(t)
    BY <1>1
  <1>3. \A k \in 1..Len(a) : a[k] = b[k]
    BY <1>1, <1>2
  <1>4. ASSUME NEW k \in 1..Len(s) PROVE s[k] = t[k]
    <2>1. /\ k + Len(a) \in 1..(Len(a) + Len(s)) /\ ~(k + Len(a) <= Len(a))
          /\ (k + Len(a)) - Len(a) = k
      BY <1>1
    <2>2. Cat(a, s)[k + Len(a)] = s[k] /\ Cat(b, t)[k + Len(a)] = t[k]
      BY <1>1, <1>2, <2>1
    <2> QED
      BY <2>2
  <1> QED
    BY <1>2, <1>3, <1>4, SeqEqual DEF Strings

LEMMA BackFixed ==
  ASSUME NEW a \in Strings, NEW b \in Strings, NEW s \in Strings, NEW t \in Strings,
         Cat(a, s) = Cat(b, t), Len(s) = Len(t)
  PROVE  a = b /\ s = t
  <1>1. /\ Len(a) \in Nat /\ Len(b) \in Nat /\ Len(s) \in Nat
        /\ Len(Cat(a, s)) = Len(a) + Len(s) /\ Len(Cat(b, t)) = Len(b) + Len(t)
    BY LenProperties, ConcatProperties DEF Strings, Cat
  <1>2. Len(a) = Len(b)
    BY <1>1
  <1> QED
    BY <1>2, FrontFixed

LEMMA Concatenated ==
  ASSUME NEW a \in Strings, NEW b \in Strings
  PROVE  Cat(a, b) \in Strings /\ Len(Cat(a, b)) = Len(a) + Len(b) /\ Len(a) \in Nat
  BY ConcatProperties, LenProperties DEF Strings, Cat

(* Literals. *)
LEMMA Lone ==
  ASSUME NEW x \in Symbols
  PROVE  <<x>> \in Strings /\ Len(<<x>>) = 1
  BY DEF Strings

LEMMA Prefixed ==
  ASSUME NEW x \in Symbols, NEW s \in Strings
  PROVE  /\ Headed(x, s) \in Strings /\ Headed(x, s)[1] = x
         /\ Len(s) \in Nat /\ Len(Headed(x, s)) = Len(s) + 1
  <1>1. <<x>> \in Strings /\ Len(<<x>>) = 1 /\ <<x>>[1] = x /\ Len(s) \in Nat
    BY Lone, LenProperties DEF Strings
  <1>2. Headed(x, s) \in Strings /\ Len(Headed(x, s)) = Len(<<x>>) + Len(s)
    BY <1>1, Concatenated DEF Cat, Headed
  <1>3. 1 \in 1..(Len(<<x>>) + Len(s)) /\ 1 <= Len(<<x>>)
    BY <1>1
  <1>4. Headed(x, s)[1] = <<x>>[1]
    BY <1>1, <1>3, ConcatProperties DEF Strings, Headed
  <1> QED
    BY <1>1, <1>2, <1>4

LEMMA PrefixRemoved ==
  ASSUME NEW x \in Symbols, NEW s \in Strings, NEW t \in Strings,
         Headed(x, s) = Headed(x, t)
  PROVE  s = t
  BY Lone, FrontFixed DEF Cat, Headed

LEMMA LiteralsAreSymbols ==
  /\ SeparatorByte \in Symbols /\ "CraftSEC-Receipt-v1" \in Symbols
  /\ "CraftSEC-ExecAttest-v1" \in Symbols /\ "CraftSEC-PDK-v1" \in Symbols
  /\ "coefficient" \in Symbols /\ "CraftSEC-PDK-mock" \in Symbols
  /\ "CraftSEC-ProgramSig-mock" \in Symbols /\ "mock-secret" \in Symbols
  BY DEF Symbols, Literals

LEMMA JsonLiterals ==
  /\ {"recipient", "amount", "asset", "null"} \subseteq Literals
  /\ {"{", "recipient", "amount", "asset", "null"} \subseteq Symbols
  BY DEF Symbols, Literals

LEMMA TextsAreStrings ==
  /\ \A t \in Texts : t \in Strings /\ Digest[t] \in Strings
  /\ \A t \in Times : t \in Strings
  <1>1. \A s \in Seq(Bytes) : s \in Strings
    BY SeqMonotonic DEF Strings, Symbols
  <1> QED
    BY <1>1, EncodingConstants

(* A text ends where a literal is: two texts with the same literal after    *)
(* each, and anything behind, are the same if the whole is.                 *)
LEMMA Separated ==
  ASSUME NEW x \in Literals, NEW a \in Seq(Bytes), NEW b \in Seq(Bytes),
         NEW rest_a \in Strings, NEW rest_b \in Strings, Len(rest_a) \in Nat,
         Len(rest_a) >= 1, rest_a[1] = x, Cat(a, rest_a) = Cat(b, rest_b)
  PROVE  Len(a) >= Len(b)
  <1>1. a \in Strings /\ b \in Strings /\ Len(a) \in Nat /\ Len(b) \in Nat
          /\ Len(rest_b) \in Nat
    BY SeqMonotonic, LenProperties DEF Strings, Symbols
  <1>2. SUFFICES ASSUME Len(a) + 1 <= Len(b) PROVE FALSE
    BY <1>1
  <1> DEFINE k == Len(a) + 1
  <1>3. /\ k \in 1..(Len(a) + Len(rest_a)) /\ ~(k <= Len(a)) /\ k - Len(a) = 1
        /\ k \in 1..(Len(b) + Len(rest_b)) /\ k \in 1..Len(b) /\ k <= Len(b)
    BY <1>1, <1>2
  <1> HIDE DEF k
  <1>4. Cat(a, rest_a)[k] = x
    BY <1>1, <1>3, ConcatProperties DEF Strings, Cat
  <1>5. Cat(b, rest_b)[k] = b[k]
    BY <1>1, <1>3, ConcatProperties DEF Strings, Cat
  <1>6. b[k] \in Bytes
    BY <1>3, ElementOfSeq
  <1> QED
    BY <1>4, <1>5, <1>6, EncodingConstants

LEMMA TextRead ==
  ASSUME NEW x \in Literals, NEW a \in Seq(Bytes), NEW b \in Seq(Bytes),
         NEW s \in Strings, NEW t \in Strings, Cat(a, Headed(x, s)) = Cat(b, Headed(x, t))
  PROVE  a = b /\ s = t
  <1> DEFINE rest_a == Headed(x, s)
             rest_b == Headed(x, t)
  <1>1. x \in Symbols /\ a \in Strings /\ b \in Strings
    BY SeqMonotonic DEF Strings, Symbols
  <1>2. /\ rest_a \in Strings /\ rest_a[1] = x /\ Len(s) \in Nat /\ Len(rest_a) = Len(s) + 1
        /\ rest_b \in Strings /\ rest_b[1] = x /\ Len(t) \in Nat /\ Len(rest_b) = Len(t) + 1
    BY <1>1, Prefixed
  <1> HIDE DEF rest_a, rest_b
  <1>3. Len(a) >= Len(b) /\ Len(b) >= Len(a)
    <2>1. Cat(a, rest_a) = Cat(b, rest_b)
      BY DEF rest_a, rest_b
    <2>2. Len(rest_a) \in Nat /\ Len(rest_a) >= 1 /\ Len(rest_b) \in Nat /\ Len(rest_b) >= 1
      BY <1>2
    <2> QED
      BY <1>2, <2>1, <2>2, Separated
  <1>4. Len(a) = Len(b)
    BY <1>3, LenProperties
  <1>5. a = b /\ rest_a = rest_b
    BY <1>1, <1>2, <1>4, FrontFixed DEF rest_a, rest_b
  <1>6. s = t
    BY <1>1, <1>5, PrefixRemoved DEF rest_a, rest_b
  <1> QED
    BY <1>5, <1>6

----------------------------------------------------------------------------
(* An amount is written as the decimals of a finite number, or as null.     *)
LEMMA AmountsAreStrings ==
  ASSUME NEW a \in DOMAIN Decimal \cup NonFinite
  PROVE  /\ json_amount(a) \in Strings
         /\ a \notin NonFinite => a \in DOMAIN Decimal /\ json_amount(a) = Decimal[a]
                                    /\ json_amount(a) \in Seq(Bytes)
         /\ a \in NonFinite => json_amount(a) = <<"null">>
  <1>1. CASE a \in NonFinite
    BY <1>1, JsonLiterals, Lone DEF json_amount
  <1>2. CASE a \notin NonFinite
    <2>1. a \in DOMAIN Decimal /\ Decimal[a] \in Seq(Bytes)
      BY <1>2, EncodingConstants
    <2>2. Decimal[a] \in Strings
      BY <2>1, SeqMonotonic DEF Strings, Symbols
    <2> QED
      BY <1>2, <2>1, <2>2 DEF json_amount
  <1> QED
    BY <1>1, <1>2

LEMMA AmountRead ==
  ASSUME NEW a \in DOMAIN Decimal \cup NonFinite, NEW b \in DOMAIN Decimal \cup NonFinite,
         json_amount(a) = json_amount(b)
  PROVE  a = b \/ {a, b} \subseteq NonFinite
  <1>1. <<"null">> \notin Seq(Bytes)
    <2>1. "null" \notin Bytes
      BY JsonLiterals, EncodingConstants
    <2> QED
      BY <2>1
  <1>2. CASE a \in NonFinite
    BY <1>1, <1>2, AmountsAreStrings
  <1>3. CASE b \in NonFinite
    BY <1>1, <1>3, AmountsAreStrings
  <1>4. CASE a \notin NonFinite /\ b \notin NonFinite
    <2>1. /\ a \in DOMAIN Decimal /\ b \in DOMAIN Decimal
          /\ Decimal[a] = Decimal[b]
      BY <1>4, AmountsAreStrings
    <2> QED
      BY <2>1, EncodingConstants
  <1> QED
    BY <1>2, <1>3, <1>4

(* The parts of a transaction's JSON, from the last to the first.           *)
AmountOn(tx)    == Cat(json_amount(tx.amount), <<"asset">>)
RecipientOn(tx) == Cat(tx.recipient, Headed("amount", AmountOn(tx)))
SenderOn(tx)    == Cat(tx.sender, Headed("recipient", RecipientOn(tx)))

LEMMA TransactionParts ==
  ASSUME NEW tx \in TransactionFields
  PROVE  /\ tx.sender \in Seq(Bytes) /\ tx.recipient \in Seq(Bytes)
         /\ tx.amount \in DOMAIN Decimal \cup NonFinite
         /\ AmountOn(tx) \in Strings /\ RecipientOn(tx) \in Strings /\ SenderOn(tx) \in Strings
         /\ transaction_bytes(tx) = Headed("{", SenderOn(tx))
  <1>1. /\ tx.sender \in Texts /\ tx.recipient \in Texts
        /\ tx.amount \in DOMAIN Decimal \cup NonFinite
    BY DEF TransactionFields
  <1>2. /\ tx.sender \in Seq(Bytes) /\ tx.recipient \in Seq(Bytes)
        /\ tx.sender \in Strings /\ tx.recipient \in Strings
    BY <1>1, EncodingConstants, TextsAreStrings
  <1>3. "amount" \in Symbols /\ "recipient" \in Symbols /\ "asset" \in Symbols
    BY JsonLiterals
  <1>4. AmountOn(tx) \in Strings
    BY <1>1, <1>3, AmountsAreStrings, Lone, Concatenated DEF AmountOn
  <1>5. RecipientOn(tx) \in Strings
    BY <1>2, <1>3, <1>4, Prefixed, Concatenated DEF RecipientOn
  <1>6. SenderOn(tx) \in Strings
    BY <1>2, <1>3, <1>5, Prefixed, Concatenated DEF SenderOn
  <1>7. transaction_bytes(tx) = Headed("{", SenderOn(tx))
    BY DEF transaction_bytes, SenderOn, RecipientOn, AmountOn, Headed, Cat
  <1> QED
    BY <1>1, <1>2, <1>4, <1>5, <1>6, <1>7

LEMMA TransactionsAreDistinct == TransactionsDistinct
  <1> SUFFICES ASSUME NEW tx \in TransactionFields, NEW ty \in TransactionFields,
                      transaction_bytes(tx) = transaction_bytes(ty)
               PROVE  /\ tx.sender = ty.sender /\ tx.recipient = ty.recipient
                      /\ tx.amount = ty.amount \/ {tx.amount, ty.amount} \subseteq NonFinite
    BY DEF TransactionsDistinct
  <1>1. /\ "{" \in Symbols /\ "asset" \in Symbols
        /\ "recipient" \in Literals /\ "amount" \in Literals
    BY JsonLiterals
  <1>2. /\ tx.sender \in Seq(Bytes) /\ ty.sender \in Seq(Bytes)
        /\ tx.recipient \in Seq(Bytes) /\ ty.recipient \in Seq(Bytes)
        /\ SenderOn(tx) \in Strings /\ SenderOn(ty) \in Strings
        /\ RecipientOn(tx) \in Strings /\ RecipientOn(ty) \in Strings
        /\ AmountOn(tx) \in Strings /\ AmountOn(ty) \in Strings
        /\ json_amount(tx.amount) \in Strings /\ json_amount(ty.amount) \in Strings
        /\ Headed("{", SenderOn(tx)) = Headed("{", SenderOn(ty))
    BY TransactionParts, AmountsAreStrings
  <1>3. SenderOn(tx) = SenderOn(ty)
    BY <1>1, <1>2, PrefixRemoved
  <1>4. tx.sender = ty.sender /\ RecipientOn(tx) = RecipientOn(ty)
    <2>1. Cat(tx.sender, Headed("recipient", RecipientOn(tx)))
            = Cat(ty.sender, Headed("recipient", RecipientOn(ty)))
      BY <1>3 DEF SenderOn
    <2> DEFINE a == tx.sender
               b == ty.sender
               s == RecipientOn(tx)
               t == RecipientOn(ty)
               x == "recipient"
    <2>2. /\ x \in Literals /\ a \in Seq(Bytes) /\ b \in Seq(Bytes)
          /\ s \in Strings /\ t \in Strings /\ Cat(a, Headed(x, s)) = Cat(b, Headed(x, t))
      BY <1>1, <1>2, <2>1
    <2>3. a = b /\ s = t
      <3> HIDE DEF a, b, s, t, x
      <3> QED
        BY <2>2, TextRead
    <2> QED
      BY <2>3
  <1>5. tx.recipient = ty.recipient /\ AmountOn(tx) = AmountOn(ty)
    <2>1. Cat(tx.recipient, Headed("amount", AmountOn(tx)))
            = Cat(ty.recipient, Headed("amount", AmountOn(ty)))
      BY <1>4 DEF RecipientOn
    <2> DEFINE a == tx.recipient
               b == ty.recipient
               s == AmountOn(tx)
               t == AmountOn(ty)
               x == "amount"
    <2>2. /\ x \in Literals /\ a \in Seq(Bytes) /\ b \in Seq(Bytes)
          /\ s \in Strings /\ t \in Strings /\ Cat(a, Headed(x, s)) = Cat(b, Headed(x, t))
      BY <1>1, <1>2, <2>1
    <2>3. a = b /\ s = t
      <3> HIDE DEF a, b, s, t, x
      <3> QED
        BY <2>2, TextRead
    <2> QED
      BY <2>3
  <1>6. json_amount(tx.amount) = json_amount(ty.amount)
    <2>1. Cat(json_amount(tx.amount), <<"asset">>) = Cat(json_amount(ty.amount), <<"asset">>)
      BY <1>5 DEF AmountOn
    <2>2. <<"asset">> \in Strings
      BY <1>1, Lone
    <2> QED
      BY <1>2, <2>1, <2>2, BackFixed
  <1> QED
    BY <1>4, <1>5, <1>6, TransactionParts, AmountRead

----------------------------------------------------------------------------
(* Digests, in bytes or in hexadecimal, have one length and determine what  *)
(* was hashed.                                                              *)
LEMMA HexOfDigest ==
  ASSUME NEW s \in Texts, NEW t \in Texts
  PROVE  /\ Hex(Digest[s]) \in Strings /\ Len(Hex(Digest[s])) = Len(Hex(Digest[t]))
         /\ Len(Digest[s]) = Len(Digest[t])
         /\ Digest[s] = Digest[t] => s = t
         /\ Hex(Digest[s]) = Hex(Digest[t]) => s = t
  <1>1. Digest[s] \in Strings /\ Digest[t] \in Strings
    BY TextsAreStrings
  <1>2. Len(Digest[s]) = Len(Digest[t]) /\ (Digest[s] = Digest[t] => s = t)
    BY EncodingConstants
  <1>3. Hex(Digest[s]) = Cat(Digest[s], Digest[s]) /\ Hex(Digest[t]) = Cat(Digest[t], Digest[t])
    BY DEF Hex, Cat
  <1>4. /\ Hex(Digest[s]) \in Strings
        /\ Len(Hex(Digest[s])) = Len(Digest[s]) + Len(Digest[s])
        /\ Len(Hex(Digest[t])) = Len(Digest[t]) + Len(Digest[t])
    BY <1>1, <1>3, Concatenated
  <1>5. Hex(Digest[s]) = Hex(Digest[t]) => Digest[s] = Digest[t]
    BY <1>1, <1>2, <1>3, FrontFixed
  <1> QED
    BY <1>2, <1>4, <1>5

(* A header, a CID of any length, two parts of fixed length and a timestamp. *)
Envelope(x, cid, in, out, time) == Headed(x, Cat(cid, Cat(in, Cat(out, time))))

LEMMA EnvelopeOpened ==
  ASSUME NEW x \in Symbols, NEW cid_c \in Strings, NEW cid_d \in Strings,
         NEW in_c \in Strings, NEW in_d \in Strings, Len(in_c) = Len(in_d),
         NEW out_c \in Strings, NEW out_d \in Strings, Len(out_c) = Len(out_d),
         NEW time_c \in Strings, NEW time_d \in Strings, Len(time_c) = Len(time_d),
         Envelope(x, cid_c, in_c, out_c, time_c) = Envelope(x, cid_d, in_d, out_d, time_d)
  PROVE  cid_c = cid_d /\ in_c = in_d /\ out_c = out_d /\ time_c = time_d
  <1> DEFINE end_c  == Cat(out_c, time_c)
             end_d  == Cat(out_d, time_d)
             tail_c == Cat(in_c, end_c)
             tail_d == Cat(in_d, end_d)
  <1>1. end_c \in Strings /\ end_d \in Strings /\ Len(end_c) = Len(end_d)
    <2>1. /\ end_c \in Strings /\ Len(end_c) = Len(out_c) + Len(time_c)
          /\ end_d \in Strings /\ Len(end_d) = Len(out_d) + Len(time_d)
      BY Concatenated
    <2> HIDE DEF end_c, end_d
    <2> QED
      BY <2>1
  <1> HIDE DEF end_c, end_d
  <1>2. tail_c \in Strings /\ tail_d \in Strings /\ Len(tail_c) = Len(tail_d)
    <2>1. /\ tail_c \in Strings /\ Len(tail_c) = Len(in_c) + Len(end_c)
          /\ tail_d \in Strings /\ Len(tail_d) = Len(in_d) + Len(end_d)
      BY <1>1, Concatenated
    <2> HIDE DEF tail_c, tail_d
    <2> QED
      BY <1>1, <2>1
  <1>3. Cat(cid_c, tail_c) = Cat(cid_d, tail_d)
    <2>1. Cat(cid_c, tail_c) \in Strings /\ Cat(cid_d, tail_d) \in Strings
      BY <1>2, Concatenated
    <2>2. Headed(x, Cat(cid_c, tail_c)) = Headed(x, Cat(cid_d, tail_d))
      BY DEF Envelope, end_c, end_d
    <2> HIDE DEF tail_c, tail_d
    <2> QED
      BY <2>1, <2>2, PrefixRemoved
  <1> HIDE DEF tail_c, tail_d
  <1>4. cid_c = cid_d /\ tail_c = tail_d
    BY <1>2, <1>3, BackFixed
  <1>5. in_c = in_d /\ end_c = end_d
    BY <1>1, <1>4, FrontFixed DEF tail_c, tail_d
  <1>6. out_c = out_d /\ time_c = time_d
    BY <1>5, FrontFixed DEF end_c, end_d
  <1> QED
    BY <1>4, <1>5, <1>6

LEMMA ContentParts ==
  ASSUME NEW c \in Contents
  PROVE  /\ c.program_cid \in Texts /\ c.input \in Texts /\ c.output \in Texts
         /\ c.timestamp \in Times
         /\ c.program_cid \in Strings /\ c.timestamp \in Strings
         /\ \A d \in Contents :
              /\ Len(c.timestamp) = Len(d.timestamp)
              /\ c.program_cid = d.program_cid /\ c.input = d.input /\ c.output = d.output
                   /\ c.timestamp = d.timestamp => c = d
  <1>1. /\ c.program_cid \in Texts /\ c.input \in Texts /\ c.output \in Texts
        /\ c.timestamp \in Times
    BY DEF Contents
  <1>2. ASSUME NEW d \in Contents
        PROVE  /\ Len(c.timestamp) = Len(d.timestamp)
               /\ c.program_cid = d.program_cid /\ c.input = d.input /\ c.output = d.output
                    /\ c.timestamp = d.timestamp => c = d
    <2>1. d.timestamp \in Times
      BY DEF Contents
    <2>2. Len(c.timestamp) = Len(d.timestamp)
      BY <1>1, <2>1, EncodingConstants
    <2> QED
      BY <2>2 DEF Contents
  <1> QED
    BY <1>1, <1>2, TextsAreStrings

LEMMA ReceiptsAreDistinct == ReceiptsDistinct
  <1> SUFFICES ASSUME NEW c \in Contents, NEW d \in Contents,
                      receipt_bytes(c) = receipt_bytes(d)
               PROVE  c = d
    BY DEF ReceiptsDistinct
  <1>1. Envelope("CraftSEC-Receipt-v1", c.program_cid, Hex(Digest[c.input]),
                 Hex(Digest[c.output]), c.timestamp)
          = Envelope("CraftSEC-Receipt-v1", d.program_cid, Hex(Digest[d.input]),
                     Hex(Digest[d.output]), d.timestamp)
    BY DEF receipt_bytes, Envelope, Headed, Cat
  <1>2. /\ c.program_cid = d.program_cid
        /\ Hex(Digest[c.input]) = Hex(Digest[d.input])
        /\ Hex(Digest[c.output]) = Hex(Digest[d.output])
        /\ c.timestamp = d.timestamp
    <2>1. /\ Hex(Digest[c.input]) \in Strings /\ Hex(Digest[d.input]) \in Strings
          /\ Hex(Digest[c.output]) \in Strings /\ Hex(Digest[d.output]) \in Strings
          /\ Len(Hex(Digest[c.input])) = Len(Hex(Digest[d.input]))
          /\ Len(Hex(Digest[c.output])) = Len(Hex(Digest[d.output]))
      BY ContentParts, HexOfDigest
    <2>2. /\ c.program_cid \in Strings /\ d.program_cid \in Strings
          /\ c.timestamp \in Strings /\ d.timestamp \in Strings
          /\ Len(c.timestamp) = Len(d.timestamp) /\ "CraftSEC-Receipt-v1" \in Symbols
      BY ContentParts, LiteralsAreSymbols
    <2> DEFINE header == "CraftSEC-Receipt-v1"
               cid_c  == c.program_cid
               cid_d  == d.program_cid
               in_c   == Hex(Digest[c.input])
               in_d   == Hex(Digest[d.input])
               out_c  == Hex(Digest[c.output])
               out_d  == Hex(Digest[d.output])
               time_c == c.timestamp
               time_d == d.timestamp
    <2>3. /\ Envelope(header, cid_c, in_c, out_c, time_c) = Envelope(header, cid_d, in_d, out_d, time_d)
          /\ header \in Symbols /\ cid_c \in Strings /\ cid_d \in Strings
          /\ in_c \in Strings /\ in_d \in Strings /\ out_c \in Strings /\ out_d \in Strings
          /\ time_c \in Strings /\ time_d \in Strings
          /\ Len(in_c) = Len(in_d) /\ Len(out_c) = Len(out_d) /\ Len(time_c) = Len(time_d)
      BY <1>1, <2>1, <2>2
    <2>4. cid_c = cid_d /\ in_c = in_d /\ out_c = out_d /\ time_c = time_d
      <3> HIDE DEF header, cid_c, cid_d, in_c, in_d, out_c, out_d, time_c, time_d
      <3> QED
        BY <2>3, EnvelopeOpened
    <2> QED
      BY <2>4
  <1> QED
    BY <1>2, ContentParts, HexOfDigest

LEMMA ExecutionsAreDistinct == ExecutionsDistinct
  <1> SUFFICES ASSUME NEW c \in Contents, NEW d \in Contents,
                      execution_bytes(c) = execution_bytes(d)
               PROVE  c = d
    BY DEF ExecutionsDistinct
  <1>1. Envelope("CraftSEC-ExecAttest-v1", c.program_cid, Digest[c.input],
                 Digest[c.output], c.timestamp)
          = Envelope("CraftSEC-ExecAttest-v1", d.program_cid, Digest[d.input],
                     Digest[d.output], d.timestamp)
    BY DEF execution_bytes, Envelope, Headed, Cat
  <1>2. /\ c.program_cid = d.program_cid
        /\ Digest[c.input] = Digest[d.input]
        /\ Digest[c.output] = Digest[d.output]
        /\ c.timestamp = d.timestamp
    <2>1. /\ Digest[c.input] \in Strings /\ Digest[d.input] \in Strings
          /\ Digest[c.output] \in Strings /\ Digest[d.output] \in Strings
          /\ Len(Digest[c.input]) = Len(Digest[d.input])
          /\ Len(Digest[c.output]) = Len(Digest[d.output])
      BY ContentParts, TextsAreStrings, HexOfDigest
    <2>2. /\ c.program_cid \in Strings /\ d.program_cid \in Strings
          /\ c.timestamp \in Strings /\ d.timestamp \in Strings
          /\ Len(c.timestamp) = Len(d.timestamp) /\ "CraftSEC-ExecAttest-v1" \in Symbols
      BY ContentParts, LiteralsAreSymbols
    <2> DEFINE header == "CraftSEC-ExecAttest-v1"
               cid_c  == c.program_cid
               cid_d  == d.program_cid
               in_c   == Digest[c.input]
               in_d   == Digest[d.input]
               out_c  == Digest[c.output]
               out_d  == Digest[d.output]
               time_c == c.timestamp
               time_d == d.timestamp
    <2>3. /\ Envelope(header, cid_c, in_c, out_c, time_c) = Envelope(header, cid_d, in_d, out_d, time_d)
          /\ header \in Symbols /\ cid_c \in Strings /\ cid_d \in Strings
          /\ in_c \in Strings /\ in_d \in Strings /\ out_c \in Strings /\ out_d \in Strings
          /\ time_c \in Strings /\ time_d \in Strings
          /\ Len(in_c) = Len(in_d) /\ Len(out_c) = Len(out_d) /\ Len(time_c) = Len(time_d)
      BY <1>1, <2>1, <2>2
    <2>4. cid_c = cid_d /\ in_c = in_d /\ out_c = out_d /\ time_c = time_d
      <3> HIDE DEF header, cid_c, cid_d, in_c, in_d, out_c, out_d, time_c, time_d
      <3> QED
        BY <2>3, EnvelopeOpened
    <2> QED
      BY <2>4
  <1> QED
    BY <1>2, ContentParts, HexOfDigest

LEMMA Headers ==
  ASSUME NEW c \in Contents
  PROVE  /\ receipt_bytes(c) \in Strings /\ receipt_bytes(c)[1] = "CraftSEC-Receipt-v1"
         /\ execution_bytes(c) \in Strings /\ execution_bytes(c)[1] = "CraftSEC-ExecAttest-v1"
  <1>1. /\ Hex(Digest[c.input]) \in Strings /\ Hex(Digest[c.output]) \in Strings
        /\ Digest[c.input] \in Strings /\ Digest[c.output] \in Strings
    BY ContentParts, TextsAreStrings, HexOfDigest
  <1>2. Envelope("CraftSEC-Receipt-v1", c.program_cid, Hex(Digest[c.input]),
                 Hex(Digest[c.output]), c.timestamp) = receipt_bytes(c)
    BY DEF Envelope, receipt_bytes, Headed, Cat
  <1>3. Envelope("CraftSEC-ExecAttest-v1", c.program_cid, Digest[c.input],
                 Digest[c.output], c.timestamp) = execution_bytes(c)
    BY DEF Envelope, execution_bytes, Headed, Cat
  <1>4. ASSUME NEW x \in Symbols, NEW in \in Strings, NEW out \in Strings
        PROVE  LET e == Envelope(x, c.program_cid, in, out, c.timestamp)
               IN  e \in Strings /\ e[1] = x
    <2>1. Cat(c.program_cid, Cat(in, Cat(out, c.timestamp))) \in Strings
      BY ContentParts, Concatenated
    <2> QED
      BY <2>1, Prefixed DEF Envelope
  <1> QED
    BY <1>1, <1>2, <1>3, <1>4, LiteralsAreSymbols

LEMMA KindsAreDistinct == KindsDistinct
  <1> DEFINE receipts     == {receipt_bytes(c) : c \in Contents}
             executions   == {execution_bytes(c) : c \in Contents}
             transactions == {transaction_bytes(tx) : tx \in TransactionFields}
  <1>1. \A s \in receipts : s[1] = "CraftSEC-Receipt-v1"
    BY Headers
  <1>2. \A s \in executions : s[1] = "CraftSEC-ExecAttest-v1"
    BY Headers
  <1>3. ASSUME NEW tx \in TransactionFields PROVE transaction_bytes(tx)[1] = "{"
    <2>1. SenderOn(tx) \in Strings /\ "{" \in Symbols
      BY TransactionParts, JsonLiterals
    <2> QED
      BY <2>1, TransactionParts, Prefixed
  <1>4. \A s \in transactions : s[1] = "{"
    BY <1>3
  <1> HIDE DEF receipts, executions, transactions
  <1>5. receipts \cap executions = {} /\ transactions \cap (receipts \cup executions) = {}
    BY <1>1, <1>2, <1>4
  <1> QED
    BY <1>5 DEF KindsDistinct, receipts, executions, transactions

(* A signature over a receipt, an execution attestation or a transaction    *)
(* (signing_bytes in receipt.rs, attestation.rs, types.rs) is one over no   *)
(* other, but for two transactions that differ in amounts that are not      *)
(* finite only.                                                             *)
THEOREM StatementsAlwaysApart == Spec => StatementsKeptApart
  <1>1. [Next]_vars => [StatementsDistinct]_vars
    BY TransactionsAreDistinct, ReceiptsAreDistinct, ExecutionsAreDistinct, KindsAreDistinct
       DEF StatementsDistinct
  <1> QED
    BY <1>1, PTL DEF Spec, StatementsKeptApart

----------------------------------------------------------------------------
LEMMA CoefficientsAreDistinct == DerivedKeysDistinct
  <1> SUFFICES ASSUME NEW cid_c \in Texts, NEW cid_d \in Texts, NEW seed_c \in Texts,
                      NEW seed_d \in Texts, NEW k \in 0..MaxIndex, NEW l \in 0..MaxIndex,
                      coefficient_bytes(cid_c, seed_c, k) = coefficient_bytes(cid_d, seed_d, l)
               PROVE  cid_c = cid_d /\ seed_c = seed_d /\ k = l
    BY DEF DerivedKeysDistinct
  <1> DEFINE end_c  == <<"coefficient", k>>
             end_d  == <<"coefficient", l>>
             tail_c == Cat(seed_c, end_c)
             tail_d == Cat(seed_d, end_d)
             rest_c == Headed(SeparatorByte, tail_c)
             rest_d == Headed(SeparatorByte, tail_d)
  <1>1. "coefficient" \in Symbols /\ SeparatorByte \in Symbols /\ "CraftSEC-PDK-v1" \in Symbols
    BY LiteralsAreSymbols
  <1>2. k \in Symbols /\ l \in Symbols
    <2>1. k \in Nat /\ l \in Nat
      BY EncodingConstants
    <2> QED
      BY <2>1 DEF Symbols
  <1>3. end_c \in Strings /\ end_d \in Strings /\ Len(end_c) = Len(end_d)
    BY <1>1, <1>2 DEF Strings
  <1>4. /\ cid_c \in Strings /\ cid_d \in Strings /\ seed_c \in Strings /\ seed_d \in Strings
        /\ cid_c \in Seq(Bytes) /\ cid_d \in Seq(Bytes)
    BY TextsAreStrings, EncodingConstants
  <1>5. Headed("CraftSEC-PDK-v1", Cat(cid_c, rest_c)) =
          Headed("CraftSEC-PDK-v1", Cat(cid_d, rest_d))
    BY DEF coefficient_bytes, Headed, Cat
  <1> HIDE DEF end_c, end_d
  <1>6. tail_c \in Strings /\ tail_d \in Strings
    BY <1>3, <1>4, Concatenated
  <1> HIDE DEF tail_c, tail_d
  <1>7. Cat(cid_c, rest_c) = Cat(cid_d, rest_d)
    <2>1. rest_c \in Strings /\ rest_d \in Strings
      BY <1>1, <1>6, Prefixed
    <2>2. Cat(cid_c, rest_c) \in Strings /\ Cat(cid_d, rest_d) \in Strings
      BY <1>4, <2>1, Concatenated
    <2> HIDE DEF rest_c, rest_d
    <2> QED
      BY <1>1, <1>5, <2>2, PrefixRemoved
  <1>8. cid_c = cid_d /\ tail_c = tail_d
    <2>1. SeparatorByte \in Literals
      BY DEF Literals
    <2> QED
      BY <1>4, <1>6, <1>7, <2>1, TextRead
  <1>9. seed_c = seed_d /\ end_c = end_d
    BY <1>3, <1>4, <1>8, BackFixed DEF tail_c, tail_d
  <1>10. k = l
    BY <1>9 DEF end_c, end_d
  <1> QED
    BY <1>8, <1>9, <1>10

(* Every program and seed has its own coefficients (derive_scalar).         *)
THEOREM DerivedKeysAlwaysApart == Spec => DerivedKeysKeptApart
  <1>1. [Next]_vars => [DerivedKeysDistinct]_vars
    BY CoefficientsAreDistinct
  <1> QED
    BY <1>1, PTL DEF Spec, DerivedKeysKeptApart

----------------------------------------------------------------------------
(* The provider's hashes, as concatenations. *)
LEMMA Provided ==
  ASSUME NEW cid, NEW text
  PROVE  /\ derive_program_key(cid) = Headed("CraftSEC-PDK-mock", cid)
         /\ sign_as_program(cid, text) = Headed("CraftSEC-ProgramSig-mock", Cat(cid, text))
  BY DEF derive_program_key, sign_as_program, Headed, Cat

(* Of two texts that begin the same string, one begins with the other.      *)
LEMMA SameStart ==
  ASSUME NEW p \in Strings, NEW q \in Strings, NEW s \in Strings, NEW t \in Strings,
         Cat(p, s) = Cat(q, t), Len(p) <= Len(q)
  PROVE  Begins(p, q)
  <1>1. /\ Len(p) \in Nat /\ Len(q) \in Nat /\ Len(s) \in Nat /\ Len(t) \in Nat
        /\ \A k \in 1..(Len(p) + Len(s)) : Cat(p, s)[k] = IF k <= Len(p) THEN p[k] ELSE s[k - Len(p)]
        /\ \A k \in 1..(Len(q) + Len(t)) : Cat(q, t)[k] = IF k <= Len(q) THEN q[k] ELSE t[k - Len(q)]
    BY LenProperties, ConcatProperties DEF Strings, Cat
  <1>2. ASSUME NEW k \in 1..Len(p) PROVE p[k] = q[k]
    <2>1. /\ k \in 1..(Len(p) + Len(s)) /\ k <= Len(p)
          /\ k \in 1..(Len(q) + Len(t)) /\ k <= Len(q)
      BY <1>1
    <2>2. Cat(p, s)[k] = p[k] /\ Cat(q, t)[k] = q[k]
      BY <1>1, <2>1
    <2> QED
      BY <2>2
  <1> QED
    BY <1>2 DEF Begins

LEMMA ProgramSignaturesAreDistinct == ProgramSignaturesDistinct
  <1> SUFFICES ASSUME NEW p \in Texts, NEW q \in Texts, NEW s \in Texts, NEW t \in Texts,
                      sign_as_program(p, s) = sign_as_program(q, t)
               PROVE  \/ p = q /\ s = t
                      \/ p # q /\ (Begins(p, q) \/ Begins(q, p))
    BY DEF ProgramSignaturesDistinct
  <1>1. /\ p \in Strings /\ q \in Strings /\ s \in Strings /\ t \in Strings
        /\ Len(p) \in Nat /\ Len(q) \in Nat
    BY TextsAreStrings, LenProperties DEF Strings
  <1>2. Cat(p, s) = Cat(q, t)
    <2>1. Cat(p, s) \in Strings /\ Cat(q, t) \in Strings
      BY <1>1, Concatenated
    <2> QED
      BY <2>1, LiteralsAreSymbols, PrefixRemoved, Provided
  <1>3. p = q => s = t
    BY <1>1, <1>2, FrontFixed
  <1>4. Begins(p, q) \/ Begins(q, p)
    <2>1. Len(p) <= Len(q) \/ Len(q) <= Len(p)
      BY <1>1
    <2> QED
      BY <1>1, <1>2, <2>1, SameStart
  <1> QED
    BY <1>3, <1>4

LEMMA ProgramKeysAreDistinct == ProgramKeysDistinct
  <1> SUFFICES ASSUME NEW p \in Texts, NEW q \in Texts, NEW t \in Texts
               PROVE  /\ derive_program_key(p) = derive_program_key(q) => p = q
                      /\ derive_program_key(p) # sign_as_program(q, t)
    BY DEF ProgramKeysDistinct
  <1>1. /\ p \in Strings /\ q \in Strings /\ t \in Strings /\ Cat(q, t) \in Strings
        /\ "CraftSEC-PDK-mock" \in Symbols /\ "CraftSEC-ProgramSig-mock" \in Symbols
    BY TextsAreStrings, Concatenated, LiteralsAreSymbols
  <1>2. derive_program_key(p) = derive_program_key(q) => p = q
    BY <1>1, Provided, PrefixRemoved
  <1>3. derive_program_key(p)[1] = "CraftSEC-PDK-mock"
    BY <1>1, Provided, Prefixed
  <1>4. sign_as_program(q, t)[1] = "CraftSEC-ProgramSig-mock"
    BY <1>1, Provided, Prefixed
  <1> QED
    BY <1>2, <1>3, <1>4

LEMMA AttestationsAreDistinct == AttestationsDistinct
  <1> SUFFICES ASSUME NEW c \in Contents, NEW d \in Contents,
                      attest_execution(c) = attest_execution(d)
               PROVE  c = d
    BY DEF AttestationsDistinct
  <1>1. execution_bytes(c) \in Strings /\ execution_bytes(d) \in Strings
    BY Headers
  <1>2. <<"mock-secret">> \in Strings
    BY LiteralsAreSymbols, Lone
  <1>3. Cat(execution_bytes(c), <<"mock-secret">>) = Cat(execution_bytes(d), <<"mock-secret">>)
    BY DEF attest_execution, Cat
  <1>4. execution_bytes(c) = execution_bytes(d)
    BY <1>1, <1>2, <1>3, BackFixed
  <1> QED
    BY <1>4, ExecutionsAreDistinct DEF ExecutionsDistinct

(* The mock provider's keys belong to one program and its attestations to   *)
(* one execution; its signatures belong to one program and message unless   *)
(* one CID begins with another.                                             *)
THEOREM ProgramsAlwaysApart == Spec => ProgramsKeptApart
  <1>1. [Next]_vars => [ProviderDistinguishesPrograms]_vars
    BY ProgramSignaturesAreDistinct, ProgramKeysAreDistinct, AttestationsAreDistinct
       DEF ProviderDistinguishesPrograms
  <1> QED
    BY <1>1, PTL DEF Spec, ProgramsKeptApart
=============================================================================
