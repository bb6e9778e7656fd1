--------------------------- MODULE DecodersProofs ---------------------------
(***************************************************************************)
(* The decoders for inputs of every length, for all byte values, lengths   *)
(* of a time stamp and block sizes, where TLC goes through short inputs    *)
(* over a few bytes.                                                       *)
(***************************************************************************)
EXTENDS Decoders, SequenceTheorems, TLAPS

BytesOK == p \in Seq(Bytes)

\* The input is a sequence of bytes.
LEMMA Typed == Spec => []BytesOK
<1>1. Init => BytesOK
  BY DEF Init, BytesOK
<1>2. BytesOK /\ [Next]_p => BytesOK'
  BY DEF BytesOK, Next, Read
<1> QED BY <1>1, <1>2, PTL DEF Spec

\* Bytes are natural numbers.
LEMMA BytesAreNat == ASSUME NEW q \in Seq(Bytes) PROVE q \in Seq(Nat)
<1>1. Bytes \subseteq Nat
  BY DecodersAssumption
<1> QED BY <1>1, SeqMonotonic

\* The number of octets of an address is a number.
LEMMA HalfIsNumber == ASSUME NEW n \in Nat PROVE (n + 1) \div 2 \in Nat
BY SMT

\* decodeCDS only looks at bytes that are there, and they do not change when
\* another one arrives.
LEMMA VerdictOfLonger ==
  ASSUME NEW q \in Seq(Bytes), NEW b \in Bytes, decodeCDS(q) # "none"
  PROVE  decodeCDS(Append(q, b)) = decodeCDS(q)
<1>1. PICK r : r = Append(q, b)
  OBVIOUS
<1>2. /\ r \in Seq(Bytes) /\ Len(r) = Len(q) + 1
      /\ \A k \in 1 .. Len(q) : r[k] = q[k]
  BY <1>1
<1>3. q # <<>> /\ r # <<>> /\ Len(q) \in Nat /\ Len(q) >= 1
  BY <1>2 DEF decodeCDS
<1>4. q[1] \in Nat /\ r[1] = q[1]
  BY <1>2, <1>3, BytesAreNat
<1>5. ~(q[1] + 3 >= Len(q)) /\ ~(r[1] + 3 >= Len(r))
  <2>1. ~(q[1] + 3 >= Len(q))
    BY DEF decodeCDS
  <2> QED BY <1>2, <1>3, <1>4, <2>1
<1>6. PICK raLen : raLen = q[q[1] + 4]
  OBVIOUS
<1>7. raLen \in Nat /\ r[r[1] + 4] = raLen
  <2>1. q[1] + 4 \in 1 .. Len(q)
    BY <1>3, <1>4, <1>5
  <2> QED BY <1>2, <1>4, <1>6, <2>1, BytesAreNat
<1>8. PICK i : i = q[1] + 3 + 1 + 1 + (raLen + 1) \div 2 + 2 * StampLen
  OBVIOUS
<1>9. i \in Nat
  <2>1. PICK half : half = (raLen + 1) \div 2
    OBVIOUS
  <2>2. half \in Nat
    BY <1>7, <2>1, HalfIsNumber
  <2> QED BY <1>4, <1>8, <2>1, <2>2, DecodersAssumption
<1>10. decodeCDS(q) = IF i >= Len(q) THEN "none"
                      ELSE IF q[i + 1] = 0 THEN "DELIVERED"
                      ELSE IF q[i + 1] < 32 THEN "IN TRANSIT"
                      ELSE "NOT DELIVERED"
  BY <1>3, <1>5, <1>6, <1>8 DEF decodeCDS
<1>11. decodeCDS(r) = IF i >= Len(r) THEN "none"
                      ELSE IF r[i + 1] = 0 THEN "DELIVERED"
                      ELSE IF r[i + 1] < 32 THEN "IN TRANSIT"
                      ELSE "NOT DELIVERED"
  BY <1>3, <1>4, <1>5, <1>7, <1>8 DEF decodeCDS
<1>12. ~(i >= Len(q))
  BY <1>10
<1>13. r[i + 1] = q[i + 1] /\ ~(i >= Len(r))
  BY <1>2, <1>3, <1>9, <1>12
<1> QED BY <1>1, <1>10, <1>11, <1>12, <1>13

\* However a delivery report of any length is cut up by the reads of
\* /dev/rpm30, no verdict is given that the rest of the report changes.
THEOREM ReportsReadInParts == Spec => VerdictStays
<1>1. BytesOK /\ [Next]_p =>
        [decodeCDS(p) # "none" => decodeCDS(p') = decodeCDS(p)]_p
  BY VerdictOfLonger DEF BytesOK, Next, Read
<1> QED BY <1>1, Typed, PTL DEF Spec, VerdictStays

\* Where the fields behind the first octet are: s is the length of the SMSC
\* part, n that of the address, l that of the PDU.
LEMMA Offsets ==
  ASSUME NEW s \in Nat, NEW l \in Nat, ~(s + 3 >= l)
  PROVE  /\ s + 4 \in 1 .. l /\ s + 4 # s + 2
         /\ s + 3 \in 1 .. l /\ s + 3 # s + 2
         /\ \A n \in Nat :
              ~(s + 5 + n + 1 >= l) =>
                /\ s + 5 + n + 2 \in 1 .. l /\ s + 5 + n + 2 # s + 2
                /\ \A k \in s + 5 + 1 .. s + 5 + n :
                     k \in 1 .. l /\ k # s + 2
OBVIOUS

SameButFirstOctet(q, r) ==
  \A k \in 1 .. Len(q) : k # q[1] + 2 => r[k] = q[k]

\* The patched PDU has the same bytes everywhere but in the first octet of
\* the TPDU.
LEMMA OnlyFirstOctet ==
  ASSUME NEW q \in Seq(Nat), q # <<>>
  PROVE  /\ requestReport(q) \in Seq(Nat)
         /\ Len(requestReport(q)) = Len(q)
         /\ SameButFirstOctet(q, requestReport(q))
<1>1. Len(q) \in Nat /\ Len(q) >= 1 /\ q[1] \in Nat
  OBVIOUS
<1>2. CASE Len(q) > 1 /\ 1 + q[1] < Len(q)
  <2>1. PICK o : o = q[1] + 2
    OBVIOUS
  <2>2. o \in 2 .. Len(q) /\ q[o] \in Nat
    BY <1>1, <1>2, <2>1
  <2>3. PICK v : v = IF (q[o] \div 32) % 2 = 1 THEN q[o] ELSE q[o] + 32
    OBVIOUS
  <2>4. v \in Nat
    BY <2>2, <2>3
  <2>5. requestReport(q) = [q EXCEPT ![o] = v]
    BY <1>2, <2>1, <2>3 DEF requestReport
  <2>6. /\ [q EXCEPT ![o] = v] \in Seq(Nat)
        /\ Len([q EXCEPT ![o] = v]) = Len(q)
        /\ \A j \in 1 .. Len(q) :
             [q EXCEPT ![o] = v][j] = IF j = o THEN v ELSE q[j]
    BY <1>1, <2>2, <2>4, ExceptSeq
  <2> QED BY <2>1, <2>5, <2>6 DEF SameButFirstOctet
<1>3. CASE ~(Len(q) > 1 /\ 1 + q[1] < Len(q))
  <2>1. requestReport(q) = q
    BY <1>3 DEF requestReport
  <2> QED BY <2>1 DEF SameButFirstOctet
<1> QED BY <1>2, <1>3

\* decodeSubmitPDU does not look at the first octet of the TPDU.
LEMMA DecodesAlike ==
  ASSUME NEW q \in Seq(Nat), NEW r \in Seq(Nat), q # <<>>, Len(r) = Len(q),
         SameButFirstOctet(q, r)
  PROVE  decodeSubmitPDU(r) = decodeSubmitPDU(q)
<1>1. Len(q) \in Nat /\ Len(q) >= 1 /\ q[1] \in Nat
  OBVIOUS
<1>2. r # <<>> /\ r[1] = q[1]
  BY <1>1 DEF SameButFirstOctet
<1>3. CASE q[1] + 3 >= Len(q)
  BY <1>1, <1>2, <1>3 DEF decodeSubmitPDU
<1>4. CASE ~(q[1] + 3 >= Len(q))
  <2>1. PICK daLen : daLen = q[q[1] + 4]
    OBVIOUS
  <2>2. daLen \in Nat /\ r[r[1] + 4] = daLen
    <3>1. q[1] + 4 \in 1 .. Len(q) /\ q[1] + 4 # q[1] + 2
      BY <1>1, <1>4, Offsets
    <3>2. q[q[1] + 4] \in Nat /\ r[q[1] + 4] = q[q[1] + 4]
      BY <3>1, SMTT(30) DEF SameButFirstOctet
    <3> QED BY <1>2, <2>1, <3>2
  <2>3. PICK nb : nb = (daLen + 1) \div 2
    OBVIOUS
  <2>4. PICK i : i = q[1] + 5
    OBVIOUS
  <2>5. nb \in Nat /\ i \in Nat
    BY <1>1, <2>2, <2>3, <2>4, HalfIsNumber, SMTT(30)
  <2>6. decodeSubmitPDU(q) =
          IF i + nb + 1 >= Len(q) THEN Failed ELSE
          [ok |-> TRUE,
           phone |-> SubSeq(Swapped(SubSeq(q, i + 1, i + nb)), 1, daLen),
           dcs |-> q[i + nb + 2],
           atLength |-> Len(q) - 1 - q[1],
           mr |-> q[q[1] + 3]]
    BY <1>1, <1>4, <2>1, <2>3, <2>4 DEF decodeSubmitPDU
  <2>7. decodeSubmitPDU(r) =
          IF i + nb + 1 >= Len(q) THEN Failed ELSE
          [ok |-> TRUE,
           phone |-> SubSeq(Swapped(SubSeq(r, i + 1, i + nb)), 1, daLen),
           dcs |-> r[i + nb + 2],
           atLength |-> Len(q) - 1 - q[1],
           mr |-> r[q[1] + 3]]
    BY <1>1, <1>2, <1>4, <2>2, <2>3, <2>4 DEF decodeSubmitPDU
  <2>8. CASE i + nb + 1 >= Len(q)
    BY <2>6, <2>7, <2>8
  <2>9. CASE ~(i + nb + 1 >= Len(q))
    <3>1. SubSeq(r, i + 1, i + nb) = SubSeq(q, i + 1, i + nb)
      <4>1. \A k \in i + 1 .. i + nb : k \in 1 .. Len(q) /\ k # q[1] + 2
        BY <1>1, <1>4, <2>4, <2>5, <2>9, Offsets
      <4>2. \A k \in i + 1 .. i + nb :
              q[k] \in Nat /\ r[k] \in Nat /\ r[k] = q[k]
        BY <4>1 DEF SameButFirstOctet
      <4>3. /\ SubSeq(q, i + 1, i + nb) \in Seq(Nat)
            /\ Len(SubSeq(q, i + 1, i + nb))
                 = IF i + 1 <= i + nb THEN i + nb - (i + 1) + 1 ELSE 0
            /\ \A k \in 1 .. i + nb - (i + 1) + 1 :
                 SubSeq(q, i + 1, i + nb)[k] = q[i + 1 + k - 1]
        BY <2>5, <4>2, SubSeqProperties
      <4>4. /\ SubSeq(r, i + 1, i + nb) \in Seq(Nat)
            /\ Len(SubSeq(r, i + 1, i + nb))
                 = IF i + 1 <= i + nb THEN i + nb - (i + 1) + 1 ELSE 0
            /\ \A k \in 1 .. i + nb - (i + 1) + 1 :
                 SubSeq(r, i + 1, i + nb)[k] = r[i + 1 + k - 1]
        BY <2>5, <4>2, SubSeqProperties
      <4>5. \A k \in 1 .. Len(SubSeq(r, i + 1, i + nb)) :
              SubSeq(r, i + 1, i + nb)[k] = SubSeq(q, i + 1, i + nb)[k]
        BY <2>5, <4>2, <4>3, <4>4
      <4> QED BY <4>3, <4>4, <4>5, SeqEqual
    <3>2. r[i + nb + 2] = q[i + nb + 2]
      <4>1. i + nb + 2 \in 1 .. Len(q) /\ i + nb + 2 # q[1] + 2
        BY <1>1, <1>4, <2>4, <2>5, <2>9, Offsets
      <4> QED BY <4>1 DEF SameButFirstOctet
    <3>3. r[q[1] + 3] = q[q[1] + 3]
      <4>1. q[1] + 3 \in 1 .. Len(q) /\ q[1] + 3 # q[1] + 2
        BY <1>1, <1>4, Offsets
      <4> QED BY <4>1 DEF SameButFirstOctet
    <3>4. SubSeq(Swapped(SubSeq(r, i + 1, i + nb)), 1, daLen)
            = SubSeq(Swapped(SubSeq(q, i + 1, i + nb)), 1, daLen)
      BY <3>1
    <3>5. PICK ph, dc, mref :
            /\ ph = SubSeq(Swapped(SubSeq(q, i + 1, i + nb)), 1, daLen)
            /\ dc = q[i + nb + 2] /\ mref = q[q[1] + 3]
      OBVIOUS
    <3> DEFINE info == [ok |-> TRUE, phone |-> ph, dcs |-> dc,
                        atLength |-> Len(q) - 1 - q[1], mr |-> mref]
    <3>6. decodeSubmitPDU(q) = info
      BY <2>6, <2>9, <3>5, Zenon
    <3>7. decodeSubmitPDU(r) = info
      BY <2>7, <2>9, <3>2, <3>3, <3>4, <3>5, Zenon
    <3> QED BY <3>6, <3>7, Zenon
  <2> QED BY <2>8, <2>9
<1> QED BY <1>1, <1>3, <1>4

\* The recipient and the other fields are decoded from other octets.
LEMMA PatchedDecodesAlike ==
  ASSUME NEW q \in Seq(Bytes)
  PROVE  decodeSubmitPDU(requestReport(q)) = decodeSubmitPDU(q)
<1>1. CASE q = <<>>
  BY <1>1 DEF requestReport, decodeSubmitPDU
<1>2. CASE q # <<>>
  BY <1>2, BytesAreNat, OnlyFirstOctet, DecodesAlike
<1> QED BY <1>1, <1>2

\* Whatever the PDU, the one that is sent with a report requested has the
\* recipient that -allow-to was asked about.
THEOREM ReportKeepsRecipient == Spec => []ReportBitSparesTheRest
<1>1. BytesOK => ReportBitSparesTheRest
  BY PatchedDecodesAlike DEF BytesOK, ReportBitSparesTheRest
<1> QED BY <1>1, Typed, PTL

-----------------------------------------------------------------------------
(* The format against the index arithmetic.                                *)

\* The octets of an address of n digits.
Half(n) == (n + 1) \div 2

\* Where the address ends: the i + nb of decodeSubmitPDU.
AddressEnd(q) == q[1] + 5 + Half(q[q[1] + 4])

\* The conditions of Cuts, with numbers for what is read from the input.
IsCut(s, l, h, t, f) ==
  t \in 1 .. l /\ f \in 1 .. l /\ s = t - 1 /\ t + 4 <= f /\ f - (t + 4) = h

\* The bounds of the fields, as arithmetic.
LEMMA CutArithmetic ==
  ASSUME NEW s \in Nat, NEW l \in Nat, NEW h \in Nat, NEW t, NEW f
  PROVE  IsCut(s, l, h, t, f) <=> t = s + 1 /\ f = s + 5 + h /\ s + 5 + h <= l
BY DEF IsCut

\* There is at most one way to cut a PDU or a report, and the arithmetic of
\* both decoders finds it.
LEMMA OneCut ==
  ASSUME NEW q \in Seq(Nat), q # <<>>, ~(q[1] + 3 >= Len(q))
  PROVE  /\ AddressEnd(q) \in Nat
         /\ Cuts(q) = IF AddressEnd(q) <= Len(q)
                      THEN {<<q[1] + 1, AddressEnd(q)>>} ELSE {}
<1>1. PICK s, l : s = q[1] /\ l = Len(q)
  OBVIOUS
<1>2. s \in Nat /\ l \in Nat /\ s + 4 \in 1 .. l
  BY <1>1
<1>3. q[s + 4] \in Nat
  BY <1>1, <1>2
<1>4. PICK h : h = Half(q[s + 4])
  OBVIOUS
<1>5. h \in Nat
  BY <1>3, <1>4, HalfIsNumber DEF Half
<1>6. AddressEnd(q) = s + 5 + h /\ AddressEnd(q) \in Nat
  BY <1>1, <1>2, <1>4, <1>5 DEF AddressEnd
<1>7. \A c \in Cuts(q) : c = <<c[1], c[2]>>
  BY DEF Cuts
<1>8. \A t, f : <<t, f>> \in Cuts(q) <=>
        /\ t \in 1 .. l /\ f \in 1 .. l
        /\ s = t - 1 /\ t + 4 <= f /\ f - (t + 4) = Half(q[t + 3])
  BY <1>1 DEF Cuts, Half
<1>9. \A t : s = t - 1 /\ t \in 1 .. l => t + 3 = s + 4
  BY <1>2
<1>10. \A t, f : <<t, f>> \in Cuts(q) <=> IsCut(s, l, h, t, f)
  BY <1>4, <1>8, <1>9, Zenon DEF IsCut
<1>11. \A t, f : <<t, f>> \in Cuts(q) <=>
         t = s + 1 /\ f = s + 5 + h /\ s + 5 + h <= l
  BY <1>2, <1>5, <1>10, CutArithmetic
<1>12. CASE s + 5 + h <= l
  <2>1. <<s + 1, s + 5 + h>> \in Cuts(q)
    BY <1>11, <1>12, Zenon
  <2>2. \A c \in Cuts(q) : c = <<s + 1, s + 5 + h>>
    <3> TAKE c \in Cuts(q)
    <3>1. c = <<c[1], c[2]>>
      BY <1>7
    <3>2. <<c[1], c[2]>> \in Cuts(q)
      BY <3>1
    <3>3. c[1] = s + 1 /\ c[2] = s + 5 + h
      BY <1>11, <3>2, Zenon
    <3> QED
      BY <3>1, <3>3, Zenon
  <2>3. Cuts(q) = {<<s + 1, s + 5 + h>>}
    BY <2>1, <2>2, Zenon
  <2> QED
    BY <1>1, <1>6, <1>12, <2>3, Zenon
<1>13. CASE ~(s + 5 + h <= l)
  <2>1. Cuts(q) = {}
    <3> SUFFICES ASSUME NEW c \in Cuts(q) PROVE FALSE
      OBVIOUS
    <3>1. <<c[1], c[2]>> \in Cuts(q)
      BY <1>7
    <3> QED
      BY <1>11, <1>13, <3>1, Zenon
  <2> QED
    BY <1>1, <1>6, <1>13, <2>1, Zenon
<1> QED
  BY <1>12, <1>13, Zenon

\* Where the decoders give up, there is none.
LEMMA NoCut ==
  ASSUME NEW q \in Seq(Nat), q = <<>> \/ q[1] + 3 >= Len(q)
  PROVE  Cuts(q) = {}
<1> SUFFICES ASSUME NEW c \in Cuts(q) PROVE FALSE
  OBVIOUS
<1>1. /\ c[1] \in 1 .. Len(q) /\ c[2] \in 1 .. Len(q)
      /\ q[1] = c[1] - 1 /\ c[1] + 4 <= c[2]
  BY DEF Cuts
<1>2. q # <<>> /\ Len(q) \in Nat
  BY <1>1
<1> QED
  BY <1>1, <1>2

\* The verdict on a report in words of the format, for any bytes.
LEMMA VerdictOfCut ==
  ASSUME NEW q \in Seq(Bytes)
  PROVE  decodeCDS(q) =
           IF \E c \in Cuts(q) : c[2] + 2 * StampLen < Len(q)
           THEN LET c == CHOOSE c \in Cuts(q) : c[2] + 2 * StampLen < Len(q)
                    st == q[c[2] + 2 * StampLen + 1]
                IN  CASE st = 0 -> "DELIVERED"
                      [] st \in 1 .. 31 -> "IN TRANSIT"
                      [] st \in 32 .. 255 -> "NOT DELIVERED"
           ELSE "none"
<1>1. q \in Seq(Nat)
  BY BytesAreNat
<1>2. CASE q = <<>> \/ q[1] + 3 >= Len(q)
  BY <1>1, <1>2, NoCut, Zenon DEF decodeCDS
<1>3. CASE ~(q = <<>> \/ q[1] + 3 >= Len(q))
  <2>1. PICK e : e = AddressEnd(q)
    OBVIOUS
  <2>2. /\ e \in Nat
        /\ Cuts(q) = IF e <= Len(q) THEN {<<q[1] + 1, e>>} ELSE {}
    BY <1>1, <1>3, <2>1, OneCut
  <2>3. PICK i : i = e + 2 * StampLen
    OBVIOUS
  <2>4. i \in Nat /\ e <= i /\ Len(q) \in Nat
    BY <2>2, <2>3, DecodersAssumption
  <2>5. decodeCDS(q) = IF i >= Len(q) THEN "none"
                       ELSE IF q[i + 1] = 0 THEN "DELIVERED"
                       ELSE IF q[i + 1] < 32 THEN "IN TRANSIT"
                       ELSE "NOT DELIVERED"
    <3>1. q[1] \in Nat /\ q[q[1] + 4] \in Nat
      BY <1>1, <1>3, SMTT(30)
    <3>2. PICK half : half = Half(q[q[1] + 4])
      OBVIOUS
    <3>3. half \in Nat
      BY <3>1, <3>2, HalfIsNumber DEF Half
    <3>4. q[1] + 3 + 1 + 1 + half + 2 * StampLen = i
      BY <2>1, <2>3, <3>1, <3>2, <3>3, DecodersAssumption, SMTT(30) DEF AddressEnd
    <3> QED
      BY <1>3, <3>2, <3>4 DEF decodeCDS, Half
  <2>6. CASE i >= Len(q)
    <3>1. ~ \E c \in Cuts(q) : c[2] + 2 * StampLen < Len(q)
      BY <2>2, <2>3, <2>4, <2>6
    <3> QED
      BY <2>5, <2>6, <3>1, Zenon
  <2>7. CASE ~(i >= Len(q))
    <3>1. Cuts(q) = {<<q[1] + 1, e>>}
      BY <2>2, <2>4, <2>7
    <3>2. <<q[1] + 1, e>>[2] + 2 * StampLen < Len(q)
      BY <2>3, <2>4, <2>7
    <3>3. PICK c : c = CHOOSE d \in Cuts(q) : d[2] + 2 * StampLen < Len(q)
      OBVIOUS
    <3>4. c \in Cuts(q)
      BY <3>1, <3>2, <3>3
    <3>5. c[2] = e
      BY <3>1, <3>4
    <3>6. i + 1 \in 1 .. Len(q)
      BY <2>4, <2>7
    <3>7. PICK st : st = q[i + 1]
      OBVIOUS
    <3>8. st \in 0 .. 255
      <4>1. st \in Bytes
        BY <3>6, <3>7
      <4> QED
        BY <4>1, DecodersAssumption
    <3>9. decodeCDS(q) = CASE st = 0 -> "DELIVERED"
                           [] st \in 1 .. 31 -> "IN TRANSIT"
                           [] st \in 32 .. 255 -> "NOT DELIVERED"
      <4>1. decodeCDS(q) = IF st = 0 THEN "DELIVERED"
                           ELSE IF st < 32 THEN "IN TRANSIT"
                           ELSE "NOT DELIVERED"
        BY <2>5, <2>7, <3>7
      <4>2. CASE st = 0
        BY <4>1, <4>2
      <4>3. CASE st \in 1 .. 31
        <5>1. st # 0 /\ st < 32 /\ st \notin 32 .. 255
          BY <4>3
        <5>2. decodeCDS(q) = "IN TRANSIT"
          BY <4>1, <5>1, Zenon
        <5> QED
          BY <4>3, <5>1, <5>2, ZenonT(40)
      <4>4. CASE st \in 32 .. 255
        <5>1. st # 0 /\ ~(st < 32) /\ st \notin 1 .. 31
          BY <4>4
        <5>2. decodeCDS(q) = "NOT DELIVERED"
          BY <4>1, <5>1, Zenon
        <5> QED
          BY <4>4, <5>1, <5>2, Zenon
      <4>5. st = 0 \/ st \in 1 .. 31 \/ st \in 32 .. 255
        BY <3>8
      <4> QED
        BY <4>2, <4>3, <4>4, <4>5, Zenon
    <3>10. q[c[2] + 2 * StampLen + 1] = st
      BY <2>3, <3>5, <3>7
    <3>11. \E d \in Cuts(q) : d[2] + 2 * StampLen < Len(q)
      BY <3>1, <3>2
    <3> QED
      BY <3>3, <3>9, <3>10, <3>11
  <2> QED
    BY <2>6, <2>7, Zenon
<1> QED
  BY <1>2, <1>3, Zenon

\* For reports of every length decodeCDS reads the status octet of the format
\* and no other, and gives no verdict before that octet is there.
THEOREM VerdictsByFormat == Spec => []VerdictExact
<1>1. BytesOK => VerdictExact
  BY VerdictOfCut, Zenon DEF BytesOK, VerdictExact
<1> QED BY <1>1, Typed, PTL

-----------------------------------------------------------------------------
(* The recipient.                                                          *)

\* Digits and octets of an address of n digits.
LEMMA HalfFacts ==
  ASSUME NEW n \in Nat
  PROVE  /\ Half(n) \in Nat /\ n <= 2 * Half(n)
         /\ \A d \in 1 .. n :
              /\ Half(d) \in 1 .. Half(n)
              /\ d % 2 # 1 => d \div 2 = Half(d)
BY DEF Half

\* A part of the input.
LEMMA PartOf ==
  ASSUME NEW q \in Seq(Nat), NEW a \in Nat, NEW b \in Nat, a >= 1,
         a <= b + 1, b <= Len(q)
  PROVE  /\ SubSeq(q, a, b) \in Seq(Nat)
         /\ Len(SubSeq(q, a, b)) = b - a + 1
         /\ \A k \in 1 .. b - a + 1 : SubSeq(q, a, b)[k] = q[a + k - 1]
<1>1. \A k \in a .. b : q[k] \in Nat
  OBVIOUS
<1>2. /\ SubSeq(q, a, b) \in Seq(Nat)
      /\ Len(SubSeq(q, a, b)) = IF a <= b THEN b - a + 1 ELSE 0
      /\ \A k \in 1 .. b - a + 1 : SubSeq(q, a, b)[k] = q[a + k - 1]
  BY <1>1, SubSeqProperties
<1> QED
  BY <1>2

\* The digits of a part of the input are numbers, two to an octet.
LEMMA SwappedDigits ==
  ASSUME NEW q \in Seq(Nat)
  PROVE  /\ Swapped(q) \in Seq(Nat) /\ Len(Swapped(q)) = 2 * Len(q)
         /\ \A k \in 1 .. 2 * Len(q) :
              Swapped(q)[k] = IF k % 2 = 1 THEN q[Half(k)] % 16
                              ELSE q[k \div 2] \div 16
<1>1. PICK l : l = Len(q)
  OBVIOUS
<1>2. l \in Nat /\ 2 * l \in Nat
  BY <1>1
<1> DEFINE digit(k) == IF k % 2 = 1 THEN q[Half(k)] % 16 ELSE q[k \div 2] \div 16
<1>3. Swapped(q) = [k \in 1 .. 2 * l |-> digit(k)]
  BY <1>1 DEF Swapped, Half
<1>4. \A k \in 1 .. 2 * l : digit(k) \in Nat
  <2> TAKE k \in 1 .. 2 * l
  <2>1. CASE k % 2 = 1
    <3>1. Half(k) \in 1 .. l
      BY <1>2, <2>1 DEF Half
    <3>2. q[Half(k)] \in Nat
      BY <1>1, <3>1
    <3>3. q[Half(k)] % 16 \in Nat
      BY <3>2
    <3> QED
      BY <2>1, <3>3
  <2>2. CASE k % 2 # 1
    <3>1. k \div 2 \in 1 .. l
      BY <1>2, <2>2
    <3>2. q[k \div 2] \in Nat
      BY <1>1, <3>1
    <3>3. q[k \div 2] \div 16 \in Nat
      BY <3>2
    <3> QED
      BY <2>2, <3>3
  <2> QED
    BY <2>1, <2>2
<1> HIDE DEF digit
<1>5. Swapped(q) \in [1 .. 2 * l -> Nat]
  BY <1>3, <1>4
<1>6. Swapped(q) \in Seq(Nat) /\ Len(Swapped(q)) = 2 * l
  BY <1>2, <1>5
<1>7. \A k \in 1 .. 2 * l : Swapped(q)[k] = digit(k)
  BY <1>3
<1> QED
  BY <1>1, <1>6, <1>7 DEF digit

\* What decodeSubmitPDU takes for the recipient, in the PDU behind the first s
\* octets of the SMSC part.
Recipient(q, s, n) == SubSeq(Swapped(SubSeq(q, s + 6, s + 5 + Half(n))), 1, n)

\* It is what the format calls the address.
LEMMA AddressOf ==
  ASSUME NEW q \in Seq(Nat), NEW s \in Nat, NEW n \in Nat,
         s + 5 + Half(n) <= Len(q), q[s + 4] = n
  PROVE  IsAddress(SubSeq(q, s + 4, s + 5 + Half(n)), Recipient(q, s, n))
<1>1. PICK nb : nb = Half(n)
  OBVIOUS
<1>2. /\ nb \in Nat /\ n <= 2 * nb /\ s + 5 + nb <= Len(q)
      /\ \A d \in 1 .. n : /\ Half(d) \in 1 .. nb
                           /\ d % 2 # 1 => d \div 2 = Half(d)
  BY <1>1, HalfFacts
<1>3. PICK adr : adr = SubSeq(q, s + 4, s + 5 + nb)
  OBVIOUS
<1>4. /\ adr \in Seq(Nat) /\ Len(adr) = nb + 2
      /\ \A k \in 1 .. nb + 2 : adr[k] = q[s + 3 + k]
  <2>1. s + 5 + nb - (s + 4) + 1 = nb + 2
    BY <1>2
  <2>2. /\ adr \in Seq(Nat) /\ Len(adr) = nb + 2
        /\ \A k \in 1 .. nb + 2 : adr[k] = q[s + 4 + k - 1]
    BY <1>2, <1>3, <2>1, PartOf, SMTT(30)
  <2>3. \A k \in 1 .. nb + 2 : s + 4 + k - 1 = s + 3 + k
    BY <1>2
  <2> QED
    BY <2>2, <2>3
<1>5. PICK octets : octets = SubSeq(q, s + 6, s + 5 + nb)
  OBVIOUS
<1>6. /\ octets \in Seq(Nat) /\ Len(octets) = nb
      /\ \A k \in 1 .. nb : octets[k] = q[s + 5 + k]
  <2>1. s + 5 + nb - (s + 6) + 1 = nb
    BY <1>2
  <2>2. /\ octets \in Seq(Nat) /\ Len(octets) = nb
        /\ \A k \in 1 .. nb : octets[k] = q[s + 6 + k - 1]
    BY <1>2, <1>5, <2>1, PartOf, SMTT(30)
  <2>3. \A k \in 1 .. nb : s + 6 + k - 1 = s + 5 + k
    BY <1>2
  <2> QED
    BY <2>2, <2>3
<1>7. PICK phone : phone = SubSeq(Swapped(octets), 1, n)
  OBVIOUS
<1>8. /\ phone \in Seq(Nat) /\ Len(phone) = n
      /\ \A d \in 1 .. n : phone[d] = IF d % 2 = 1 THEN octets[Half(d)] % 16
                                       ELSE octets[d \div 2] \div 16
  <2>1. /\ Swapped(octets) \in Seq(Nat) /\ Len(Swapped(octets)) = 2 * nb
        /\ \A k \in 1 .. 2 * nb :
             Swapped(octets)[k] = IF k % 2 = 1 THEN octets[Half(k)] % 16
                                  ELSE octets[k \div 2] \div 16
    BY <1>6, SwappedDigits
  <2>2. PICK w : w = Swapped(octets)
    OBVIOUS
  <2>3. /\ phone \in Seq(Nat) /\ Len(phone) = n - 1 + 1
        /\ \A d \in 1 .. n - 1 + 1 : phone[d] = w[1 + d - 1]
    <3>1. /\ w \in Seq(Nat) /\ 1 \in Nat /\ 1 >= 1
          /\ 1 <= n + 1 /\ n <= Len(w) /\ phone = SubSeq(w, 1, n)
      BY <1>2, <1>7, <2>1, <2>2
    <3>2. /\ SubSeq(w, 1, n) \in Seq(Nat)
          /\ Len(SubSeq(w, 1, n)) = n - 1 + 1
          /\ \A d \in 1 .. n - 1 + 1 : SubSeq(w, 1, n)[d] = w[1 + d - 1]
      BY <3>1, PartOf, Zenon
    <3> QED
      BY <3>1, <3>2, Zenon
  <2>4. n - 1 + 1 = n /\ \A d \in 1 .. n : 1 + d - 1 = d /\ d \in 1 .. 2 * nb
    BY <1>2
  <2>5. phone \in Seq(Nat) /\ Len(phone) = n /\ \A d \in 1 .. n : phone[d] = w[d]
    BY <2>3, <2>4
  <2> QED
    BY <2>1, <2>2, <2>4, <2>5
<1>9. ASSUME NEW d \in 1 .. n
      PROVE  phone[d] = IF d % 2 = 1 THEN adr[2 + Half(d)] % 16
                        ELSE adr[2 + Half(d)] \div 16
  <2>1. PICK h : h = Half(d)
    OBVIOUS
  <2>2. h \in 1 .. nb /\ (d % 2 # 1 => d \div 2 = h)
    BY <1>2, <2>1
  <2>3. 2 + h \in 1 .. nb + 2 /\ s + 3 + (2 + h) = s + 5 + h
    BY <1>2, <2>2
  <2>4. adr[2 + h] = octets[h]
    BY <1>4, <1>6, <2>2, <2>3
  <2> QED
    BY <1>8, <2>1, <2>2, <2>4
<1>10. Len(adr) >= 2 /\ Len(adr) - 2 = nb
  BY <1>2, <1>4
<1>11. adr[1] = n
  <2>1. 1 \in 1 .. nb + 2 /\ s + 3 + 1 = s + 4
    BY <1>2
  <2> QED
    BY <1>4, <2>1
<1>12. DOMAIN phone = 1 .. n
  BY <1>8
<1>13. \A d \in DOMAIN phone :
         phone[d] = IF d % 2 = 1 THEN adr[2 + Half(d)] % 16
                    ELSE adr[2 + Half(d)] \div 16
  BY <1>9, <1>12
<1>14. IsAddress(adr, phone)
  BY <1>1, <1>8, <1>10, <1>11, <1>13, Zenon DEF IsAddress, Half
<1> QED
  BY <1>1, <1>3, <1>5, <1>7, <1>14 DEF Recipient

\* decodeSubmitPDU in words of the format, for any bytes.
LEMMA SubmitOfCut ==
  ASSUME NEW q \in Seq(Nat)
  PROVE  LET info == decodeSubmitPDU(q)
             cuts == {c \in Cuts(q) : c[2] + 2 <= Len(q)}
         IN  /\ info.ok <=> cuts # {}
             /\ \A c \in cuts :
                  /\ info.mr = q[c[1] + 2]
                  /\ info.dcs = q[c[2] + 2]
                  /\ info.atLength = Len(SubSeq(q, c[1] + 1, Len(q)))
                  /\ IsAddress(SubSeq(q, c[1] + 3, c[2]), info.phone)
<1> DEFINE info == decodeSubmitPDU(q)
           cuts == {c \in Cuts(q) : c[2] + 2 <= Len(q)}
<1>1. CASE q = <<>> \/ q[1] + 3 >= Len(q)
  <2>1. info = Failed
    BY <1>1 DEF decodeSubmitPDU
  <2>2. ~info.ok /\ cuts = {}
    BY <1>1, <2>1, NoCut DEF Failed
  <2> QED
    BY <2>2
<1>2. CASE ~(q = <<>> \/ q[1] + 3 >= Len(q))
  <2>1. PICK s, l : s = q[1] /\ l = Len(q)
    OBVIOUS
  <2>2. s \in Nat /\ l \in Nat /\ s + 4 \in 1 .. l
    BY <1>2, <2>1
  <2>3. PICK n : n = q[s + 4]
    OBVIOUS
  <2>4. n \in Nat
    BY <2>1, <2>2, <2>3
  <2>5. PICK nb : nb = Half(n)
    OBVIOUS
  <2>6. nb \in Nat
    BY <2>4, <2>5, HalfFacts
  <2>7. Cuts(q) = IF s + 5 + nb <= l THEN {<<s + 1, s + 5 + nb>>} ELSE {}
    <3>1. AddressEnd(q) = s + 5 + nb
      BY <2>1, <2>3, <2>5 DEF AddressEnd
    <3> QED
      BY <1>2, <2>1, <3>1, OneCut
  <2>8. info = IF s + 5 + nb + 1 >= l THEN Failed ELSE
               [ok |-> TRUE,
                phone |-> SubSeq(Swapped(SubSeq(q, s + 5 + 1, s + 5 + nb)), 1, n),
                dcs |-> q[s + 5 + nb + 2],
                atLength |-> l - 1 - s,
                mr |-> q[s + 3]]
    BY <1>2, <2>1, <2>3, <2>5, Zenon DEF decodeSubmitPDU, Half
  <2>9. CASE s + 5 + nb + 1 >= l
    <3>1. ~info.ok
      BY <2>8, <2>9 DEF Failed
    <3>2. cuts = {}
      <4> SUFFICES ASSUME NEW c \in Cuts(q), c[2] + 2 <= l PROVE FALSE
        BY <2>1
      <4>1. c[2] = s + 5 + nb
        BY <2>7
      <4> QED
        BY <2>2, <2>6, <2>9, <4>1
    <3> QED
      BY <3>1, <3>2
  <2>10. CASE ~(s + 5 + nb + 1 >= l)
    <3>1. PICK e : e = s + 5 + nb
      OBVIOUS
    <3>2. e \in Nat /\ e + 2 <= l /\ e <= l
      BY <2>2, <2>6, <2>10, <3>1
    <3>3. cuts = {<<s + 1, e>>}
      <4>1. Cuts(q) = {<<s + 1, e>>}
        BY <2>7, <3>1, <3>2
      <4> QED
        BY <2>1, <3>2, <4>1
    <3>4. PICK ph, dc, mref, atl :
            /\ ph = Recipient(q, s, n) /\ dc = q[e + 2] /\ mref = q[s + 3]
            /\ atl = l - 1 - s
      OBVIOUS
    <3>5. info = [ok |-> TRUE, phone |-> ph, dcs |-> dc, atLength |-> atl,
                  mr |-> mref]
      <4>1. s + 5 + 1 = s + 6
        BY <2>2
      <4> QED
        BY <2>5, <2>8, <2>10, <3>1, <3>4, <4>1, Zenon DEF Recipient
    <3> HIDE DEF info, cuts
    <3>6. /\ info.ok /\ info.phone = ph /\ info.dcs = dc
          /\ info.atLength = atl /\ info.mr = mref
      BY <3>5
    <3>7. IsAddress(SubSeq(q, s + 4, e), ph)
      BY <2>1, <2>2, <2>3, <2>4, <2>5, <3>1, <3>2, <3>4, AddressOf
    <3>8. Len(SubSeq(q, s + 2, l)) = atl
      <4>1. Len(SubSeq(q, s + 2, l)) = l - (s + 2) + 1
        BY <2>1, <2>2, PartOf, SMTT(30)
      <4> QED
        BY <2>2, <3>4, <4>1
    <3>9. s + 1 + 2 = s + 3 /\ s + 1 + 1 = s + 2 /\ s + 1 + 3 = s + 4
      BY <2>2
    <3>10. \A c \in cuts :
             /\ info.mr = q[c[1] + 2]
             /\ info.dcs = q[c[2] + 2]
             /\ info.atLength = Len(SubSeq(q, c[1] + 1, Len(q)))
             /\ IsAddress(SubSeq(q, c[1] + 3, c[2]), info.phone)
      <4> TAKE c \in cuts
      <4>1. c[1] = s + 1 /\ c[2] = e
        BY <3>3
      <4> QED
        BY <2>1, <3>4, <3>6, <3>7, <3>8, <3>9, <4>1
    <3> QED
      BY <3>3, <3>6, <3>10 DEF info, cuts
  <2> QED
    BY <2>9, <2>10
<1> QED
  BY <1>1, <1>2

\* For PDUs of every length decodeSubmitPDU finds the recipient, the message
\* reference and the coding where the format has them, and fails on a PDU that
\* is cut off before TP-DCS and on no other.
THEOREM RecipientByFormat == Spec => []DecodesExactly
<1>1. BytesOK => DecodesExactly
  BY SubmitOfCut, BytesAreNat DEF BytesOK, DecodesExactly
<1> QED BY <1>1, Typed, PTL

-----------------------------------------------------------------------------
(* The padding.                                                            *)

\* Division with remainder.
LEMMA DivMod ==
  ASSUME NEW a \in Nat, NEW b \in Nat \ {0}
  PROVE  /\ a % b \in 0 .. b - 1
         /\ a \div b \in Nat
         /\ a = b * (a \div b) + (a % b)
OBVIOUS

\* There is only one remainder.
LEMMA ModUnique ==
  ASSUME NEW a \in Nat, NEW b \in Nat \ {0}, NEW k \in Nat, NEW r \in 0 .. b - 1,
         a = b * k + r
  PROVE  a % b = r
<1>1. PICK m \in Nat : a = b * m + (a % b)
  BY DivMod
<1>2. a % b \in 0 .. b - 1
  BY DivMod
<1>3. CASE m > k
  <2>1. PICK d \in Nat : m = k + 1 + d
    BY <1>3
  <2>2. b * m = b * k + b + b * d /\ b * d >= 0
    BY <2>1
  <2> QED
    BY <1>1, <1>2, <2>2
<1>4. CASE m < k
  <2>1. PICK d \in Nat : k = m + 1 + d
    BY <1>4
  <2>2. b * k = b * m + b + b * d /\ b * d >= 0
    BY <2>1
  <2> QED
    BY <1>1, <1>2, <2>2
<1>5. CASE m = k
  BY <1>1, <1>2, <1>5
<1> QED
  BY <1>3, <1>4, <1>5

\* In whole blocks, the padding of PKCS#7 is what is between one byte and a
\* block: l bytes in all, n of them plain.
LEMMA PaddingRange ==
  ASSUME NEW b \in Nat \ {0}, NEW l \in Nat, l % b = 0, NEW n \in 0 .. l
  PROVE  l - n = b - (n % b) <=> l >= b /\ l - n \in 1 .. b
<1>1. n % b \in 0 .. b - 1
  BY DivMod
<1>2. PICK k \in Nat : l = b * k
  <2>1. l \div b \in Nat /\ l = b * (l \div b) + (l % b)
    BY DivMod
  <2>2. b * (l \div b) \in Nat
    BY <2>1
  <2>3. l = b * (l \div b)
    BY <2>1, <2>2
  <2> QED
    BY <2>1, <2>3
<1>3. ASSUME l - n = b - (n % b)
      PROVE  l >= b /\ l - n \in 1 .. b
  <2>1. l - n \in 1 .. b
    BY <1>1, <1>3
  <2>2. k # 0
    BY <1>2, <2>1
  <2>3. PICK j \in Nat : k = 1 + j
    BY <2>2
  <2>4. l = b + b * j /\ b * j >= 0
    BY <1>2, <2>3
  <2> QED
    BY <2>1, <2>4
<1>4. ASSUME l >= b, l - n \in 1 .. b
      PROVE  l - n = b - (n % b)
  <2>1. k # 0
    BY <1>2, <1>4
  <2>2. PICK j \in Nat : k = 1 + j
    BY <2>1
  <2>3. l = b + b * j /\ b * j \in Nat
    BY <1>2, <2>2
  <2>4. PICK r : r = b - (l - n)
    OBVIOUS
  <2>5. r \in 0 .. b - 1 /\ n = b * j + r
    BY <1>4, <2>3, <2>4
  <2>6. n % b = r
    BY <2>5, ModUnique
  <2> QED
    BY <1>4, <2>4, <2>6
<1> QED
  BY <1>3, <1>4

\* The padding as wsDecrypt checks it, byte by byte, and as a whole.
LEMMA PaddedTail ==
  ASSUME NEW q \in Seq(Nat), NEW n \in 0 .. Len(q), NEW a, a = Len(q) - n
  PROVE  q = SubSeq(q, 1, n) \o [k \in 1 .. a |-> a]
           <=> \A k \in n + 1 .. Len(q) : q[k] = a
<1>1. PICK l : l = Len(q)
  OBVIOUS
<1>2. l \in Nat /\ n \in Nat /\ n <= l /\ a \in Nat /\ l = n + a
  BY <1>1
<1>3. PICK m : m = SubSeq(q, 1, n)
  OBVIOUS
<1>4. /\ m \in Seq(Nat) /\ Len(m) = n
      /\ \A k \in 1 .. n : m[k] = q[k]
  <2>1. /\ 1 \in Nat /\ n \in Nat /\ 1 >= 1 /\ 1 <= n + 1 /\ n <= Len(q)
    BY <1>1, <1>2
  <2>2. /\ m \in Seq(Nat) /\ Len(m) = n - 1 + 1
        /\ \A k \in 1 .. n - 1 + 1 : m[k] = q[1 + k - 1]
    BY <1>3, <2>1, PartOf, Zenon
  <2>3. n - 1 + 1 = n /\ \A k \in 1 .. n : 1 + k - 1 = k
    BY <1>2
  <2> QED
    BY <2>2, <2>3
<1>5. PICK pads : pads = [k \in 1 .. a |-> a]
  OBVIOUS
<1>6. pads \in Seq(Nat) /\ Len(pads) = a /\ \A k \in 1 .. a : pads[k] = a
  <2>1. pads \in [1 .. a -> Nat]
    BY <1>2, <1>5
  <2> QED
    BY <1>2, <1>5, <2>1
<1>7. PICK c : c = m \o pads
  OBVIOUS
<1>8. /\ c \in Seq(Nat) /\ Len(c) = l
      /\ \A k \in 1 .. n : c[k] = q[k]
      /\ \A k \in n + 1 .. l : c[k] = a
  <2>1. /\ c \in Seq(Nat) /\ Len(c) = n + a
        /\ \A k \in 1 .. n + a : c[k] = IF k <= n THEN m[k] ELSE pads[k - n]
    BY <1>2, <1>4, <1>6, <1>7, ConcatProperties, SMTT(30)
  <2>2. \A k \in 1 .. n : k \in 1 .. n + a /\ k <= n
    BY <1>2
  <2>3. \A k \in n + 1 .. l : k \in 1 .. n + a /\ ~(k <= n) /\ k - n \in 1 .. a
    BY <1>2
  <2> QED
    BY <1>2, <1>4, <1>6, <2>1, <2>2, <2>3
<1>9. ASSUME q = c PROVE \A k \in n + 1 .. l : q[k] = a
  BY <1>8, <1>9
<1>10. ASSUME \A k \in n + 1 .. l : q[k] = a PROVE q = c
  <2>1. \A k \in 1 .. l : k \in 1 .. n \/ k \in n + 1 .. l
    BY <1>2
  <2>2. \A k \in 1 .. l : q[k] = c[k]
    BY <1>8, <1>10, <2>1
  <2> QED
    BY <1>1, <1>8, <2>2, SeqEqual
<1> QED
  BY <1>1, <1>3, <1>5, <1>7, <1>9, <1>10

\* The lengths n of plain texts that, padded, give q.
PlainLengths(q) ==
  {n \in 0 .. Len(q) :
     LET added == Len(q) - n
     IN  /\ Len(q) % BlockSize = 0
         /\ added = BlockSize - (n % BlockSize)
         /\ q = SubSeq(q, 1, n) \o [k \in 1 .. added |-> added]}

\* A plain text of length n is there just when wsDecrypt's checks pass with
\* the rest of the bytes as its padding.
LEMMA PlainLength ==
  ASSUME NEW q \in Seq(Nat), NEW n \in 0 .. Len(q)
  PROVE  n \in PlainLengths(q) <=>
           /\ Len(q) % BlockSize = 0 /\ Len(q) >= BlockSize
           /\ Len(q) - n \in 1 .. BlockSize
           /\ \A k \in n + 1 .. Len(q) : q[k] = Len(q) - n
<1>1. BlockSize \in Nat \ {0} /\ Len(q) \in Nat
  BY DecodersAssumption
<1>2. PICK a : a = Len(q) - n
  OBVIOUS
<1>3. n \in PlainLengths(q) <=>
        /\ Len(q) % BlockSize = 0
        /\ a = BlockSize - (n % BlockSize)
        /\ q = SubSeq(q, 1, n) \o [k \in 1 .. a |-> a]
  BY <1>2, Zenon DEF PlainLengths
<1>4. q = SubSeq(q, 1, n) \o [k \in 1 .. a |-> a]
        <=> \A k \in n + 1 .. Len(q) : q[k] = a
  BY <1>2, PaddedTail, SMTT(30)
<1>5. ASSUME Len(q) % BlockSize = 0
      PROVE  a = BlockSize - (n % BlockSize) <=>
               Len(q) >= BlockSize /\ a \in 1 .. BlockSize
  <2>1. Len(q) - n = BlockSize - (n % BlockSize) <=>
          Len(q) >= BlockSize /\ Len(q) - n \in 1 .. BlockSize
    BY <1>1, <1>5, PaddingRange
  <2> QED
    BY <1>2, <2>1, Zenon
<1> QED
  BY <1>2, <1>3, <1>4, <1>5, Zenon

\* What wsDecrypt makes of a padded text.
LEMMA UnpadsOf ==
  ASSUME NEW q \in Seq(Nat)
  PROVE  IF PlainLengths(q) = {} THEN wsDecrypt(q) = Refused
         ELSE \E n \in PlainLengths(q) : wsDecrypt(q) = SubSeq(q, 1, n)
<1>1. PICK l, b : l = Len(q) /\ b = BlockSize
  OBVIOUS
<1>2. l \in Nat /\ b \in Nat \ {0}
  BY <1>1, DecodersAssumption
<1>3. PICK pad : pad = q[l]
  OBVIOUS
<1> DEFINE Bad == \/ l < b \/ l % b # 0
                 \/ pad = 0 \/ pad > b \/ pad > l
                 \/ \E k \in l - pad + 1 .. l : q[k] # pad
<1>4. /\ Bad => wsDecrypt(q) = Refused
      /\ ~Bad => wsDecrypt(q) = SubSeq(q, 1, l - pad)
  BY <1>1, <1>3, Zenon DEF wsDecrypt
<1>5. ASSUME ~Bad PROVE l - pad \in PlainLengths(q)
  <2>1. l \in 1 .. l
    BY <1>2, <1>5
  <2>2. pad \in Nat
    BY <1>1, <1>3, <2>1
  <2>3. l - pad \in 0 .. l /\ l - (l - pad) = pad /\ pad \in 1 .. b /\ l >= b
    BY <1>2, <1>5, <2>2
  <2>4. l % b = 0 /\ \A k \in l - pad + 1 .. l : q[k] = pad
    BY <1>5
  <2> HIDE DEF Bad
  <2>5. PICK n : n = l - pad
    OBVIOUS
  <2> QED
    BY <1>1, <2>3, <2>4, <2>5, PlainLength, Zenon
<1>6. ASSUME NEW n \in PlainLengths(q) PROVE ~Bad /\ n = l - pad
  <2>1. n \in 0 .. l
    BY <1>1 DEF PlainLengths
  <2>2. /\ l % b = 0 /\ l >= b /\ l - n \in 1 .. b
        /\ \A k \in n + 1 .. l : q[k] = l - n
    BY <1>1, <2>1, PlainLength, Zenon
  <2>3. l \in n + 1 .. l
    BY <1>2, <2>1, <2>2
  <2>4. pad = l - n
    BY <1>3, <2>2, <2>3
  <2>5. l - pad + 1 = n + 1 /\ n = l - pad
    BY <1>2, <2>1, <2>4
  <2>6. ~(l < b) /\ pad # 0 /\ ~(pad > b) /\ ~(pad > l)
    BY <1>2, <2>1, <2>2, <2>4
  <2>7. ~ \E k \in l - pad + 1 .. l : q[k] # pad
    BY <2>2, <2>4, <2>5
  <2> QED
    BY <2>2, <2>5, <2>6, <2>7
<1> HIDE DEF Bad
<1>7. CASE Bad
  BY <1>4, <1>6, <1>7
<1>8. CASE ~Bad
  BY <1>4, <1>5, <1>8
<1> QED
  BY <1>7, <1>8

\* For payloads of every length, and for every block size, wsDecrypt removes
\* exactly a padding of PKCS#7 and refuses everything else.
THEOREM PaddingByFormat == Spec => []UnpadsExactly
<1>1. BytesOK => UnpadsExactly
  <2> SUFFICES ASSUME p \in Seq(Nat) PROVE UnpadsExactly
    BY BytesAreNat DEF BytesOK
  <2>1. IF PlainLengths(p) = {} THEN wsDecrypt(p) = Refused
        ELSE \E n \in PlainLengths(p) : wsDecrypt(p) = SubSeq(p, 1, n)
    BY UnpadsOf
  <2> QED
    BY <2>1, Zenon DEF UnpadsExactly, PlainLengths
<1> QED BY <1>1, Typed, PTL
=============================================================================
