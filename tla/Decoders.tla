------------------------------ MODULE Decoders ------------------------------
(***************************************************************************)
(* The decoders: decodeSubmitPDU (the SMS to send), decodeCDS (a delivery  *)
(* report), the TP-SRR bit that sendPDU sets, and the end of wsDecrypt     *)
(* (the padding).  Each is written as the code computes it, by index       *)
(* arithmetic over bytes, and compared with a description of the format.   *)
(*                                                                         *)
(* The bytes arrive one by one.  That is how the reader of /dev/rpm30 gets *)
(* a report: waitFor returns as soon as it sees "+CDS", so that decodeCDS  *)
(* is given whatever part of it has come.  For a PDU and for a decrypted   *)
(* payload it is just a way to go through all short inputs.                *)
(***************************************************************************)
EXTENDS Naturals, Sequences

CONSTANTS
  Bytes,      \* the bytes that occur
  MaxLen,     \* length of the longest input
  StampLen,   \* bytes of a time stamp (7)
  BlockSize   \* aes.BlockSize (16)

ASSUME DecodersAssumption ==
  /\ Bytes \subseteq 0 .. 255
  /\ MaxLen \in Nat /\ StampLen \in Nat /\ BlockSize \in Nat \ {0}

VARIABLE p   \* the bytes so far, without their hexadecimal digits

Init == p = <<>>

\* One more byte has been read.
Read == Len(p) < MaxLen /\ \E b \in Bytes : p' = Append(p, b)

Next == Read

Spec == Init /\ [][Next]_p

\* The operators count bytes from 1: the code's p[k] is q[k + 1] here.

-----------------------------------------------------------------------------
(* decodeSubmitPDU.                                                        *)

Failed == [ok |-> FALSE]

\* The digits of a half-octet sequence: the low half first.
Swapped(q) ==
  [k \in 1 .. 2 * Len(q) |->
     IF k % 2 = 1 THEN q[(k + 1) \div 2] % 16 ELSE q[k \div 2] \div 16]

\* Mutant: the number of digits is taken for the number of octets.
decodeSubmitPDUOctets(q) ==
  IF q = <<>> \/ q[1] + 3 >= Len(q) THEN Failed ELSE
  LET daLen == q[q[1] + 4]
      i == q[1] + 5
      nb == daLen
  IN  IF i + nb + 1 >= Len(q) THEN Failed ELSE
      [ok |-> TRUE,
       phone |-> SubSeq(Swapped(SubSeq(q, i + 1, i + nb)), 1, daLen),
       dcs |-> q[i + nb + 2],
       atLength |-> Len(q) - 1 - q[1],
       mr |-> q[q[1] + 3]]

\* An index out of range is a panic, recovered as an error.  The last index
\* used is the largest one.
decodeSubmitPDU(q) ==
  IF q = <<>> \/ q[1] + 3 >= Len(q) THEN Failed ELSE
  LET daLen == q[q[1] + 4]
      i == q[1] + 5
      nb == (daLen + 1) \div 2
  IN  IF i + nb + 1 >= Len(q) THEN Failed ELSE
      [ok |-> TRUE,
       phone |-> SubSeq(Swapped(SubSeq(q, i + 1, i + nb)), 1, daLen),
       dcs |-> q[i + nb + 2],
       atLength |-> Len(q) - 1 - q[1],
       mr |-> q[q[1] + 3]]

\* Mutant: the bit goes into the octet behind the first one, TP-MR.
requestReportNext(q) ==
  IF Len(q) > 1 /\ 1 + q[1] + 1 < Len(q)
  THEN [q EXCEPT ![q[1] + 3] = IF (@ \div 32) % 2 = 1 THEN @ ELSE @ + 32]
  ELSE q

\* sendPDU asks for a report: bit 5 of the TPDU's first octet.
requestReport(q) ==
  IF Len(q) > 1 /\ 1 + q[1] < Len(q)
  THEN [q EXCEPT ![q[1] + 2] = IF (@ \div 32) % 2 = 1 THEN @ ELSE @ + 32]
  ELSE q

-----------------------------------------------------------------------------
(* decodeCDS.                                                              *)

\* Mutant: a report that stops before its status counts as status 0.
decodeCDSEarly(q) ==
  IF q = <<>> \/ q[1] + 3 >= Len(q) THEN "none" ELSE
  LET raLen == q[q[1] + 4]
      i == q[1] + 3 + 1 + 1 + (raLen + 1) \div 2 + 2 * StampLen
      st == IF i >= Len(q) THEN 0 ELSE q[i + 1]
  IN  IF st = 0 THEN "DELIVERED"
      ELSE IF st < 32 THEN "IN TRANSIT"
      ELSE "NOT DELIVERED"

\* Mutant: one of the two time stamps is forgotten.
decodeCDSOneStamp(q) ==
  IF q = <<>> \/ q[1] + 3 >= Len(q) THEN "none" ELSE
  LET raLen == q[q[1] + 4]
      i == q[1] + 3 + 1 + 1 + (raLen + 1) \div 2 + StampLen
  IN  IF i >= Len(q) THEN "none"
      ELSE IF q[i + 1] = 0 THEN "DELIVERED"
      ELSE IF q[i + 1] < 32 THEN "IN TRANSIT"
      ELSE "NOT DELIVERED"

\* The verdict on a report, "none" when there is none (or after a panic).  q is
\* the longest token of whole bytes: while half a byte is missing that is the
\* length in front of the report, one byte, which has no verdict either.
decodeCDS(q) ==
  IF q = <<>> \/ q[1] + 3 >= Len(q) THEN "none" ELSE
  LET raLen == q[q[1] + 4]
      i == q[1] + 3 + 1 + 1 + (raLen + 1) \div 2 + 2 * StampLen
  IN  IF i >= Len(q) THEN "none"
      ELSE IF q[i + 1] = 0 THEN "DELIVERED"
      ELSE IF q[i + 1] < 32 THEN "IN TRANSIT"
      ELSE "NOT DELIVERED"

-----------------------------------------------------------------------------
(* wsDecrypt.  q is what the ciphertext behind the IV deciphers to, as long *)
(* as the ciphertext; with a wrong key it is anything.                     *)

Refused == <<"error">>

\* Mutant: of the padding only the last byte is looked at.
wsDecryptLastByte(q) ==
  IF Len(q) < BlockSize \/ Len(q) % BlockSize # 0 THEN Refused ELSE
  LET pad == q[Len(q)]
  IN  IF pad = 0 \/ pad > BlockSize \/ pad > Len(q) THEN Refused
      ELSE SubSeq(q, 1, Len(q) - pad)

wsDecrypt(q) ==
  IF Len(q) < BlockSize \/ Len(q) % BlockSize # 0 THEN Refused ELSE
  LET pad == q[Len(q)]
  IN  IF \/ pad = 0 \/ pad > BlockSize \/ pad > Len(q)
         \/ \E k \in Len(q) - pad + 1 .. Len(q) : q[k] # pad
      THEN Refused
      ELSE SubSeq(q, 1, Len(q) - pad)

-----------------------------------------------------------------------------
(* The formats, and the properties.                                        *)

\* An address field: the number of digits, the type, then two digits to an
\* octet, low half first, the last half unused when the number is odd.
IsAddress(q, digits) ==
  /\ Len(q) >= 2 /\ q[1] = Len(digits)
  /\ Len(q) - 2 = (Len(digits) + 1) \div 2
  /\ \A d \in DOMAIN digits :
       LET octet == q[2 + (d + 1) \div 2]
       IN  digits[d] = IF d % 2 = 1 THEN octet % 16 ELSE octet \div 16

\* Cuts of q into SMSC part, first octet, TP-MR, an address and a rest: the
\* positions where the TPDU begins and where its address ends.
Cuts(q) ==
  {c \in (1 .. Len(q)) \X (1 .. Len(q)) :
     LET t == c[1]   e == c[2]
     IN  /\ q[1] = t - 1
         /\ t + 4 <= e
         /\ e - (t + 4) = (q[t + 3] + 1) \div 2}

\* decodeSubmitPDU finds exactly what the format of an SMS-SUBMIT says, the
\* recipient that -allow-to is asked about included.  It fails on a PDU that
\* ends before or with TP-PID, and on no other: TP-DCS is the last octet it
\* reads, so that it accepts one whose TP-UDL or user data is cut off.
DecodesExactly ==
  LET info == decodeSubmitPDU(p)
      cuts == {c \in Cuts(p) : c[2] + 2 <= Len(p)}
  IN  /\ info.ok <=> cuts # {}
      /\ \A c \in cuts :
           /\ info.mr = p[c[1] + 2]
           /\ info.dcs = p[c[2] + 2]
           /\ info.atLength = Len(SubSeq(p, c[1] + 1, Len(p)))
           /\ IsAddress(SubSeq(p, c[1] + 3, c[2]), info.phone)

\* Asking for a delivery report does not change the recipient the allow-list
\* has agreed to, nor anything else the relay has decoded: sendPDU patches
\* the PDU after decodeSubmitPDU.
ReportBitSparesTheRest ==
  decodeSubmitPDU(requestReport(p)) = decodeSubmitPDU(p)

\* A verdict on a report is the status octet's, and is there as soon as that
\* octet is.
VerdictExact ==
  decodeCDS(p) =
    IF \E c \in Cuts(p) : c[2] + 2 * StampLen < Len(p)
    THEN LET c == CHOOSE c \in Cuts(p) : c[2] + 2 * StampLen < Len(p)
             st == p[c[2] + 2 * StampLen + 1]
         IN  CASE st = 0 -> "DELIVERED"
               [] st \in 1 .. 31 -> "IN TRANSIT"
               [] st \in 32 .. 255 -> "NOT DELIVERED"
    ELSE "none"

\* A report that is still arriving when decodeCDS reads it never gets a
\* verdict that the rest of it changes (waitFor returns on "+CDS").
VerdictStays == [][decodeCDS(p) # "none" => decodeCDS(p') = decodeCDS(p)]_p

\* wsDecrypt gives m exactly when m with the padding of PKCS#7 was encrypted:
\* whole blocks, and as many bytes added as the value of each says.  Anything
\* else, as from a wrong key, is refused.
UnpadsExactly ==
  LET Padding(n) == [k \in 1 .. n |-> n]
      Plain == {n \in 0 .. Len(p) :
                  LET added == Len(p) - n
                  IN  /\ Len(p) % BlockSize = 0
                      /\ added = BlockSize - (n % BlockSize)
                      /\ p = SubSeq(p, 1, n) \o Padding(added)}
  IN  IF Plain = {}
      THEN wsDecrypt(p) = Refused
      ELSE \E n \in Plain : wsDecrypt(p) = SubSeq(p, 1, n)
=============================================================================
