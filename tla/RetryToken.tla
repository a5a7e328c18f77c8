----------------------------- MODULE RetryToken -----------------------------
(***************************************************************************)
(* The stateless retry token: mint_token and validate_token on octets.     *)
(* DtpServer has the tokens as kinds of packets, Token for one that was    *)
(* minted for its sender and BadToken for one that is refused; the         *)
(* theorems below say that the code tells the two apart.                   *)
(***************************************************************************)
EXTENDS Integers, Sequences, SequenceTheorems, TLAPS

Octet == 0 .. 255

\* The octets of an address: an IPv4 or an IPv6 one.
Address == {a \in Seq(Octet) : Len(a) \in {4, 16}}

\* "quiche" in ASCII.
Tag == <<113, 117, 105, 99, 104, 101>>

mint_token(dcid, addr) == (Tag \o addr) \o dcid

\* None is the empty set, Some(id) the set of id.
validate_token(addr, token) ==
    LET rest == SubSeq(token, 7, Len(token)) IN
    {id \in {SubSeq(rest, Len(addr) + 1, Len(rest))} :
        /\ Len(token) >= 6
        /\ SubSeq(token, 1, 6) = Tag
        /\ Len(rest) >= Len(addr)
        /\ SubSeq(rest, 1, Len(addr)) = addr}

-----------------------------------------------------------------------------
\* The pieces of a concatenation.
LEMMA Pieces ==
    ASSUME NEW a \in Seq(Octet), NEW b \in Seq(Octet)
    PROVE  /\ SubSeq(a \o b, 1, Len(a)) = a
           /\ SubSeq(a \o b, Len(a) + 1, Len(a \o b)) = b
           /\ Len(a \o b) = Len(a) + Len(b)
  BY SubSeqProperties, ConcatProperties, LenProperties

\* A sequence is the concatenation of its two parts.
LEMMA Parts ==
    ASSUME NEW t \in Seq(Octet), NEW n \in 0 .. Len(t)
    PROVE  /\ t = SubSeq(t, 1, n) \o SubSeq(t, n + 1, Len(t))
           /\ SubSeq(t, n + 1, Len(t)) \in Seq(Octet)
  <1>1. Len(t) \in Nat /\ n \in Nat /\ n <= Len(t) /\ DOMAIN t = 1 .. Len(t)
    BY LenProperties
  <1>2. SubSeq(t, 1, n) \o SubSeq(t, n + 1, Len(t)) = SubSeq(t, 1, Len(t))
    <2>1. 1 \in 1 .. Len(t) + 1 /\ n \in 1 - 1 .. Len(t) /\ Len(t) \in n .. Len(t)
      BY <1>1
    <2> QED
      BY <2>1, ConcatAdjacentSubSeq
  <1>3. SubSeq(t, 1, Len(t)) = t
    BY SubSeqFull
  <1>4. \A i \in n + 1 .. Len(t) : t[i] \in Octet
    BY <1>1, LenProperties
  <1>5. SubSeq(t, n + 1, Len(t)) \in Seq(Octet)
    BY <1>1, <1>4, SubSeqProperties
  <1> QED
    BY <1>2, <1>3, <1>5

\* The tag is six octets.
LEMMA TagType == Tag \in Seq(Octet) /\ Len(Tag) = 6
  BY DEF Tag, Octet

\* A token is the tag, then the address and the connection id.
LEMMA MintTree ==
    ASSUME NEW addr \in Seq(Octet), NEW dcid \in Seq(Octet)
    PROVE  /\ mint_token(dcid, addr) = Tag \o (addr \o dcid)
           /\ addr \o dcid \in Seq(Octet)
  <1>1. addr \o dcid \in Seq(Octet)
    BY ConcatProperties
  <1>2. Tag \in Seq(Octet)
    BY TagType
  <1>3. (Tag \o addr) \o dcid = Tag \o (addr \o dcid)
    BY <1>2, ConcatAssociative
  <1> QED
    BY <1>1, <1>3 DEF mint_token

\* What is left of a token after the tag.
LEMMA AfterTag ==
    ASSUME NEW r \in Seq(Octet)
    PROVE  /\ SubSeq(Tag \o r, 1, 6) = Tag
           /\ SubSeq(Tag \o r, 7, Len(Tag \o r)) = r
           /\ Len(Tag \o r) >= 6
  <1>1. Tag \in Seq(Octet) /\ Len(Tag) = 6 /\ Len(Tag) + 1 = 7
    BY TagType
  <1>2. /\ SubSeq(Tag \o r, 1, Len(Tag)) = Tag
        /\ SubSeq(Tag \o r, Len(Tag) + 1, Len(Tag \o r)) = r
        /\ Len(Tag \o r) = Len(Tag) + Len(r)
    BY <1>1, Pieces
  <1>3. Len(r) \in Nat
    BY LenProperties
  <1> QED
    BY <1>1, <1>2, <1>3

\* The token a Retry carries is accepted when it comes back from the same address,
\* and gives back the connection id it was minted for (server.rs 438-482): the odcid
\* handed to quiche::accept is the client's first one.
THEOREM MintedIsValid ==
    ASSUME NEW addr \in Address, NEW dcid \in Seq(Octet)
    PROVE  validate_token(addr, mint_token(dcid, addr)) = {dcid}
  <1> DEFINE token == mint_token(dcid, addr)
  <1>1. addr \in Seq(Octet)
    BY DEF Address
  <1>2. token = Tag \o (addr \o dcid) /\ addr \o dcid \in Seq(Octet)
    BY <1>1, MintTree
  <1>3. /\ SubSeq(token, 1, 6) = Tag
        /\ SubSeq(token, 7, Len(token)) = addr \o dcid
        /\ Len(token) >= 6
    BY <1>2, AfterTag
  <1>4. /\ SubSeq(addr \o dcid, 1, Len(addr)) = addr
        /\ SubSeq(addr \o dcid, Len(addr) + 1, Len(addr \o dcid)) = dcid
        /\ Len(addr \o dcid) >= Len(addr)
    BY <1>1, Pieces, LenProperties
  <1> QED
    BY <1>3, <1>4 DEF validate_token

\* Conversely a token is accepted from an address only if it is, octet by octet, the
\* one minted for that address and the connection id that comes out of it: shorter
\* tokens, and those with a part missing, are refused (server.rs 461-482).
THEOREM ValidIsMinted ==
    ASSUME NEW addr \in Address, NEW token \in Seq(Octet),
           NEW id \in validate_token(addr, token)
    PROVE  token = mint_token(id, addr)
  <1> DEFINE rest == SubSeq(token, 7, Len(token))
  <1>1. /\ id = SubSeq(rest, Len(addr) + 1, Len(rest))
        /\ Len(token) >= 6
        /\ SubSeq(token, 1, 6) = Tag
        /\ Len(rest) >= Len(addr)
        /\ SubSeq(rest, 1, Len(addr)) = addr
    BY DEF validate_token
  <1>2. 6 \in 0 .. Len(token)
    BY <1>1, LenProperties
  <1>3. rest \in Seq(Octet) /\ token = Tag \o rest
    <2>1. token = SubSeq(token, 1, 6) \o SubSeq(token, 6 + 1, Len(token))
          /\ SubSeq(token, 6 + 1, Len(token)) \in Seq(Octet)
      BY <1>2, Parts
    <2>2. SubSeq(token, 6 + 1, Len(token)) = rest
      OBVIOUS
    <2> QED
      BY <1>1, <2>1, <2>2
  <1> HIDE DEF rest
  <1>4. addr \in Seq(Octet) /\ Len(addr) \in 0 .. Len(rest)
    BY <1>1, <1>3, LenProperties DEF Address
  <1>5. rest = addr \o id /\ id \in Seq(Octet)
    BY <1>1, <1>3, <1>4, Parts
  <1> QED
    BY <1>3, <1>4, <1>5, MintTree

\* A token minted for one address is refused from every other of the same family.
THEOREM OtherAddressRefused ==
    ASSUME NEW a \in Address, NEW b \in Address, Len(a) = Len(b), a # b,
           NEW dcid \in Seq(Octet)
    PROVE  validate_token(b, mint_token(dcid, a)) = {}
  <1> SUFFICES ASSUME NEW id \in validate_token(b, mint_token(dcid, a)) PROVE FALSE
    OBVIOUS
  <1>1. a \in Seq(Octet)
    BY DEF Address
  <1>2. /\ mint_token(dcid, a) = Tag \o (a \o dcid)
        /\ SubSeq(Tag \o (a \o dcid), 7, Len(Tag \o (a \o dcid))) = a \o dcid
    BY <1>1, MintTree, AfterTag
  <1>3. SubSeq(a \o dcid, 1, Len(b)) = b
    BY <1>2 DEF validate_token
  <1>4. SubSeq(a \o dcid, 1, Len(a)) = a
    BY <1>1, Pieces
  <1> QED
    BY <1>3, <1>4
=============================================================================
