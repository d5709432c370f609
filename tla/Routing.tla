------------------------------ MODULE Routing ------------------------------
(***************************************************************************)
(* The Megablocks header: how cosmux/multiplexer.go finds the chain        *)
(* application a transaction is for, what it strips before it forwards     *)
(* one, and the order in which it lists the applications.  A transaction   *)
(* is a sequence of bytes; the body behind the header is opaque.           *)
(***************************************************************************)
EXTENDS Integers, Sequences, SequencesExt

Byte == 0..255

MAGIC == <<35, 109, 117, 120>>

ChainAppIdLen == 4

MbHeaderLen == Len(MAGIC) + ChainAppIdLen

\* ChainAppIdentifier: the first bytes of the SHA-1 of the chain id.
ChainAppIdentifier == [1..ChainAppIdLen -> Byte]

-----------------------------------------------------------------------------
\* Variant: only the first byte is compared.
FirstByteLess(l, k) == l[1] < k[1]

\* The sorting order: the first byte in which the identifiers differ decides.
Less(l, k) ==
  \E i \in 1..ChainAppIdLen :
    /\ l[i] < k[i]
    /\ \A j \in 1..(i - 1) : l[j] = k[j]

\* What sort.Sort can make of the keys of a map, which come in any order: every
\* enumeration in which no later identifier is Less than an earlier one.
SortChainAppIDs(ids) ==
  {s \in SetToSeqs(ids) : \A i, j \in 1..Cardinality(ids) : i < j => ~Less(s[j], s[i])}

-----------------------------------------------------------------------------
CheckHeader(tx) ==
  /\ Len(tx) >= MbHeaderLen
  /\ SubSeq(tx, 1, Len(MAGIC)) = MAGIC

\* The identifier a header carries.
HeaderId(tx) == SubSeq(tx, Len(MAGIC) + 1, MbHeaderLen)

\* getHandler returns a handler of clients rather than an error.
HasHandler(clients, tx) == CheckHeader(tx) /\ HeaderId(tx) \in clients

\* Variant: one byte of the header stays.
StripTooLittle(tx) == SubSeq(tx, MbHeaderLen, Len(tx))

\* tx[MbHeaderLen:]
Strip(tx) == SubSeq(tx, MbHeaderLen + 1, Len(tx))

\* What a wallet puts in front of a transaction for the app with this id.
CreateMegablocksHeader(id) == MAGIC \o id
=============================================================================
