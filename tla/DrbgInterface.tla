---------------------------- MODULE DrbgInterface ----------------------------
(***************************************************************************)
(* What every mechanism behind the DRBG vtable of include/drbg.h shares:   *)
(* the buffers a caller passes, and the shape of a call and of its reply.  *)
(*                                                                         *)
(* A buffer is a pointer (possibly NULL), a length and the bytes behind    *)
(* the pointer.  The length is a field of its own: a caller can pass NULL  *)
(* with any length, and a length close to SIZE_MAX is rejected before any  *)
(* byte is read, so the bytes of such a buffer are left out (huge).        *)
(***************************************************************************)
EXTENDS Integers, Sequences

Buffer == [null : BOOLEAN, len : Nat, data : Seq(Nat)]

NullBuffer(len) == [null |-> TRUE,  len |-> len,       data |-> <<>>]
Bytes(data)     == [null |-> FALSE, len |-> Len(data), data |-> data]
Huge(len)       == [null |-> FALSE, len |-> len,       data |-> <<>>]

(* ctx says whether the context pointer is non-NULL, output likewise.      *)
InstantiateCall ==
    [op : {"instantiate"}, ctx : BOOLEAN,
     entropy : Buffer, nonce : Buffer, personalization : Buffer]

GenerateCall ==
    [op : {"generate"}, ctx : BOOLEAN, output : BOOLEAN, output_len : Nat,
     additional : Buffer]

ReseedCall ==
    [op : {"reseed"}, ctx : BOOLEAN, entropy : Buffer, additional : Buffer]

UninstantiateCall == [op : {"uninstantiate"}, ctx : BOOLEAN]

(* The bytes a call delivered are part of its reply: those of a successful *)
(* generate, none otherwise.                                               *)
Reply(op, status, bytes) == [op |-> op, status |-> status, bytes |-> bytes]

NoReply == Reply("none", "SUCCESS", <<>>)
=============================================================================
