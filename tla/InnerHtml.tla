------------------------------ MODULE InnerHtml ------------------------------
(***************************************************************************)
(* The innerHTML getter (dom_get_inner_html of src/dom.c): the serializer  *)
(* of the HTML library hands out the markup piece by piece, ih_append      *)
(* copies each piece into a chain of blocks of IH_BLOCK_SIZE bytes, and    *)
(* ih_flatten joins the blocks.  Only sizes are modelled; allocation       *)
(* succeeds.                                                               *)
(***************************************************************************)
EXTENDS Naturals, Sequences

CONSTANTS BlockSize,  \* IH_BLOCK_SIZE
          MaxPiece,   \* bound: bytes of one piece
          MaxPieces   \* bound: pieces of the markup

VARIABLES pieces,  \* pieces still to come
          len,     \* bytes of the current piece not yet copied
          blocks,  \* bytes in each block of the chain
          total,   \* ih_acc.total
          pc       \* "serialize", "append", or the answer: "done"

vars == <<pieces, len, blocks, total, pc>>

Init ==
    /\ pieces \in UNION {[1..n -> 1..MaxPiece] : n \in 0..MaxPieces}
    /\ len = 0 /\ blocks = <<>> /\ total = 0 /\ pc = "serialize"

(* lxb_html_serialize_deep_cb calls ih_append with the next piece. *)
Piece ==
    /\ pc = "serialize" /\ pieces # <<>>
    /\ len' = Head(pieces) /\ pieces' = Tail(pieces)
    /\ pc' = "append"
    /\ UNCHANGED <<blocks, total>>

(* One turn of the loop of ih_append: a new block when there is none or the *)
(* position is at its end, then as much as fits, one byte reserved.         *)
Copy ==
    /\ pc = "append" /\ len > 0
    /\ LET full == blocks = <<>> \/ blocks[Len(blocks)] >= BlockSize
           chain == IF full THEN Append(blocks, 0) ELSE blocks
           room == BlockSize - chain[Len(chain)] - 1
           n == IF len < room THEN len ELSE room
       IN  /\ blocks' = [chain EXCEPT ![Len(chain)] = @ + n]
           /\ len' = len - n /\ total' = total + n
    /\ UNCHANGED <<pieces, pc>>

(* ih_append returns, and after the last piece ih_flatten joins the blocks. *)
Return ==
    /\ \/ pc = "append" /\ len = 0 /\ pc' = "serialize"
       \/ pc = "serialize" /\ pieces = <<>> /\ pc' = "done"
    /\ UNCHANGED <<pieces, len, blocks, total>>

Next == Piece \/ Copy \/ Return

(* One thread runs the getter to its end. *)
Spec == Init /\ [][Next]_vars /\ WF_vars(Next)

(* The comment on ih_acc and the contract of dom_get_inner_html in dom.h:   *)
(* when one block fills up, a new one is linked, and memory is the only     *)
(* limit.  So the getter answers for every content.                         *)
Answers == <>(pc = "done")

=============================================================================
