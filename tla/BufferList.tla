----------------------------- MODULE BufferList -----------------------------
(***************************************************************************)
(* The two lists of the audio capture queue as audio/buffer.c has them:    *)
(* pointers from a list to its first and its last buffer, and from each    *)
(* buffer to the next.  What BufferQueue does to list[e] with Append and   *)
(* Tail is done here to the pointers as well, in the same steps.           *)
(***************************************************************************)
EXTENDS BufferQueue

VARIABLE heap    \* list->head and list->tail of both lists, and Buffer.next

linkedVars == <<vars, heap>>

(* InitBufferList and ResetBufferList chain the buffers in their order; the *)
(* list of filled buffers gets none.                                        *)
Chain == [b \in Buffers |-> IF b = BufferNum THEN NoBuffer ELSE b + 1]

Rebuilt(h, e) ==
  IF e = "in"
  THEN [head |-> [h.head EXCEPT ![e] = 1],
        tail |-> [h.tail EXCEPT ![e] = BufferNum],
        next |-> Chain]
  ELSE [h EXCEPT !.head[e] = NoBuffer, !.tail[e] = NoBuffer]

(* OutBufferList, for a list that has a head.                               *)
OutBufferList(h, e) ==
  LET node == h.head[e]
  IN  [head |-> [h.head EXCEPT ![e] = h.next[node]],
       tail |-> [h.tail EXCEPT ![e] = IF @ = node THEN NoBuffer ELSE @],
       next |-> [h.next EXCEPT ![node] = NoBuffer]]

(* Wrong: the tail stays where it is.                                       *)
WrongInBufferList(h, e, node) ==
  IF h.head[e] = NoBuffer
  THEN [h EXCEPT !.head[e] = node, !.tail[e] = node, !.next[node] = NoBuffer]
  ELSE [h EXCEPT !.next = [@ EXCEPT ![h.tail[e]] = node, ![node] = NoBuffer]]

InBufferList(h, e, node) ==
  IF h.head[e] = NoBuffer
  THEN [head |-> [h.head EXCEPT ![e] = node],
        tail |-> [h.tail EXCEPT ![e] = node],
        next |-> [h.next EXCEPT ![node] = NoBuffer]]
  ELSE [head |-> h.head,
        tail |-> [h.tail EXCEPT ![e] = node],
        next |-> [h.next EXCEPT ![h.tail[e]] = node, ![node] = NoBuffer]]

-----------------------------------------------------------------------------
LinkedInit ==
  /\ Init
  /\ heap = [head |-> [e \in Ends |-> IF e = "in" THEN 1 ELSE NoBuffer],
             tail |-> [e \in Ends |-> IF e = "in" THEN BufferNum ELSE NoBuffer],
             next |-> Chain]

(* FillBuffer and EmptyBuffer.                                              *)
PassNode(e) ==
  /\ PassBuffer(e)
  /\ heap' = IF state[e] = "WORKING" /\ heap.head[e] # NoBuffer
             THEN InBufferList(OutBufferList(heap, e), Other(e), heap.head[e])
             ELSE heap

(* The other steps of an end.                                               *)
LeaveNodes(e) == pc[e] # "pass" /\ End(e) /\ UNCHANGED heap

RebuildFilled == DisableResetFilled /\ heap' = Rebuilt(heap, "out")
RebuildEmpty  == DisableResetEmpty /\ heap' = Rebuilt(heap, "in")

LinkedDisable == \/ RebuildFilled \/ RebuildEmpty
                 \/ (DisableStop \/ DisableCloseIn \/ DisableCloseOut)
                    /\ UNCHANGED heap

LinkedCommand == \/ LinkedDisable
                 \/ (AudioStart \/ AudioEnd \/ Enable) /\ UNCHANGED heap

LinkedNext == \/ \E e \in Ends : PassNode(e) \/ LeaveNodes(e)
              \/ LinkedCommand

LinkedSpec == LinkedInit /\ [][LinkedNext]_linkedVars

-----------------------------------------------------------------------------
(* Following the pointers from the head of a list gives the buffers of      *)
(* list[e] in their order and then NULL, and its tail is the last of them:  *)
(* so no fill, no return and no reset, whatever came before it, cuts the    *)
(* chain, ties it to the other one or appends to a buffer that has left.    *)
Linked(h, e, s) ==
  /\ h.head[e] = IF s = << >> THEN NoBuffer ELSE s[1]
  /\ h.tail[e] = IF s = << >> THEN NoBuffer ELSE s[Len(s)]
  /\ \A i \in DOMAIN s :
       h.next[s[i]] = IF i = Len(s) THEN NoBuffer ELSE s[i + 1]

ListsAsQueues == \A e \in Ends : Linked(heap, e, list[e])

=============================================================================
