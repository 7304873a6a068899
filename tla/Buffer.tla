------------------------------- MODULE Buffer -------------------------------
(***************************************************************************)
(* The ring buffer of buffer.c: a buffer_t is the record [size, next,      *)
(* capacity, data], its operations are the functions of buffer.c.          *)
(*                                                                         *)
(* size_t is modelled by Nat.  buffer_create allocates capacity pointers,  *)
(* so capacity < 2^61, and the only sum buffer.c forms, next + size, is at *)
(* most 2 * capacity - 1: no operation of a buffer can wrap around.        *)
(***************************************************************************)
EXTENDS Integers, Sequences

CONSTANTS
  Value,   (* what a void* message can be, the NULL pointer included       *)
  Uninit   (* content of a slot of malloc'ed memory that nobody has written *)

ASSUME UninitAssumption == Uninit \notin Value

(***************************************************************************)
(* enum buffer_status.                                                     *)
(***************************************************************************)
BUFFER_SUCCESS == 1
BUFFER_ERROR   == -1

buffer_create(capacity) ==
  [size |-> 0, next |-> 0, capacity |-> capacity,
   data |-> [i \in 0 .. capacity - 1 |-> Uninit]]

(***************************************************************************)
(* The slot buffer_add writes: next + size, wrapped by one subtraction.    *)
(***************************************************************************)
AddPos(b) ==
  LET pos == b.next + b.size
  IN  IF pos >= b.capacity THEN pos - b.capacity ELSE pos

(***************************************************************************)
(* Both operations return their status and the buffer they leave behind;   *)
(* buffer_remove also returns what it stored through its argument data.    *)
(***************************************************************************)
buffer_add(b, data) ==
  IF b.size >= b.capacity
  THEN [status |-> BUFFER_ERROR, buffer |-> b]
  ELSE [status |-> BUFFER_SUCCESS,
        buffer |-> [size |-> b.size + 1, next |-> b.next, capacity |-> b.capacity,
                    data |-> [b.data EXCEPT ![AddPos(b)] = data]]]

(* Mutant: next is not wrapped. *)
NextSlotUnwrapped(b) == b.next + 1

NextSlot(b) ==
  IF b.next + 1 >= b.capacity THEN b.next + 1 - b.capacity ELSE b.next + 1

(* Mutant: next stays where it is. *)
RemoveKeepsNext(b) ==
  IF b.size > 0
  THEN [status |-> BUFFER_SUCCESS,
        buffer |-> [size |-> b.size - 1, next |-> b.next,
                    capacity |-> b.capacity, data |-> b.data],
        data   |-> b.data[b.next]]
  ELSE [status |-> BUFFER_ERROR, buffer |-> b, data |-> Uninit]

buffer_remove(b) ==
  IF b.size > 0
  THEN [status |-> BUFFER_SUCCESS,
        buffer |-> [size |-> b.size - 1, next |-> NextSlot(b),
                    capacity |-> b.capacity, data |-> b.data],
        data   |-> b.data[b.next]]
  ELSE [status |-> BUFFER_ERROR, buffer |-> b, data |-> Uninit]

buffer_capacity(b) == b.capacity

buffer_current_size(b) == b.size

-----------------------------------------------------------------------------
(***************************************************************************)
(* The messages a buffer holds, oldest first.                              *)
(***************************************************************************)
SlotOf(b, i) ==
  IF b.next + i >= b.capacity THEN b.next + i - b.capacity ELSE b.next + i

Contents(b) == [i \in 1 .. b.size |-> b.data[SlotOf(b, i - 1)]]

(***************************************************************************)
(* A well-formed buffer: the occupied slots, and only those read by        *)
(* buffer_remove, hold messages somebody added.                            *)
(***************************************************************************)
BufferOK(b) ==
  /\ b \in [size : Nat, next : Nat, capacity : Nat,
            data : [0 .. b.capacity - 1 -> Value \cup {Uninit}]]
  /\ b.size <= b.capacity
  /\ b.capacity > 0 => b.next < b.capacity
  /\ b.capacity = 0 => b.next = 0
  /\ \A i \in 1 .. b.size : b.data[SlotOf(b, i - 1)] \in Value
=============================================================================
