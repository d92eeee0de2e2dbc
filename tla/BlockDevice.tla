---------------------------- MODULE BlockDevice ----------------------------
(***************************************************************************)
(* What block_read and block_write promise their callers (block.h): one    *)
(* request at a time moves one whole sector between the disk image and the *)
(* caller's 512 bytes, or returns an error and moves nothing.              *)
(***************************************************************************)
EXTENDS Integers

CONSTANTS
  Blocks,     \* block numbers
  SectorSize, \* BLOCK_SIZE
  Buffers,    \* addresses callers pass
  NoRequest   \* nothing asked

VARIABLES
  attached, \* is a disk image open?
  img,  \* img[b][i]: the disk image
  mem,  \* mem[a]: RAM, by physical address
  req,  \* the request in progress, or NoRequest
  res   \* the last call's result

vars == <<attached, img, mem, req, res>>

Sector(m, a) == [i \in 0..(SectorSize - 1) |-> m[a + i]]
Overlay(m, a, s) ==
  [x \in DOMAIN m |-> IF x \in a..(a + SectorSize - 1) THEN s[x - a] ELSE m[x]]

CONSTANTS InitialImage, InitialMemory
Init ==
  /\ attached \in BOOLEAN
  /\ img = InitialImage /\ mem = InitialMemory
  /\ req = NoRequest /\ res = 0

Request(op, b, a) ==
  /\ req = NoRequest
  /\ req' = [op |-> op, block |-> b, addr |-> a, served |-> FALSE]
  /\ UNCHANGED <<attached, img, mem, res>>

Serve ==
  /\ req # NoRequest /\ ~ req.served
  /\ req' = [req EXCEPT !.served = TRUE]
  /\ mem' = IF attached /\ req.op = "read" THEN Overlay(mem, req.addr, img[req.block]) ELSE mem
  /\ img' = IF attached /\ req.op = "write"
            THEN [img EXCEPT ![req.block] = Sector(mem, req.addr)] ELSE img
  /\ UNCHANGED <<attached, res>>

Return ==
  /\ req # NoRequest /\ req.served
  /\ req' = NoRequest
  /\ res' = IF attached THEN 0 ELSE 1
  /\ UNCHANGED <<attached, img, mem>>

Next ==
  \/ \E op \in {"read", "write"}, b \in Blocks, a \in Buffers : Request(op, b, a)
  \/ Serve \/ Return

Spec == Init /\ [][Next]_vars
=============================================================================
