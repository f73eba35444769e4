------------------------------ MODULE SessionDB ------------------------------
(***************************************************************************)
(* The collector's session table (libopticon/auth.c) as operators on a     *)
(* function from session to record.  A session is identified by its        *)
(* network id and session id; the table's 256 buckets are chains in which  *)
(* session_find meets each identity at most once, because session_link is  *)
(* only reached when session_find failed.  Keys are numbered in the order  *)
(* the agents create them, from 1, so that 0 marks an absent session.      *)
(* A session whose expired flag is set is freed by the same session_expire *)
(* that sets it, so the flag has no state of its own here.                 *)
(***************************************************************************)
EXTENDS Integers

NoSession == [key |-> 0, lastserial |-> 0, lastcycle |-> 0]

Session == [key : Nat, lastserial : Nat, lastcycle : Int]

session_find(table, id) == table[id].key # 0

(* A new session: session_alloc leaves lastserial 0 and nothing sets it. *)
session_register(table, id, sess_key, tnow) ==
    [table EXCEPT ![id] =
        [key |-> sess_key, lastserial |-> 0, lastcycle |-> tnow]]

(* The renewal handle_auth_packet makes in place. *)
Renew(table, id, sess_key, serial, tnow) ==
    [table EXCEPT ![id] =
        [key |-> sess_key, lastserial |-> serial, lastcycle |-> tnow]]

(* Sessions not renewed since the cut-off are marked and, the loop looking *)
(* at the same node again, unlinked and freed at once.                     *)
session_expire(table, cutoff) ==
    [id \in DOMAIN table |->
        IF table[id].lastcycle < cutoff THEN NoSession ELSE table[id]]

(* What a reader of the saved list gets back: every field a packet is      *)
(* judged by.  The serial of the session's host is not among them.         *)
sessiondb_save(table) ==
    [id \in DOMAIN table |->
        [key |-> table[id].key, lastserial |-> table[id].lastserial,
         lastcycle |-> table[id].lastcycle]]
sessiondb_restore(list) == list
=============================================================================
