------------------------------ MODULE Channels ------------------------------
(***************************************************************************)
(* The two tokio channels that join the three kinds of process of tworker: *)
(*                                                                         *)
(*   job_tx     broadcast::channel(64), session task -> main loop          *)
(*   submit_tx  mpsc::channel(256), search threads -> session task         *)
(*                                                                         *)
(* tokio itself is not part of the repository.  These operators say what   *)
(* the code relies on: send on a full broadcast channel overwrites the     *)
(* oldest event, and the receiver is told once that it lagged; try_send on *)
(* a full mpsc channel hands the value back, and the callers drop it       *)
(* ("let _ = submit_tx.try_send(..)").                                     *)
(***************************************************************************)
EXTENDS Naturals, Sequences

IsFull(q, cap) == Len(q) >= cap

BroadcastSend(q, cap, e) ==
  IF IsFull(q, cap) THEN Append(Tail(q), e) ELSE Append(q, e)

TrySend(q, cap, s) ==
  IF IsFull(q, cap) THEN q ELSE Append(q, s)

=============================================================================
