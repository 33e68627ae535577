----------------------------- MODULE MCLiveBoard -----------------------------
(* The board over the trades of MCStream. *)
EXTENDS LiveBoard, MCStream

=============================================================================
