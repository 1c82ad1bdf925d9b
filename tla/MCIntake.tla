------------------------------- MODULE MCIntake -------------------------------
(* Intake on a road of half kilometres with two overlapping zones. *)
EXTENDS Intake, TLC

CONSTANTS home, edge, far, nowhere

Road == {[center |-> 0, radius |-> 8], [center |-> 10, radius |-> 1]}

\* Home is in the zone whose centre is not the nearest, and edge is outside,
\* though a customer may place it where it is borderline.
Map == home :> 7 @@ edge :> 14 @@ far :> 20 @@ nowhere :> NoPosition

Form(endpoint, model, address, client) ==
  [endpoint |-> endpoint, model |-> model, address |-> address,
   client |-> client, listed |-> TRUE, day |-> 0, minute |-> 480]

Sent ==
  {Form("booking", "V2", home, 8), Form("quote", "V2", home, NoPosition),
   Form("booking", "V2", edge, 12), Form("booking", "V2", far, 12),
   Form("booking", "V1", far, NoPosition),
   Form("quote", "V2", nowhere, NoPosition),
   [Form("booking", "V2", home, 7) EXCEPT !.day = 31],
   [Form("booking", "V2", home, 7) EXCEPT !.minute = 1021],
   [Form("quote", "V1", edge, 12) EXCEPT !.listed = FALSE],
   [Form("quote", "V2", edge, 12) EXCEPT !.listed = FALSE, !.minute = 1020]}
=============================================================================
