------------------------------- MODULE MCQuoting -------------------------------
(* Quoting on a catalogue of selections that meets every branch of PriceEngine. *)
EXTENDS Quoting

\* Nothing but a model and a size; each selection below changes a few fields.
Plain(model, service) ==
  [model |-> model, service |-> service, mode |-> "none", rooms |-> <<1, 1>>,
   additional |-> 0, hours |-> 0, cleaners |-> 0, windows |-> 0,
   extras |-> <<>>, pets |-> FALSE, special |-> "none", fee |-> NoFee,
   dynamic |-> FALSE]

Regular == Plain("V2", "regular")

\* V1: every service, with and without what only dynamicFields keeps.
LegacyOrders ==
  {[Plain("V1", s) EXCEPT !.rooms = r, !.additional = n, !.pets = n > 0,
                          !.extras = IF n > 0 THEN "oven" :> 1 ELSE <<>>] :
     s \in {"standard", "deep", "apartment"},
     r \in {<<1, 1>>, <<2, 1>>, <<4, 3>>}, n \in {0, 1}}
  \cup {[Plain("V1", "move") EXCEPT !.mode = mode, !.additional = 1,
                                   !.dynamic = d] :
          mode \in MoveModes \cup {"none"}, d \in BOOLEAN}
  \cup {[Plain("V1", "post_construction") EXCEPT !.hours = h, !.cleaners = c,
                                                !.dynamic = TRUE] :
          h \in {0, 2}, c \in {1, 3, 4}}
  \cup {[Plain("V1", "window") EXCEPT !.windows = w, !.dynamic = d] :
          w \in {0, 5}, d \in BOOLEAN}

\* V2: every special service with one extra, alone or with another.
Extras ==
  {<<>>, "garage" :> 1 @@ "full_garage" :> 1, "laundry" :> 3,
   "laundry" :> 2 @@ "oven" :> 1, "cabinets" :> 1}
  \cup {e :> 1 : e \in {"refrigerator", "heavy_furniture_moving", "garage",
                       "closet_organization"}}

CurrentOrders ==
  {[Regular EXCEPT !.special = s, !.extras = x, !.rooms = <<5, 3>>] :
     s \in DOMAIN SpecialFees, x \in Extras}
  \cup {[Regular EXCEPT !.rooms = r, !.additional = n, !.fee = f] :
          r \in {<<1, 1>>, <<5, 2>>, <<6, 3>>}, n \in {0, 2},
          f \in {NoFee, 0, 2500}}

AllOrders == LegacyOrders \cup CurrentOrders

\* What both of two bookings may be for, and by whom: one e-mail for two
\* addresses, and one address for two e-mails.
CommonOrders ==
  {[Regular EXCEPT !.special = "deep_home_cleaning", !.extras = "oven" :> 1]}

Submission(order, address, email, requested, commercial) ==
  [order |-> order, address |-> address, email |-> email,
   requested |-> requested, commercial |-> commercial]

CONSTANTS home, office, mail, mail2

CommonSubmissions ==
  UNION {{Submission(o, home, mail, TRUE, "quote_requested"),
          Submission(o, home, mail2, TRUE, "none"),
          Submission(o, office, mail, FALSE, "quote_requested")} :
           o \in CommonOrders}

AllSubmissions ==
  CommonSubmissions
    \cup {Submission(o, home, mail, TRUE, "quote_requested") : o \in AllOrders}

Interchangeable == Permutations(Bookings) \cup Permutations(Admins)
=============================================================================
