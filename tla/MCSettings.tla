----------------------------- MODULE MCSettings -----------------------------
(* Configurations a user may ask for: the defaults, four that the app takes *)
(* and plaidsync does not, and four that the app refuses.                   *)
EXTENDS Settings

Word(name) == [name |-> name, shape |-> "word"]
Country(name) == [name |-> name, shape |-> "alpha2"]

MCDefaults == [interval |-> 3600, countryCodes |-> <<Country("ca")>>,
               products |-> <<Word("transactions")>>, days |-> 730,
               linkClientName |-> "Money Insighter"]

MCTunings ==
  {MCDefaults,
   [MCDefaults EXCEPT !.interval = 0, !.countryCodes = <<Country("ca"), Country("us"), Country("ca")>>],
   [MCDefaults EXCEPT !.interval = TooLarge, !.days = 1],
   [MCDefaults EXCEPT !.products = <<Word("transactions"), Word("transactions")>>],
   [MCDefaults EXCEPT !.products = <<[name |-> "_", shape |-> "underscored"]>>],
   [MCDefaults EXCEPT !.interval = Junk],
   [MCDefaults EXCEPT !.days = 731],
   [MCDefaults EXCEPT !.countryCodes = <<[name |-> "can", shape |-> "word"]>>],
   [MCDefaults EXCEPT !.linkClientName = Absent]}
=============================================================================
