---------------------------- MODULE MCRouting ----------------------------
EXTENDS Routing

Listed(id, family, efforts) == [id |-> id, family |-> family, efforts |-> efforts]
Sol == Listed("sol", "sol", <<0, 1, 2, 3, 4, 5>>)
Catalogs3 ==
  {<<Sol, Listed("five5", "5.5", <<2, 3, 4>>), Listed("mini", "mini", <<1, 2>>)>>,
   <<Listed("mini", "mini", <<3, 2>>), Sol, Listed("five5", "5.5", <<5, 3, -1>>)>>,
   <<Listed("mini", "none", <<2>>), Sol>>}
Thresholds1 == {[conserve |-> 10, critical |-> 20, blocked |-> 60]}

Row(used, other, spend, reached) ==
  [status |-> "AVAILABLE", used |-> used, other |-> other, spend |-> spend, reached |-> reached]
Answers == {Row(50, -1, FALSE, FALSE), Row(50, 95, FALSE, FALSE), Row(75, -1, FALSE, TRUE)}
Updates ==
  {[used |-> 75, spend |-> "null", reached |-> FALSE],
   [used |-> -1, spend |-> "null", reached |-> TRUE],
   [used |-> -1, spend |-> "true", reached |-> FALSE],
   [used |-> 50, spend |-> "false", reached |-> FALSE]}

\* Tests matter to writing only, an audit and blanks to Ultra only.
Asks ==
  {r \in [class : {1, 3, 5}, low : BOOLEAN, readOnly : BOOLEAN, files : {1, 4},
           tests : BOOLEAN, model : {"sol", "five5"}, effort : {2, 4, 5},
           padded : BOOLEAN, audit : BOOLEAN] :
     /\ r.readOnly => r.tests
     /\ r.audit => r.effort = 5 /\ r.readOnly
     /\ r.padded => r.effort = 5 /\ ~r.audit}
Plans ==
  {r \in Asks : r.files = 1 /\ r.readOnly /\ ~r.audit /\ ~r.padded /\ r.model = "sol" /\ r.effort = 4
     /\ <<r.class, r.low>> \in {<<1, TRUE>>, <<3, FALSE>>}}
=============================================================================
