---------------------------- MODULE TopicRouting ----------------------------
(***************************************************************************)
(* How topics are subscribed to and told apart.  A topic, a template of    *)
(* the configuration and a filter are sequences of segments; the           *)
(* placeholders {id} and {sensor} are written ID and SENSOR.               *)
(*                                                                         *)
(* External: which topics a filter matches is the broker's business        *)
(* (MQTT 5, 4.7).                                                          *)
(***************************************************************************)
EXTENDS Integers, Sequences

Placeholders == {"ID", "SENSOR"}

\* SubTopics of the accident monitor and of iot-monitor, as shipped.
AccidentSubTopics ==
  <<<<"test">>, <<"rsu", "AccidentReport", "ID">>, <<"rsu", "Requests", "Directions", "ID">>,
    <<"rsu", "Requests", "AdvancedDirections", "ID">>, <<"rsu", "HealthCheck">>>>
IotSubTopics == <<<<"iot", "rsu", "ID">>>>

\* What SubscribeAsync and SubscribeToConfiguredTopicsAsync ask the broker for.
AccidentFilter(template) ==
  [i \in DOMAIN template |-> IF template[i] = "ID" THEN "+" ELSE template[i]]
IotFilter(template) ==
  [i \in DOMAIN template |-> IF template[i] = "ID" THEN "+"
                             ELSE IF template[i] = "SENSOR" THEN "#" ELSE template[i]]

Matches(filter, topic) ==
  \/ /\ Len(topic) = Len(filter)
     /\ \A i \in DOMAIN filter : filter[i] \in {topic[i], "+", "#"}
  \/ /\ Len(filter) > 0 /\ filter[Len(filter)] = "#"
     /\ Len(topic) >= Len(filter) - 1
     /\ \A i \in 1..(Len(filter) - 1) : filter[i] \in {topic[i], "+"}

\* Mutant: the first segment is taken, whatever the template has there.
ExtractIdMutant(template, topic) == {topic[1]}

\* The segment where the template has its first placeholder, as a set that is
\* empty where the code returns null.  Only the lengths are compared.
ExtractId(template, topic) ==
  {topic[i] : i \in {j \in DOMAIN template :
     /\ Len(template) = Len(topic)
     /\ template[j] \in Placeholders
     /\ \A k \in 1..(j - 1) : template[k] \notin Placeholders}}

\* t.StartsWith(template.Split('{')[0]), of topics that reach the service.
StartsWith(topic, template) ==
  \A i \in DOMAIN template :
    (\A k \in 1..i : template[k] \notin Placeholders)
      => i \in DOMAIN topic /\ topic[i] = template[i]

\* The case of HandleMessageAsync's switch a topic reaches; 5 is its default.
Case(topic) ==
  CHOOSE c \in 1..5 :
    /\ c = 5 \/ StartsWith(topic, AccidentSubTopics[c])
    /\ \A d \in 1..(c - 1) : ~StartsWith(topic, AccidentSubTopics[d])
=============================================================================
