------------------------------ MODULE MqttTask ------------------------------
(***************************************************************************)
(* mqtt_task of app/mqtt.rs: sessions of DNS, TCP and TLS, ten seconds     *)
(* apart, until one gets through to the idle loop, which it never leaves.  *)
(***************************************************************************)
CONSTANT Host  \* what MQTT_HOST is: a "name", or a literal "v4" or "v6"

VARIABLES ip,   \* IPCP has configured the stack
          mqtt  \* "off", "config", a step of run_session(), "wait"

\* The steps of run_session() and what follows each; a literal IPv4 address
\* needs no DNS.
Steps == {"dns", "tcp", "tls", "write"}
first == IF Host = "v4" THEN "tcp" ELSE "dns"
following == [dns |-> "tcp", tcp |-> "tls", tls |-> "write", write |-> "idle"]

Spawn == mqtt' = "config"

\* wait_config_up(), or the pause between two sessions.
Begin ==
  /\ \/ mqtt = "config" /\ ip
     \/ mqtt = "wait"
  /\ mqtt' = first
  /\ UNCHANGED ip

\* A failed write is only logged.
Succeed ==
  /\ mqtt \in Steps /\ ~(mqtt = "dns" /\ Host = "v6")
  /\ mqtt' = following[mqtt]
  /\ UNCHANGED ip

\* MUTANT: an error ends the task.
FailForGood ==
  /\ mqtt \in Steps \ {"write"}
  /\ mqtt' = "dead"
  /\ UNCHANGED ip

Fail ==
  /\ mqtt \in Steps \ {"write"}
  /\ mqtt' = "wait"
  /\ UNCHANGED ip
=============================================================================
