----------------------------- MODULE MCDetection ----------------------------
(* Small instances of Detection.                                            *)
EXTENDS Detection

Row(id, ts, ip, user, host, url, threat, bytes) ==
    [id |-> id, ts |-> ts, client_ip |-> ip, username |-> user, host |-> host,
     url |-> url, threat_name |-> threat, req_bytes |-> bytes]

(* Two minutes an hour, three hours a day.  Host 1 is polled every fourth   *)
(* unit by address 7, which also bursts; hosts 2 and 3 are rare; rows       *)
(* without a time, a user, a host or an address; two threats, two uploads   *)
(* above the others; a user whose name has the separator in it.             *)
Pool == <<
    Row(1, 0, 7, 1, 1, 1, None, 0),
    Row(2, 1, 7, 1, 2, 2, None, 1),
    Row(3, 4, 7, 2, 1, 1, None, 5),
    Row(4, 5, 7, 2, 2, 1, 1, 1),
    Row(5, 8, 7, 2, 1, None, None, 1),
    Row(6, 12, 8, 2, 3, 3, None, 7),
    Row(7, None, None, None, 2, None, 1, None),
    Row(8, 13, None, None, 3, 3, 2, None),
    Row(9, 8, 8, None, 2, 4, None, 7),
    Row(10, 13, 8, 5, 1, 1, None, 1) >>

(* Every part of the pool is a file.                                        *)
MCFiles == {SelectSeq(Pool, LAMBDA x : x.id \in I) : I \in SUBSET DOMAIN Pool}

(* Formulas as simple as they can be while they use all they are given.     *)
MCScore(kind, f) ==
    CASE kind = "volume_spike" -> IF 2 * f[1] > TwiceMedian(f[2]) THEN f[1] ELSE 0
      [] kind = "data_exfil" ->
           Quantify(DOMAIN f[2], LAMBDA v : v < f[1] /\ f[2][v] > 1)
      [] kind = "beaconing" -> IF \A s, t \in DOMAIN f : f[s] = f[t] THEN 3 ELSE 0
      [] kind = "blocked_threat" -> 2
      [] kind = "rare_destination" -> f[1] \div f[2]
      [] kind = "off_hours" -> f[3] + Quantify(DOMAIN f[1], LAMBDA h : f[1][h] * 4 < f[2])
=============================================================================
