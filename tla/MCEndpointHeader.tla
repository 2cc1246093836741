-------------------------- MODULE MCEndpointHeader --------------------------
(***************************************************************************)
(* Endpoints 10.0.0.1 to 10.0.102.168 and 192.0.2.10 to 198.51.100.20, of  *)
(* variable length and of a fixed length.                                  *)
(***************************************************************************)
EXTENDS EndpointHeader

Address(a, b, c, d) == <<256 * a + b, 256 * c + d>>

MCEndpoints ==
    [source : {Address(10, 0, 0, 1)}, destination : {Address(10, 0, 102, 168)},
     payload_len : {{}, {64}}, mtu : {1472}]
    \cup
    [source : {Address(192, 0, 2, 10)}, destination : {Address(198, 51, 100, 20)},
     payload_len : {{}}, mtu : {1472}]

MCPayloadLens == {0, 1, 5, 42, 64, 1450, 1472}
=============================================================================
