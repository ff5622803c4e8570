------------------------------- MODULE NodeIp -------------------------------
(***************************************************************************)
(* Node._generate_node_ip of kwok/kwok.py: the address of the KWOK node of *)
(* an index, counted up from base_ip, which is 10.0.0.10 unless a caller   *)
(* says otherwise, with a carry from octet to octet.                       *)
(***************************************************************************)
EXTENDS Integers

Octet == 0 .. 255

C(base, index) == base[3] + (base[4] + index) \div 256
B(base, index) == base[2] + C(base, index) \div 256
A(base, index) == base[1] + B(base, index) \div 256

(* Mutant: the carry of the last octet is lost in the third.               *)
GenerateLosesCarry(base, index) ==
    <<A(base, index), B(base, index) % 256, base[3] % 256, (base[4] + index) % 256>>

Generate(base, index) ==
    <<A(base, index), B(base, index) % 256, C(base, index) % 256,
      (base[4] + index) % 256>>

(***************************************************************************)
(* "Exceeded valid IPv4 address range."                                    *)
(***************************************************************************)
InRange(base, index) == A(base, index) <= 255

(***************************************************************************)
(* The addresses between <<base[1], 0, 0, 0>> and ip.                      *)
(***************************************************************************)
Offset(base, ip) ==
    (((ip[1] - base[1]) * 256 + ip[2]) * 256 + ip[3]) * 256 + ip[4]

=============================================================================
