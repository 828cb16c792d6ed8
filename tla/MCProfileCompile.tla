-------------------------- MODULE MCProfileCompile --------------------------
(* ProfileCompile on small sets: a uuid, a trojan password, and shadowsocks   *)
(* keys of two methods, one of which is too short for its method; versions    *)
(* at both sides of 1.8 and with parts that are no numbers.                   *)
EXTENDS ProfileCompile, TLC

MCPskBytes == [uuid |-> 0, word |-> 0, key |-> 16, otherKey |-> 16]

MCMaterials ==
    {Material("vless", "none", "uuid"), Material("trojan", "none", "word"),
     Material("shadowsocks", "2022-blake3-aes-128-gcm", "key"),
     Material("shadowsocks", "2022-blake3-aes-128-gcm", "otherKey"),
     Material("shadowsocks", "2022-blake3-aes-256-gcm", "key")}

MCVersions == {<<1, 7, 9>>, <<1, 8>>, <<0, 9>>, <<2, 0>>, <<1, Unparsed>>, <<Unparsed, 7, 5>>}

Symmetry == Permutations(Profiles) \cup Permutations(Clients) \cup Permutations(Workers)
=============================================================================
