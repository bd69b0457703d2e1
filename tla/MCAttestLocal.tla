--------------------------- MODULE MCAttestLocal ---------------------------
(* The instance of AttestClient for a local deployment, with the encodings  *)
(* that its symbolic messages stand for.                                    *)
EXTENDS MCAttestClient, SigningBytes

MCTexts  == {<<>>, <<"a">>, <<"b">>, <<"a", "a">>, <<"a", "b">>, <<"b", "a">>}
MCTimes  == {<<"a">>, <<"b">>}
MCDigest ==
  [t \in MCTexts |-> CASE t = <<>>         -> <<"a", "a", "a">>
                       [] t = <<"a">>      -> <<"a", "a", "b">>
                       [] t = <<"b">>      -> <<"a", "b", "a">>
                       [] t = <<"a", "a">> -> <<"b", "a", "a">>
                       [] t = <<"a", "b">> -> <<"b", "b", "a">>
                       [] t = <<"b", "a">> -> <<"b", "b", "b">>]

(* The decimals of 1 begin those of 12.                                     *)
MCDecimal == [n \in {1, 2, 12} |-> CASE n = 1  -> <<"a">>
                                     [] n = 2  -> <<"b">>
                                     [] n = 12 -> <<"a", "b">>]

(* At every step of the client: what is signed is one statement's bytes.    *)
StatementsKeptApart == [][StatementsDistinct]_vars

(* At every step: each program and seed has a key of its own.               *)
DerivedKeysKeptApart == [][DerivedKeysDistinct]_vars

(* At every step: what the provider returns belongs to one program, as long *)
(* as no CID begins with another.                                           *)
ProgramsKeptApart == [][ProviderDistinguishesPrograms]_vars
=============================================================================
