---------------------------- MODULE StatusCodes ----------------------------
(***************************************************************************)
(* StatusCodeCompiler (Compiler/status_code_converter.cpp): the number a   *)
(* status code becomes in a stash.  Three rings are tried in turn: common  *)
(* codes, fallback codes, and the class of the code.                       *)
(***************************************************************************)
EXTENDS Integers

CommonCodes ==
  [c \in {0, 200, 201, 204, 301, 302, 400, 401, 403, 404, 429, 500, 503, 999} |->
    CASE c = 200 -> 32 [] c = 204 -> 36 [] c = 201 -> 33 [] c = 301 -> 49
      [] c = 302 -> 50 [] c = 400 -> 64 [] c = 401 -> 65 [] c = 404 -> 68
      [] c = 403 -> 67 [] c = 429 -> 73 [] c = 500 -> 80 [] c = 503 -> 83
      [] c = 0 -> 0    [] c = 999 -> 153]

StatusCodesFallback ==
  [c \in {207, 307, 308, 407, 422, 444, 451, 499, 507, 521} |->
    CASE c = 207 -> 39 [] c = 422 -> 71 [] c = 507 -> 87 [] c = 307 -> 55
      [] c = 308 -> 56 [] c = 407 -> 71 [] c = 451 -> 69 [] c = 444 -> 68
      [] c = 499 -> 73 [] c = 521 -> 82]

\* 0x1FF .. 0x5FF by class, 0x9FF for a code of no class.
OtherHex(code) == IF code \div 100 \in 1..5 THEN 256 * (code \div 100) + 255 ELSE 2559

ToHex(code) ==
  CASE code \in DOMAIN CommonCodes         -> CommonCodes[code]
    [] code \in DOMAIN StatusCodesFallback
       \ DOMAIN CommonCodes                -> StatusCodesFallback[code]
    [] OTHER                               -> OtherHex(code)
=============================================================================
