---------------------------- MODULE MCParameters ----------------------------
(* A small instance of Parameters for TLC.                                 *)
EXTENDS Parameters

(* "", "a", "%a", "=&", "+ ", a byte below 16, two above 127.              *)
MCTexts == {<<>>, <<97>>, <<37, 97>>, <<61, 38>>, <<43, 32>>, <<13, 48>>, <<195, 233>>}
MCValues == {<<>>, <<97>>, <<61, 38>>, <<10, 255>>}

(* "/p", "/p?q=1", "/p?q&r=1", "/p?q&" and "/p#f".                         *)
MCUrls ==
  {<<47, 112>>, <<47, 112, 63, 113, 61, 49>>, <<47, 112, 63, 113, 38, 114, 61, 49>>,
   <<47, 112, 63, 113, 38>>, <<47, 112, 35, 102>>}

(* Latin-1.                                                                *)
MCHighAlnum == {233}
=============================================================================
