------------------------------- MODULE MCMpi -------------------------------
(***************************************************************************)
(* bignum.c with limbs of four bits: three registers, of which x is only   *)
(* a destination or a small operand, and a and b may hold any of the       *)
(* integers below, with either sign, with leading zeros, or nothing.       *)
(***************************************************************************)
EXTENDS Mpi

MCReg == {"x", "a", "b"}

Magnitudes ==
  {<<0>>, <<1>>, <<7>>, <<15>>, <<0, 1>>, <<15, 7>>, <<9, 0, 0>>,
   <<1, 0, 8>>, <<1, 0, 1>>, <<4, 2, 9>>, <<15, 15, 15>>}

MCStart(r) ==
  IF r = "x" THEN {Empty} \cup [s : {1}, p : {<<5, 2, 0, 0>>, <<1, 15>>}]
  ELSE {Empty} \cup [s : {1, -1}, p : Magnitudes]

\* Lengths of exponents up to twelve bits meet all window sizes.
MCWindows == <<2, 4, 6, 9>>

Bits == {0, 3, 4, 9, 13}

MCCalls ==
  [op : {"add_abs", "sub_abs", "add", "sub", "mul"}, x : MCReg, a : {"a"}, b : {"a", "b"}]
    \cup [op : {"copy", "cond_assign"}, x : MCReg, a : {"a"}, k : {0, 1}]
    \cup [op : {"swap", "cond_swap"}, x : MCReg, y : {"a"}, k : {0, 1}]
    \cup [op : {"lset"}, x : {"x"}, z : {-7, 0, 5}]
    \cup [op : {"set_bit"}, x : {"a"}, k : Bits, z : {0, 1}]
    \cup [op : {"shift_l", "shift_r"}, x : {"a"}, k : Bits]
    \cup [op : {"get_bit"}, a : {"a"}, k : Bits]
    \cup [op : {"lsb", "bitlen", "size"}, a : {"a"}]
    \cup [op : {"read_binary"}, x : {"x"}, buf : {<<>>, <<0>>, <<3>>, <<1, 2, 3>>, <<0, 0, 2, 1, 0>>}]
    \cup [op : {"write_binary"}, a : {"a"}, k : {0, 1, 2, 4, 7}]
    \cup [op : {"cmp", "cmp_abs"}, a : {"a"}, b : MCReg]
    \cup [op : {"cmp_int", "mod_int"}, a : {"a"}, z : -1 .. 4]
    \cup [op : {"add_int", "sub_int"}, x : {"x", "a"}, a : {"a"}, z : {-7, 0, 5}]
    \cup [op : {"mul_int"}, x : {"x", "a"}, a : {"a"}, z : {0, 5, 15}]
    \cup [op : {"div"}, x : {"x", "NULL"}, y : {"a", "b", "x", "NULL"}, a : {"a"}, b : {"a", "b"}]
    \cup [op : {"div_int"}, x : {"x"}, y : {"b", "NULL"}, a : {"a"}, z : {-6, 0, 15}]
    \cup [op : {"mod"}, x : {"x", "a"}, a : {"a"}, b : {"a", "b"}]
    \cup [op : {"exp_mod"}, x : {"x"}, a : MCReg, b : {"b"}, n : {"a"}]
    \cup [op : {"exp_mod"}, x : {"a"}, a : {"a"}, b : {"b"}, n : {"x"}]
    \cup [op : {"gcd"}, x : MCReg, a : {"a"}, b : {"b"}]
    \cup [op : {"inv_mod"}, x : {"x"}, a : {"a"}, n : {"b", "x"}]
    \cup [op : {"inv_mod"}, x : {"a"}, a : {"a"}, n : {"x"}]
=============================================================================
