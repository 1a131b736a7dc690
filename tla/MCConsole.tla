------------------------------- MODULE MCConsole -------------------------------
(* Console with words of three hexadecimal digits, and memory maps of up to six *)
(* entries, with and without the attributes that make an entry longer.          *)
EXTENDS Console

Entry(base, high) == <<20, base, high, 639, 0, 1>>

Wide(base) == <<24, base, 0, 16, 0, 2, 0>>

Maps == {<<Entry(0, 0)>>,
         <<Entry(0, 0), Wide(\hF00), Entry(\hFFF, 0)>>,
         <<Entry(0, 0), Entry(\h9FC, 0), Entry(\hF0, 0), Entry(\h800, 0)>>,
         <<Entry(0, 0), Entry(\h10, 0), Entry(\hFC0, 0), Entry(\h7FF, 0), Entry(1, 1), Entry(3, 0)>>}

ThreeInfos ==
    {[flags |-> {0, 6}, mem_lower |-> 639, mem_upper |-> \hFF8, mmap |-> m] : m \in Maps}
        \cup {[flags |-> {}, mem_lower |-> 0, mem_upper |-> 0, mmap |-> <<>>]}

Early == {[format |-> <<"\n", "%", "x", " ">>, args |-> <<\hFE>>],
          [format |-> <<"/", "%", "d", ":", "%", "x">>, args |-> <<241, 0>>],
          [format |-> <<"D", "%", "s">>, args |-> <<<<"M", "F">>>>]}

Addresses == <<\h100, \h11C>>

Late == {[format |-> <<"%", "c">>, args |-> <<"a">>],
         [format |-> <<"<", "0", "x", "%", "x", ">">>, args |-> <<16>>],
         [format |-> <<"%", "%", "u", "%">>, args |-> <<>>],
         [format |-> <<"%", "u">>, args |-> <<1>>]}

Characters == STRING

(* The timer's interrupt, one of the keyboard for A, and a spurious one.        *)
Three == {<<0>>, <<1, 97>>, <<7, 39, 7>>}
================================================================================
