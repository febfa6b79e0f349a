---------------------------- MODULE MCTextInputs ----------------------------
EXTENDS TextInputs, EncodingInputs

\* base64: "A", "Q" (a tail whose spare bits are zero in both short blocks),
\* "_" and "=".  identity: the bytes at the edges of the ranges.  list: comma,
\* blank, tab, line feed, ".", "a", "A".  url: "/", "?", "#", "@", "h", DEL.
MCAlphabet ==
    [base64 |-> {65, 81, 95, 61},
     identity |-> {31, 65, 127, 128, 143, 144, 159, 160, 191, 193, 194, 223, 224,
                   237, 240, 244, 245},
     list |-> {44, 32, 9, 10, 46, 97, 65},
     scope |-> {32, 33, 34, 97, 98, 99},
     url |-> {47, 63, 35, 64, 104, 127},
     key |-> {97, 98}]

MCLongest ==
    [base64 |-> 7, identity |-> 4, list |-> 5, scope |-> 7, url |-> 4, key |-> 4]
=============================================================================
