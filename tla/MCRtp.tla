------------------------------- MODULE MCRtp -------------------------------
(* RtpSession on a small instance. *)
EXTENDS RtpSession

Bytes(n) == [k \in 1..n |-> 7]
Head4(kind, count, words) == <<128 + count, kind, 0, words>>

Report == Head4(RR, 0, 1) \o Bytes(4)
ItemsExact == Head4(SDES, 1, 3) \o Bytes(4) \o <<1, 5>> \o Bytes(5) \o <<End>>
Leaving == Head4(BYE, 1, 2) \o Bytes(4) \o <<3>> \o Bytes(3)
Mumbling == Head4(BYE, 1, 2) \o Bytes(4) \o <<3, 7, 195, 7>>
Scrambled == Head4(SDES, 1, 3) \o Bytes(4) \o <<1, 5, 195, 169, 224, 128, 128, End>>
Accented == Head4(SDES, 1, 3) \o Bytes(4) \o <<1, 5, 195, 169, 226, 130, 172, End>>
Silent == Head4(BYE, 1, 1) \o Bytes(4)
SenderInfo == Head4(SR, 1, 12) \o Bytes(48)

\* A report that announces more than it has, which panics its reader.
Short == Head4(RR, 1, 7) \o Bytes(20)

Plain == [version |-> RtpVersion, padding |-> FALSE, extension |-> FALSE,
          marker |-> TRUE, payload_type |-> 0, csrcs |-> 2, seq |-> 0, stamp |-> 0,
          ssrc |-> Other]

MCStarts == {<<1, 0>>}

\* For the codecs, which keep nothing: compounds, with texts and with bytes
\* that are none.
MCLoneDatagrams ==
    {SenderInfo \o ItemsExact, Leaving \o Accented, Leaving \o Scrambled,
     Mumbling \o ItemsExact, Mumbling, Accented \o Report, Scrambled, Silent,
     Silent \o Report, ItemsExact \o Head4(APP, 0, 2) \o Bytes(8)}
MCRtcpDatagrams == MCLoneDatagrams \cup {Leaving, Short}

\* A payload type and numbers of sources that do not fit their fields, and a
\* version and flags that are not written.
MCLoneHeaders ==
    {[Plain EXCEPT !.marker = FALSE], [Plain EXCEPT !.payload_type = 200],
     [Plain EXCEPT !.csrcs = 15]}
    \cup {[Plain EXCEPT !.csrcs = c] : c \in {16, 32, 64, 300}}
    \cup {[Plain EXCEPT !.version = v] : v \in {0, 3}}
    \cup {[Plain EXCEPT !.padding = TRUE], [Plain EXCEPT !.extension = TRUE]}
MCOwnHeaders == MCLoneHeaders \cup {Plain}
=============================================================================
