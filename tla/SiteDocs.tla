------------------------------ MODULE SiteDocs ------------------------------
(* What the documentation says of the first letters of a site, and the code  *)
(* does not keep.                                                            *)
EXTENDS MCSiteLetters

\* One letter to a donor at a time (docs/OUTREACH_THREADS.md:128), and the return
\* of a letter after a silent DNS is not a second letter to its recipient
\* (letters/dns_return.py:19-22).  A build that has chosen the next address before
\* the pass judges the site queues its letter afterwards.
OneLetterAlways ==
    \A i, j \in DOMAIN letters : Writes(i) /\ Writes(j) => i = j
=============================================================================
