---------------------------- MODULE MCSegmentCors ----------------------------
EXTENDS SegmentCors

\* Origins: the configured host, a subdomain of it, the P7 look-alike
\* example.com.evil, and evilexample.com, which ends in "example.com"
\* without being a subdomain.
MCHosts ==
    {<<"example", ".", "com">>, <<"x", ".", "example", ".", "com">>,
     <<"example", ".", "com", ".", "evil">>, <<"evil", "example", ".", "com">>}

MCConfigHosts == {<<"example", ".", "com">>}
=============================================================================
