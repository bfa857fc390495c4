---------------------------- MODULE MCByteCodec ----------------------------
EXTENDS ByteCodec

\* each side of every form boundary, and the largest value TLC represents
MCValues32 == {0, 127, 128, 16383, 16384, 2097151, 2097152, 268435455,
               268435456, 2147483647}

\* a one-byte and a five-byte high part, a low part with the top bit clear
MCValues64 == {<<1, 2147483647>>, <<268435456, 0>>}
\* two-field record bodies of every layout with a 64-bit field
MCFormats == {<<"c32", "c32">>, <<"c32", "u64">>, <<"u64", "c32">>}
=============================================================================
