---------------------------- MODULE MCNativeHost ----------------------------
EXTENDS NativeHost

\* One message id; text reaches the stream after three prints (the banner
\* counts as one), so a chunk is written within the second message.
MCIds == {"m1"}
=============================================================================
