---------------------------- MODULE MCFramePolicy ----------------------------
EXTENDS FramePolicy

\* Chains of up to five frames reach the spec's scenario 6
\* <<art, art, dex, art, native>> and runs on both sides of a DEX frame.
MCMaxFrames == 5
=============================================================================
