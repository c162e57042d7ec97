---- MODULE MCComposer ----
\* TLC instances of Composer.
EXTENDS Composer
====
