------------------------------ MODULE MCStorage ------------------------------
EXTENDS Storage
====
